--------------------------- MODULE Handlers_proofs ---------------------------
(***************************************************************************)
(* An application reads the input that was sent for its own request, its   *)
(* parameters are those of the list its peer sends, as far as the parser   *)
(* reads such a list, and the answers to GET_VALUES are the answers to the *)
(* questions.  The invariants join what NVP_proofs says of one record to   *)
(* what the records before it left.                                        *)
(***************************************************************************)
EXTENDS HandlersInv, NVP_proofs

\* The types of the variables the streams depend on.
QueueType ==
    /\ phase \in {"ready", "params", "app", "ended"}
    /\ role \in Role
    /\ begins \in Nat
    /\ queue \in [Stream -> Seq(Record)]
    /\ sent \in [Stream -> Seq(Record)]

InputInv == QueueType /\ InputsExact

\* The inductive step, one case per action.
LEMMA InputStep == InputInv /\ [Next]_vars => InputInv'
<1> SUFFICES ASSUME InputInv, [Next]_vars PROVE InputInv'
  OBVIOUS
<1> USE DEF InputInv
<1>1. ASSUME NEW r \in Role, NEW list \in ParamLists, BeginRequest(r, list)
      PROVE  InputInv'
  <2>1. QueueType'
    <3>1. ResetInputs(r) \in [Stream -> Seq(Record)]
      BY DEF ResetInputs, QueueType
    <3>2. [s \in Stream |-> <<>>] \in [Stream -> Seq(Record)]
      OBVIOUS
    <3> QED BY <1>1, <3>1, <3>2, InputAssumption DEF BeginRequest, QueueType
  <2>2. ASSUME NEW s \in Used(r) PROVE queue'[s] = <<>> /\ sent'[s] = <<>>
    BY <1>1 DEF BeginRequest, ResetInputs, Used, Stream
  <2> QED BY <1>1, <2>1, <2>2 DEF BeginRequest, InputsExact
<1>2. ASSUME NEW n \in 1..Len(left), FeedParams(n) PROVE InputInv'
  BY <1>2 DEF FeedParams, QueueType, InputsExact
<1>3. CASE EndParams
  BY <1>3 DEF EndParams, QueueType, InputsExact
<1>4. ASSUME NEW s \in Stream, FeedInput(s) PROVE InputInv'
  <2>1. PICK last \in BOOLEAN :
          LET packet == [of |-> begins, n |-> Len(sent[s]), last |-> last] IN
          /\ sent' = [sent EXCEPT ![s] = Append(@, packet)]
          /\ queue' = [queue EXCEPT ![s] = Append(@, packet)]
    BY <1>4 DEF FeedInput, Push
  <2>2. [of |-> begins, n |-> Len(sent[s]), last |-> last] \in Record
    BY DEF QueueType, Record
  <2>3. QueueType'
    <3>1. UNCHANGED <<phase, role, begins>>
      BY <1>4 DEF FeedInput
    <3> QED BY <2>1, <2>2, <3>1 DEF QueueType
  <2>4. ASSUME NEW t \in Used(role) PROVE queue'[t] = sent'[t]
    <3>1. queue[t] = sent[t]
      BY <1>4 DEF FeedInput, InputsExact
    <3>2. t \in Stream
      BY DEF Used, Stream
    <3> QED BY <2>1, <3>1, <3>2 DEF QueueType
  <2> QED BY <1>4, <2>3, <2>4 DEF FeedInput, InputsExact
<1>5. ASSUME NEW s \in Stream, AppReads(s) PROVE InputInv'
  BY <1>5 DEF AppReads, QueueType, InputsExact
<1>6. CASE EndRequest
  BY <1>6 DEF EndRequest, QueueType, InputsExact
<1>7. CASE DropRequest
  BY <1>7 DEF DropRequest, QueueType, InputsExact
<1>8. CASE UNCHANGED inputVars
  BY <1>8 DEF inputVars, QueueType, InputsExact
<1>9. CASE UNCHANGED vars
  BY <1>8, <1>9 DEF vars
<1> QED
  BY <1>1, <1>2, <1>3, <1>4, <1>5, <1>6, <1>7, <1>8, <1>9
  DEF Next, RequestRecord, ManagementRecord, EndConnection, InputNext

\* Whatever the peer sends and wherever it cuts it, and however often the
\* object is used again, the queue of a stream that the role uses holds
\* the records sent for this request and no other (request.cpp:34-57,
\* 94-101).
THEOREM InputsCorrect == Spec => []InputsExact
<1>1. Init => InputInv
  BY DEF Init, InputInit, InputInv, QueueType, InputsExact, Role
<1>2. InputInv => InputsExact
  BY DEF InputInv
<1> QED BY <1>1, <1>2, InputStep, PTL DEF Spec

-----------------------------------------------------------------------------
(* Types, and the limit of a pair.                                         *)

\* A new deserializer has no buffer.
LEMMA FreshModerate == Fresh \in Moderate
  BY DEF Fresh, Moderate, Deserializer, ParserStates

\* Pairs within the limit are pairs.
LEMMA WithinPair == Within \subseteq Pair /\ Seq(Within) \subseteq Seq(Pair)
  <1>1. Within \subseteq Pair
    BY DEF Within
  <1> QED BY <1>1, SeqMonotonic

\* What new_key makes of a map of pairs within the limit.
LEMMA MapperSteps ==
  /\ StepsFor(Mapper, Within, SUBSET Within)
  /\ StepsFor(Mapper, Pair, SUBSET Pair)
  <1>1. ASSUME NEW p \in Pair, NEW map \in SUBSET Pair
        PROVE  Mapper[p][map] = NewKey(map, p)
    BY DEF Mapper
  <1>2. ASSUME NEW p \in Within, NEW map \in SUBSET Within
        PROVE  Mapper[p][map] \in SUBSET Within
    BY <1>1, WithinPair DEF NewKey
  <1>3. ASSUME NEW p \in Pair, NEW map \in SUBSET Pair
        PROVE  Mapper[p][map] \in SUBSET Pair
    BY <1>1 DEF NewKey
  <1> QED BY <1>2, <1>3 DEF StepsFor

\* One question adds one answer, or none.
LEMMA AnswererSteps == StepsFor(Answerer, Pair, Seq(Pair))
  <1>1. ASSUME NEW p \in Pair, NEW list \in Seq(Pair)
        PROVE  Answerer[p][list] \in Seq(Pair)
    <2>1. Answerer[p][list] =
            IF Known(p) THEN Append(list, [name |-> p.name,
                                           value |-> Answer[p.name]])
            ELSE list
      BY DEF Answerer
    <2>2. Known(p) => [name |-> p.name, value |-> Answer[p.name]] \in Pair
      BY GetValuesAssumption DEF Known, Pair
    <2> QED BY <2>1, <2>2
  <1> QED BY <1>1 DEF StepsFor

\* Answers are pairs.
LEMMA AnswersType ==
  ASSUME NEW list \in Seq(Pair) PROVE AnswersTo(list) \in Seq(Pair)
  <1>1. <<>> \in Seq(Pair)
    OBVIOUS
  <1> QED BY <1>1, AnswererSteps, FoldType DEF AnswersTo

\* A record of the request keeps the types of the input, and the limit.
LEMMA RequestTypes ==
  ASSUME LimitInv, InputNext PROVE InputTypeOK' /\ params' \subseteq Within
                                   /\ deserializer' \in Moderate
<1> USE DEF LimitInv, TypeOK, InputTypeOK
<1>1. ASSUME NEW r \in Role, NEW list \in ParamLists, BeginRequest(r, list)
      PROVE  /\ InputTypeOK' /\ params' \subseteq Within
             /\ deserializer' \in Moderate
  <2>1. list \in Seq(Pair)
    BY InputAssumption
  <2>2. SerializeAll(list) \in Seq(Byte)
    BY <2>1, SerializeAllType
  <2>3. begins + 1 \in 0..MaxBegin
    BY <1>1, InputAssumption DEF BeginRequest
  <2>4. ResetInputs(r) \in [Stream -> Seq(Record)]
    BY DEF ResetInputs
  <2>5. Fresh \in Moderate /\ Fresh \in Deserializer
    BY FreshModerate DEF Moderate
  <2>6. /\ [s \in Stream |-> <<>>] \in [Stream -> Seq(Record)]
        /\ [s \in Stream |-> FALSE] \in [Stream -> BOOLEAN]
    OBVIOUS
  <2> QED BY <1>1, <2>2, <2>3, <2>4, <2>5, <2>6 DEF BeginRequest
<1>2. ASSUME NEW n \in 1..Len(left), FeedParams(n)
      PROVE  /\ InputTypeOK' /\ params' \subseteq Within
             /\ deserializer' \in Moderate
  <2> DEFINE f == Feed(deserializer, SubSeq(left, 1, n))
  <2>1. SubSeq(left, 1, n) \in Seq(Byte)
    OBVIOUS
  <2>2. f \in ModerateResults
    BY <2>1, FeedModerate
  <2>3. /\ left' = IF f.how = "throw" THEN <<>> ELSE SubSeq(left, n + 1, Len(left))
        /\ process' = IF f.how = "undefined" THEN "undefined" ELSE process
        /\ phase' = IF f.how = "throw" THEN "ready" ELSE phase
        /\ deserializer' = f.d
        /\ params' = FoldList(f.out, params, Mapper)
        /\ whole' \in BOOLEAN
        /\ UNCHANGED <<role, queue, begins, pairs, sent, seen>>
    BY <1>2 DEF FeedParams
  <2> HIDE DEF f
  <2>4. f.d \in Moderate /\ f.d \in Deserializer /\ f.out \in Seq(Within)
    BY <2>2 DEF ModerateResults, Moderate
  <2>5. params' \in SUBSET Within
    BY <2>3, <2>4, MapperSteps, FoldType
  <2>6. left' \in Seq(Byte)
    <3>1. SubSeq(left, n + 1, Len(left)) \in Seq(Byte)
      OBVIOUS
    <3> QED BY <2>3, <3>1
  <2>7. params' \subseteq Pair
    BY <2>5, WithinPair
  <2> QED BY <2>3, <2>4, <2>5, <2>6, <2>7
<1>3. CASE EndParams
  BY <1>3, FreshModerate DEF EndParams, Moderate
<1>4. ASSUME NEW s \in Stream, FeedInput(s)
      PROVE  /\ InputTypeOK' /\ params' \subseteq Within
             /\ deserializer' \in Moderate
  <2>1. PICK last \in BOOLEAN :
          LET packet == [of |-> begins, n |-> Len(sent[s]), last |-> last] IN
          /\ sent' = [sent EXCEPT ![s] = Append(@, packet)]
          /\ queue' = [queue EXCEPT ![s] = Append(@, packet)]
    BY <1>4 DEF FeedInput, Push
  <2>2. [of |-> begins, n |-> Len(sent[s]), last |-> last] \in Record
    BY InputAssumption DEF Record
  <2>3. UNCHANGED <<process, phase, role, deserializer, params, begins, pairs,
                    left, whole, seen>>
    BY <1>4 DEF FeedInput
  <2>4. sent' \in [Stream -> Seq(Record)] /\ queue' \in [Stream -> Seq(Record)]
    BY <2>1, <2>2
  <2> QED BY <2>3, <2>4
<1>5. ASSUME NEW s \in Stream, AppReads(s)
      PROVE  /\ InputTypeOK' /\ params' \subseteq Within
             /\ deserializer' \in Moderate
  BY <1>5 DEF AppReads
<1>6. CASE EndRequest
  BY <1>6 DEF EndRequest
<1> QED BY <1>1, <1>2, <1>3, <1>4, <1>5, <1>6 DEF InputNext

\* The types of the result stream's operations.
ResultStream == [attached : BOOLEAN, written : Seq(Byte), eof : Nat]
LEMMA StreamType ==
  ASSUME NEW r \in ResultStream
  PROVE  /\ CloseStream(r) \in ResultStream
         /\ \A b \in Seq(Byte) : Write(r, b) \in ResultStream
  <1>1. r.eof \in Nat /\ r.written \in Seq(Byte) /\ r.eof + 1 \in Nat
    BY DEF ResultStream
  <1>2. CloseStream(r) \in ResultStream
    BY <1>1 DEF CloseStream, ResultStream
  <1>3. ASSUME NEW b \in Seq(Byte) PROVE Write(r, b) \in ResultStream
    <2>1. r.written \o b \in Seq(Byte)
      BY <1>1
    <2> QED BY <2>1 DEF Write, ResultStream
  <1> QED BY <1>2, <1>3

\* So does a management record those of the answers.
LEMMA ValuesTypes ==
  ASSUME LimitInv, ValuesNext PROVE ValuesTypeOK' /\ handler' \in Moderate
                                    /\ process' \in {"running", "terminated", "undefined"}
<1> USE DEF LimitInv, TypeOK, ValuesTypeOK
<1>0. process \in {"running", "terminated", "undefined"}
  BY DEF InputTypeOK
<1>1. ASSUME NEW list \in Queries, Ask(list)
      PROVE  /\ ValuesTypeOK' /\ handler' \in Moderate /\ process' = process
  <2>1. SerializeAll(list) \in Seq(Byte)
    BY GetValuesAssumption, SerializeAllType
  <2>2. queries + 1 \in 0..MaxQueries
    BY <1>1, GetValuesAssumption DEF Ask
  <2> QED BY <1>1, <2>1, <2>2 DEF Ask
<1>2. ASSUME NEW n \in 1..Len(ahead), FeedValues(n)
      PROVE  /\ ValuesTypeOK' /\ handler' \in Moderate
             /\ process' \in {"running", "terminated", "undefined"}
  <2> DEFINE f == Feed(handler, SubSeq(ahead, 1, n))
  <2>1. SubSeq(ahead, 1, n) \in Seq(Byte) /\ SubSeq(ahead, n + 1, Len(ahead)) \in Seq(Byte)
    OBVIOUS
  <2>2. f \in ModerateResults
    BY <2>1, FeedModerate
  <2>3. /\ ahead' = SubSeq(ahead, n + 1, Len(ahead))
        /\ tidy' \in BOOLEAN
        /\ process' \in {"undefined", "terminated", process}
        /\ handler' = f.d
        /\ result' = Write(result, SerializeAll(AnswersTo(f.out)))
        /\ UNCHANGED <<closed, asking, asked, first, queries>>
    BY <1>2 DEF FeedValues
  <2> HIDE DEF f
  <2>4. f.d \in Moderate /\ f.d \in Deserializer /\ f.out \in Seq(Pair)
    BY <2>2, WithinPair DEF ModerateResults, Moderate
  <2>5. SerializeAll(AnswersTo(f.out)) \in Seq(Byte)
    BY <2>4, AnswersType, SerializeAllType
  <2>6. result' \in ResultStream
    BY <2>3, <2>5, StreamType DEF ResultStream
  <2> QED BY <1>0, <2>1, <2>3, <2>4, <2>6 DEF ResultStream
<1>3. CASE EndValues
  BY <1>0, <1>3, StreamType DEF EndValues, ResultStream
<1> QED BY <1>0, <1>1, <1>2, <1>3 DEF ValuesNext

\* The inductive step of the types and of the limit.
LEMMA LimitStep == LimitInv /\ [Next]_vars => LimitInv'
<1> SUFFICES ASSUME LimitInv, [Next]_vars PROVE LimitInv'
  OBVIOUS
<1>1. CASE RequestRecord
  <2>1. UNCHANGED valueVars
    BY <1>1 DEF RequestRecord
  <2>2. ValuesTypeOK' /\ handler' \in Moderate
    BY <2>1 DEF valueVars, LimitInv, TypeOK, ValuesTypeOK
  <2> QED BY <1>1, <2>2, RequestTypes DEF RequestRecord, LimitInv, TypeOK
<1>2. CASE ManagementRecord
  <2>1. UNCHANGED inputVars /\ ValuesNext
    BY <1>2 DEF ManagementRecord
  <2>2. ValuesTypeOK' /\ handler' \in Moderate
        /\ process' \in {"running", "terminated", "undefined"}
    BY <2>1, ValuesTypes
  <2>3. InputTypeOK' /\ params' \subseteq Within /\ deserializer' \in Moderate
    BY <2>1, <2>2 DEF inputVars, LimitInv, TypeOK, InputTypeOK
  <2> QED BY <2>2, <2>3 DEF LimitInv, TypeOK
<1>3. CASE EndConnection
  <2> USE DEF LimitInv, TypeOK
  <2>1. ValuesTypeOK' /\ UNCHANGED <<process, handler>>
    BY <1>3, StreamType
    DEF EndConnection, DestroyConnection, ValuesTypeOK, ResultStream
  <2>2. InputTypeOK' /\ params' \subseteq Within /\ deserializer' \in Moderate
    <3>1. /\ phase' = "ready" /\ deserializer' = Fresh /\ params' = {}
          /\ left' = <<>> /\ pairs' = <<>> /\ begins' = 0
          /\ queue' = [s \in Stream |-> <<>>] /\ sent' = [s \in Stream |-> <<>>]
          /\ UNCHANGED <<process, role, whole, seen>>
      BY <1>3, <2>1 DEF EndConnection, DropRequest
    <3>2. Fresh \in Moderate /\ Fresh \in Deserializer /\ 0 \in 0..MaxBegin
      BY FreshModerate, InputAssumption DEF Moderate
    <3>3. [s \in Stream |-> <<>>] \in [Stream -> Seq(Record)]
      OBVIOUS
    <3> QED BY <3>1, <3>2, <3>3 DEF InputTypeOK
  <2> QED BY <2>1, <2>2
<1>4. CASE UNCHANGED vars
  BY <1>4 DEF vars, inputVars, valueVars, LimitInv, TypeOK, InputTypeOK,
              ValuesTypeOK
<1> QED BY <1>1, <1>2, <1>3, <1>4 DEF Next

\* It holds at the start.
LEMMA LimitInit == Init => LimitInv
<1> SUFFICES ASSUME Init PROVE LimitInv
  OBVIOUS
<1>1. Fresh \in Moderate /\ Fresh \in Deserializer
  BY FreshModerate DEF Moderate
<1>2. InputTypeOK
  BY <1>1, InputAssumption DEF Init, InputInit, InputTypeOK, Role
<1>3. ValuesTypeOK
  <2>1. result \in ResultStream
    BY DEF Init, ValuesInit, ResultStream
  <2>2. 0 \in 0..MaxQueries /\ <<>> \in Seq(Byte)
    BY GetValuesAssumption
  <2> QED BY <1>1, <2>1, <2>2 DEF Init, ValuesInit, ValuesTypeOK, ResultStream
<1> QED BY <1>1, <1>2, <1>3 DEF Init, InputInit, ValuesInit, LimitInv, TypeOK

\* Type correctness of the two handlers of a connection: whatever bytes come
\* and wherever they are cut, the parser's state stays in its type.
THEOREM TypeCorrect == Spec => []TypeOK
<1>1. LimitInv => TypeOK
  BY DEF LimitInv
<1> QED BY <1>1, LimitInit, LimitStep, PTL DEF Spec

\* No pair over the limit reaches the map, nor is a buffer allocated for
\* one, for any content and any cut of the records (limits.hpp:22-36,
\* name-value-pairs.hpp).
THEOREM ParamsWithinCorrect == Spec => []ParamsWithin
<1>1. LimitInv => ParamsWithin
  BY DEF LimitInv, ParamsWithin, Within, Moderate
<1> QED BY <1>1, LimitInit, LimitStep, PTL DEF Spec

-----------------------------------------------------------------------------
(* The map is that of the pairs sent so far.                               *)

\* No pairs make no map.
LEMMA MapEmpty == MapOf(<<>>) = {}
  <1>1. {} \in SUBSET Pair
    OBVIOUS
  <1> QED BY <1>1, MapperSteps, FoldEmpty DEF MapOf

\* A map may be made in two parts.
LEMMA MapConcat ==
  ASSUME NEW v \in Seq(Pair), NEW w \in Seq(Pair)
  PROVE  MapOf(v \o w) = FoldList(w, MapOf(v), Mapper)
  <1> DEFINE e == {}
             S == SUBSET Pair
  <1>1. e \in S /\ StepsFor(Mapper, Pair, S)
    BY MapperSteps
  <1> HIDE DEF e, S
  <1>2. FoldList(v \o w, e, Mapper) = FoldList(w, FoldList(v, e, Mapper), Mapper)
    BY <1>1, FoldConcat
  <1> QED BY <1>2 DEF e, MapOf

\* The list a peer is sending is one of pairs.
LEMMA ListsType ==
  ASSUME InputTypeOK PROVE pairs \in Seq(Pair) /\ left \in Seq(Byte)
  <1>1. <<>> \in Seq(Pair)
    OBVIOUS
  <1> QED BY <1>1, InputAssumption DEF InputTypeOK

\* The record that FeedParams feeds, if it ends between pairs.
LEMMA ParamsRecord ==
  ASSUME LimitInv, ParamsInv, process = "running", begins > 0,
         NEW n \in 1..Len(left), FeedParams(n), whole', process' = "running"
  PROVE  IF phase' = "ready" THEN \E j \in DOMAIN pairs' : Oversize(pairs'[j])
         ELSE \E j \in 0..Len(pairs') :
                /\ left' = SerializeAll(From(pairs', j))
                /\ params' = MapOf(Upto(pairs', j))
                /\ phase' = "params" => Clean(deserializer')
  <1> DEFINE f == Feed(deserializer, SubSeq(left, 1, n))
  <1>1. /\ whole /\ phase = "params"
        /\ left' = IF f.how = "throw" THEN <<>> ELSE SubSeq(left, n + 1, Len(left))
        /\ \A k \in DOMAIN pairs : ShortPair(pairs[k])
        /\ WholePairs(pairs, Len(SerializeAll(pairs)) - Len(left) + n) # {}
        /\ phase' = IF f.how = "throw" THEN "ready" ELSE phase
        /\ deserializer' = f.d
        /\ params' = FoldList(f.out, params, Mapper)
        /\ pairs' = pairs
    BY DEF FeedParams
  <1>2. PICK j \in 0..Len(pairs) :
          /\ left = SerializeAll(From(pairs, j))
          /\ params = MapOf(Upto(pairs, j))
          /\ Clean(deserializer)
    BY <1>1 DEF ParamsInv
  <1>3. PICK k \in WholePairs(pairs, Len(SerializeAll(pairs)) - Len(left) + n) :
          TRUE
    BY <1>1
  <1>4. pairs \in Seq(Pair) /\ Len(pairs) \in Nat /\ deserializer \in Moderate
    BY ListsType DEF LimitInv, TypeOK
  <1> DEFINE m == Between(pairs, j, k)
  <1>5. /\ k \in 0..Len(pairs) /\ j \in 0..k /\ j < k
        /\ SubSeq(left, 1, n) = SerializeAll(m)
        /\ SubSeq(left, n + 1, Len(left)) = SerializeAll(From(pairs, k))
    <2>1. AtPair(pairs, left, j) /\ EndsAt(pairs, left, n, k)
      BY <1>2, <1>3 DEF AtPair, EndsAt
    <2> QED BY <1>4, <2>1, WholeRecord
  <1>6. /\ m \in Seq(Pair) /\ Len(m) = k - j
        /\ \A i \in 1..(k - j) : m[i] = pairs[j + i]
        /\ Upto(pairs, k) = Upto(pairs, j) \o m
    BY <1>4, <1>5, CutInThree
  <1>7. \A i \in DOMAIN m : m[i] = pairs[j + i] /\ j + i \in DOMAIN pairs
    <2> HIDE DEF m
    <2> QED BY <1>4, <1>5, <1>6
  <1>8. Short(m) /\ m # <<>>
    <2>1. Short(m)
      BY <1>1, <1>7 DEF Short
    <2>2. Len(m) > 0
      BY <1>4, <1>5, <1>6
    <2> QED BY <2>1, <2>2
  <1>9. \/ f.how = "next" /\ Clean(f.d) /\ f.out = m
        \/ f.how = "throw" /\ \E i \in DOMAIN m : Oversize(m[i])
    <2> HIDE DEF m
    <2>1. LET g == Feed(deserializer, SerializeAll(m)) IN
          \/ g.how = "next" /\ Clean(g.d) /\ g.out = m
          \/ g.how = "throw" /\ \E i \in DOMAIN m : Oversize(m[i])
      BY <1>2, <1>4, <1>6, <1>8, FeedWhole
    <2> QED BY <1>5, <2>1
  <1> HIDE DEF f, m
  <1>10. CASE f.how = "next" /\ Clean(f.d) /\ f.out = m
    <2>1. params' = MapOf(Upto(pairs, k))
      <3> DEFINE u == Upto(pairs, j)
      <3>1. u \in Seq(Pair)
        BY <1>2, <1>4, UptoFrom
      <3> HIDE DEF u
      <3>2. MapOf(u \o m) = FoldList(m, MapOf(u), Mapper)
        BY <1>6, <3>1, MapConcat
      <3> QED BY <1>1, <1>2, <1>6, <1>10, <3>2 DEF u
    <2>2. left' = SerializeAll(From(pairs, k)) /\ phase' = "params"
      BY <1>1, <1>5, <1>10
    <2> QED BY <1>1, <1>5, <1>10, <2>1, <2>2
  <1>11. CASE f.how = "throw" /\ \E i \in DOMAIN m : Oversize(m[i])
    <2>1. phase' = "ready"
      BY <1>1, <1>11
    <2>2. \E i \in DOMAIN pairs : Oversize(pairs[i])
      BY <1>7, <1>11
    <2> QED BY <1>1, <2>1, <2>2
  <1> QED BY <1>9, <1>10, <1>11

\* The inductive step of the map.
LEMMA ParamsStep ==
  ASSUME LimitInv, ParamsInv, [Next]_vars PROVE ParamsInv'
<1>1. ASSUME NEW r \in Role, NEW list \in ParamLists, BeginRequest(r, list)
      PROVE  ParamsInv'
  <2>1. list \in Seq(Pair)
    BY InputAssumption
  <2>2. Upto(list, 0) = <<>> /\ From(list, 0) = list /\ 0 \in 0..Len(list)
    BY <2>1, UptoEnds
  <2>3. /\ phase' = "params" /\ params' = {} /\ deserializer' = Fresh
        /\ pairs' = list /\ left' = SerializeAll(list)
    BY <1>1 DEF BeginRequest
  <2>4. /\ left' = SerializeAll(From(pairs', 0))
        /\ params' = MapOf(Upto(pairs', 0))
        /\ Clean(deserializer')
    BY <2>2, <2>3, MapEmpty DEF Clean, Fresh
  <2> QED BY <2>2, <2>3, <2>4 DEF ParamsInv
<1>2. ASSUME NEW n \in 1..Len(left), FeedParams(n), process = "running"
      PROVE  ParamsInv'
  <2>1. begins' = begins
    BY <1>2 DEF FeedParams
  <2> QED BY <1>2, <2>1, ParamsRecord DEF ParamsInv
<1>3. CASE EndParams
  BY <1>3 DEF EndParams, ParamsInv
<1>4. ASSUME NEW s \in Stream, FeedInput(s) PROVE ParamsInv'
  BY <1>4 DEF FeedInput, ParamsInv
<1>5. ASSUME NEW s \in Stream, AppReads(s) PROVE ParamsInv'
  BY <1>5 DEF AppReads, ParamsInv
<1>6. CASE EndRequest
  BY <1>6 DEF EndRequest, ParamsInv
<1>7. CASE EndConnection
  BY <1>7 DEF EndConnection, DropRequest, ParamsInv
<1>8. CASE UNCHANGED inputVars /\ process = "running"
  BY <1>8 DEF inputVars, ParamsInv
<1>9. CASE UNCHANGED vars
  BY <1>9 DEF vars, inputVars, ParamsInv
<1> QED
  BY <1>1, <1>2, <1>3, <1>4, <1>5, <1>6, <1>7, <1>8, <1>9
  DEF Next, RequestRecord, ManagementRecord, InputNext

\* What the invariant says of the list sent so far.
LEMMA ParamsImplied == LimitInv /\ ParamsInv => ParamsExact
<1> SUFFICES ASSUME LimitInv, ParamsInv, process = "running", whole, begins > 0,
                    phase # "ready"
             PROVE  \E j \in WholePairs(pairs, Len(SerializeAll(pairs)) - Len(left)) :
                      params = MapOf(Upto(pairs, j))
  BY DEF ParamsInv, ParamsExact
<1>1. PICK j \in 0..Len(pairs) : /\ left = SerializeAll(From(pairs, j))
                                 /\ params = MapOf(Upto(pairs, j))
  BY DEF ParamsInv
<1>2. pairs \in Seq(Pair)
  BY ListsType DEF LimitInv, TypeOK
<1>3. j \in WholePairs(pairs, Len(SerializeAll(pairs)) - Len(left))
  BY <1>1, <1>2, WhereCut
<1> QED BY <1>1, <1>3

\* For any lists of pairs, cut into records anywhere between pairs, the map
\* is at every moment that of the pairs the connection thread has read of
\* this request, each pair applied once, in order and over nothing that an
\* earlier request on the object left; and the request is cancelled only for
\* a pair that is over the limit (request.cpp:60-92).
THEOREM ParamsExactCorrect == Spec => []ParamsExact
<1>1. Init => LimitInv /\ ParamsInv
  BY LimitInit DEF Init, InputInit, ParamsInv
<1>2. LimitInv /\ ParamsInv /\ [Next]_vars => (LimitInv /\ ParamsInv)'
  BY LimitStep, ParamsStep
<1> QED BY <1>1, <1>2, ParamsImplied, PTL DEF Spec

-----------------------------------------------------------------------------
(* The answers are those to the questions read so far.                     *)

FitPair == {p \in Pair : Fits(p)}

\* Four bytes hold the sizes of every answer.
LEMMA AnswersFit ==
  ASSUME NEW list \in Seq(Pair)
  PROVE  /\ AnswersTo(list) \in Seq(Pair)
         /\ \A i \in DOMAIN AnswersTo(list) : Fits(AnswersTo(list)[i])
  <1>1. StepsFor(Answerer, Pair, Seq(FitPair))
    <2>1. ASSUME NEW p \in Pair, NEW done \in Seq(FitPair)
          PROVE  Answerer[p][done] \in Seq(FitPair)
      <3>1. FitPair \subseteq Pair
        BY DEF FitPair
      <3>2. done \in Seq(Pair)
        BY <3>1, SeqMonotonic
      <3> DEFINE a == [name |-> p.name, value |-> Answer[p.name]]
      <3>3. Answerer[p][done] = IF Known(p) THEN Append(done, a) ELSE done
        BY <3>2 DEF Answerer
      <3>4. Known(p) => a \in FitPair
        BY GetValuesAssumption DEF Known, FitPair, Pair, Fits
      <3> HIDE DEF a
      <3> QED BY <3>3, <3>4
    <2> QED BY <2>1 DEF StepsFor
  <1>2. <<>> \in Seq(FitPair)
    OBVIOUS
  <1>3. AnswersTo(list) \in Seq(FitPair)
    BY <1>1, <1>2, FoldType DEF AnswersTo
  <1>4. \A i \in DOMAIN AnswersTo(list) : AnswersTo(list)[i] \in FitPair
    BY <1>3
  <1> QED BY <1>4, AnswersType DEF FitPair

\* No question, no answer.
LEMMA AnswersNone == AnswersTo(<<>>) = <<>>
  <1>1. <<>> \in Seq(Pair)
    OBVIOUS
  <1> QED BY <1>1, AnswererSteps, FoldEmpty DEF AnswersTo

\* One question more.
LEMMA AnswersMore ==
  ASSUME NEW w \in Seq(Pair), NEW p \in Pair
  PROVE  AnswersTo(w \o <<p>>) = Answerer[p][AnswersTo(w)]
  <1> DEFINE e == <<>>
  <1>1. e \in Seq(Pair)
    OBVIOUS
  <1> HIDE DEF e
  <1>2. FoldList(w \o <<p>>, e, Answerer) = Answerer[p][FoldList(w, e, Answerer)]
    BY <1>1, AnswererSteps, FoldAppend
  <1> QED BY <1>2 DEF AnswersTo, e

AppendsAfter(x, y, a) == Append(x \o y, a) = x \o Append(y, a)
LEMMA AppendAfter ==
  ASSUME NEW T, NEW x \in Seq(T), NEW y \in Seq(T), NEW a \in T
  PROVE  AppendsAfter(x, y, a)
  <1>1. Append(y, a) = y \o <<a>> /\ <<a>> \in Seq(T)
    OBVIOUS
  <1>2. x \o y \in Seq(T)
    OBVIOUS
  <1>3. Append(x \o y, a) = (x \o y) \o <<a>>
    <2> DEFINE z == x \o y
    <2>1. z \in Seq(T)
      BY <1>2
    <2> HIDE DEF z
    <2>2. Append(z, a) = z \o <<a>>
      BY <2>1
    <2> QED BY <2>2 DEF z
  <1>4. (x \o y) \o <<a>> = x \o (y \o <<a>>)
    <2> DEFINE z == <<a>>
    <2>1. z \in Seq(T)
      OBVIOUS
    <2> HIDE DEF z
    <2>2. (x \o y) \o z = x \o (y \o z)
      BY <2>1, ConcatAssociative
    <2> QED BY <2>2 DEF z
  <1> QED BY <1>1, <1>3, <1>4 DEF AppendsAfter

\* The answers to two lists are those to the one and those to the other.
LEMMA AnswersConcat ==
  ASSUME NEW v \in Seq(Pair), NEW w \in Seq(Pair)
  PROVE  AnswersTo(v \o w) = AnswersTo(v) \o AnswersTo(w)
  <1> DEFINE x == AnswersTo(v)
             P == {u \in Seq(Pair) : AnswersTo(v \o u) = x \o AnswersTo(u)}
  <1>1. x \in Seq(Pair)
    BY AnswersType
  <1> HIDE DEF x
  <1>2. <<>> \in P
    <2>1. v \o <<>> = v /\ x \o <<>> = x /\ <<>> \in Seq(Pair)
      BY <1>1
    <2> QED BY <2>1, AnswersNone DEF x
  <1>3. ASSUME NEW u \in Seq(Pair), NEW p \in Pair, u \in P
        PROVE  u \o <<p>> \in P
    <2> DEFINE y == AnswersTo(u)
               a == [name |-> p.name, value |-> Answer[p.name]]
    <2>1. /\ v \o (u \o <<p>>) = (v \o u) \o <<p>>
          /\ v \o u \in Seq(Pair) /\ u \o <<p>> \in Seq(Pair)
      OBVIOUS
    <2>2. AnswersTo((v \o u) \o <<p>>) = Answerer[p][x \o y]
      <3>1. AnswersTo(v \o u) = x \o y
        BY <1>3
      <3> QED BY <2>1, <3>1, AnswersMore
    <2>3. AnswersTo(u \o <<p>>) = Answerer[p][y] /\ y \in Seq(Pair)
      BY AnswersMore, AnswersType
    <2>4. Known(p) => a \in Pair
      BY GetValuesAssumption DEF Known, Pair
    <2>5. \A list \in Seq(Pair) :
            Answerer[p][list] = IF Known(p) THEN Append(list, a) ELSE list
      BY DEF Answerer
    <2> HIDE DEF y, a
    <2>6. Answerer[p][x \o y] = x \o Answerer[p][y]
      <3>1. x \o y \in Seq(Pair)
        BY <1>1, <2>3
      <3>2. /\ Answerer[p][x \o y]
                 = IF Known(p) THEN Append(x \o y, a) ELSE x \o y
            /\ Answerer[p][y] = IF Known(p) THEN Append(y, a) ELSE y
        BY <2>3, <2>5, <3>1
      <3>3. Known(p) => Append(x \o y, a) = x \o Append(y, a)
        <4>1. ASSUME Known(p) PROVE Append(x \o y, a) = x \o Append(y, a)
          <5>1. a \in Pair
            BY <2>4, <4>1
          <5>2. x \in Seq(Pair) /\ y \in Seq(Pair)
            BY <1>1, <2>3
          <5>3. AppendsAfter(x, y, a)
            BY <5>1, <5>2, AppendAfter
          <5> QED BY <5>3 DEF AppendsAfter
        <4> QED BY <4>1
      <3> QED BY <3>2, <3>3
    <2> QED BY <2>1, <2>2, <2>3, <2>6
  <1> HIDE DEF P
  <1>4. Grows(P, Pair)
    BY <1>3 DEF Grows
  <1>5. Seq(Pair) \subseteq P
    BY <1>2, <1>4, ListInduction
  <1> QED BY <1>5 DEF P, x

\* What was written for the pairs up to j, and for those between.
LEMMA WrittenMore ==
  ASSUME NEW v \in Seq(Pair), NEW m \in Seq(Pair)
  PROVE  SerializeAll(AnswersTo(v)) \o SerializeAll(AnswersTo(m))
           = SerializeAll(AnswersTo(v \o m))
  <1> DEFINE x == AnswersTo(v)
             y == AnswersTo(m)
  <1>1. x \in Seq(Pair) /\ y \in Seq(Pair) /\ AnswersTo(v \o m) = x \o y
    BY AnswersType, AnswersConcat
  <1> HIDE DEF x, y
  <1>2. SerializeAll(x \o y) = SerializeAll(x) \o SerializeAll(y)
    BY <1>1, SerializeConcat
  <1> QED BY <1>1, <1>2 DEF x, y

\* The types of the histories and of the stream.
LEMMA QueriesType ==
  ASSUME ValuesTypeOK
  PROVE  /\ first \in Seq(Pair) /\ asked \in Seq(Pair) /\ queries \in Nat
         /\ ahead \in Seq(Byte) /\ result \in ResultStream
         /\ asking \in BOOLEAN /\ closed \in BOOLEAN
  <1>1. <<>> \in Seq(Pair)
    OBVIOUS
  <1>2. Queries \cup {<<>>} \subseteq Seq(Pair)
    BY <1>1, GetValuesAssumption
  <1>3. first \in Queries \cup {<<>>} /\ asked \in Queries \cup {<<>>}
    BY DEF ValuesTypeOK
  <1>4. queries \in Nat
    BY GetValuesAssumption DEF ValuesTypeOK
  <1> QED BY <1>2, <1>3, <1>4 DEF ValuesTypeOK, ResultStream

\* The parts of AnswersInv: where the stream is, and what it took.
StreamInv ==
    /\ result.attached <=> ~closed /\ (queries = 0 \/ (queries = 1 /\ asking))
    /\ queries = 0 => ~asking /\ first = <<>>
    /\ queries = 1 /\ asking => asked = first
    /\ ~asking => ahead = <<>>
    /\ result.eof = IF ~result.attached /\ result.written # <<>> THEN 1 ELSE 0
AnsweredUpto(j) ==
    /\ result.written = SerializeAll(AnswersTo(Upto(first, j)))
    /\ IF queries > 1 THEN j = Len(first)
       ELSE ahead = SerializeAll(From(first, j)) /\ Clean(handler)

\* They are the invariant, in a state and in the next.
LEMMA AnswersParts ==
  AnswersInv <=> /\ StreamInv
                 /\ process = "running" /\ tidy =>
                      \E j \in 0..Len(first) : AnsweredUpto(j)
  BY DEF AnswersInv, StreamInv, AnsweredUpto

LEMMA AnswersPartsNext ==
  AnswersInv' <=> /\ StreamInv'
                  /\ process' = "running" /\ tidy' =>
                       \E j \in 0..Len(first') : AnsweredUpto(j)'
  BY DEF AnswersInv, StreamInv, AnsweredUpto

\* The peer begins a stream: a first one, or one that nobody answers.
LEMMA AskStep ==
  ASSUME LimitInv, AnswersInv, process = "running", NEW list \in Queries, Ask(list)
  PROVE  AnswersInv'
<1>1. /\ ~closed /\ ~asking /\ asking' = TRUE /\ asked' = list
      /\ ahead' = SerializeAll(list)
      /\ first' = IF queries = 0 THEN list ELSE first
      /\ queries' = queries + 1
      /\ UNCHANGED <<process, handler, result, closed, tidy>>
  BY DEF Ask
<1>2. /\ first \in Seq(Pair) /\ queries \in Nat /\ ahead \in Seq(Byte)
      /\ result \in ResultStream /\ list \in Seq(Pair)
  BY QueriesType, GetValuesAssumption DEF LimitInv, TypeOK
<1>3. StreamInv
  BY AnswersParts
<1>4. StreamInv'
  BY <1>1, <1>2, <1>3 DEF StreamInv
<1>5. ASSUME tidy PROVE \E j \in 0..Len(first') : AnsweredUpto(j)'
  <2>1. PICK j \in 0..Len(first) : AnsweredUpto(j)
    BY <1>5, AnswersParts
  <2>2. CASE queries = 0
    <3>1. first = <<>> /\ j = 0
      BY <1>3, <2>1, <2>2 DEF StreamInv
    <3>2. Upto(first, j) = <<>> /\ Upto(list, 0) = <<>> /\ From(list, 0) = list
      BY <1>2, <3>1, UptoEnds
    <3>3. result.written = SerializeAll(AnswersTo(<<>>)) /\ Clean(handler)
      BY <2>1, <2>2, <3>2 DEF AnsweredUpto
    <3>4. first' = list /\ queries' = 1
      BY <1>1, <2>2
    <3>5. AnsweredUpto(0)'
      BY <1>1, <3>2, <3>3, <3>4 DEF AnsweredUpto
    <3>6. 0 \in 0..Len(first')
      BY <1>2, <3>4
    <3> QED BY <3>5, <3>6
  <2>3. CASE queries # 0
    <3>1. j = Len(first)
      <4>1. CASE queries > 1
        BY <2>1, <4>1 DEF AnsweredUpto
      <4>2. CASE queries <= 1
        <5>1. ahead = <<>> /\ ahead = SerializeAll(From(first, j))
          BY <1>1, <1>2, <1>3, <2>1, <4>2 DEF StreamInv, AnsweredUpto
        <5>2. From(first, j) \in Seq(Pair) /\ Len(From(first, j)) = Len(first) - j
          BY <1>2, UptoFrom
        <5>3. Len(From(first, j)) <= Len(SerializeAll(From(first, j)))
          BY <5>2, SerializeLong
        <5>4. Len(ahead) = 0 /\ Len(first) \in Nat
          BY <1>2, <5>1
        <5> QED BY <5>1, <5>2, <5>3, <5>4
      <4> QED BY <1>2, <4>1, <4>2
    <3>2. first' = first /\ queries' > 1
      BY <1>1, <1>2, <2>3
    <3>3. AnsweredUpto(j)'
      BY <1>1, <2>1, <3>1, <3>2 DEF AnsweredUpto
    <3> QED BY <3>2, <3>3
  <2> QED BY <2>2, <2>3
<1> QED BY <1>1, <1>4, <1>5, AnswersPartsNext

\* The record that FeedValues feeds.
LEMMA FeedValuesStep ==
  ASSUME LimitInv, AnswersInv, process = "running",
         NEW n \in 1..Len(ahead), FeedValues(n)
  PROVE  AnswersInv'
<1> DEFINE f == Feed(handler, SubSeq(ahead, 1, n))
           took == SerializeAll(AnswersTo(f.out))
<1>1. /\ ~closed /\ asking
      /\ ahead' = SubSeq(ahead, n + 1, Len(ahead))
      /\ tidy' => /\ tidy
                  /\ \A k \in DOMAIN asked : ShortPair(asked[k])
                  /\ WholePairs(asked,
                       Len(SerializeAll(asked)) - Len(ahead) + n) # {}
      /\ process' = CASE f.how = "undefined" -> "undefined"
                      [] f.how = "throw" -> "terminated"
                      [] OTHER -> process
      /\ handler' = f.d
      /\ result' = Write(result, took)
      /\ UNCHANGED <<closed, asking, asked, first, queries>>
  BY DEF FeedValues
<1>2. /\ first \in Seq(Pair) /\ asked \in Seq(Pair) /\ queries \in Nat
      /\ ahead \in Seq(Byte) /\ result \in ResultStream
      /\ Len(first) \in Nat /\ handler \in Moderate
  BY QueriesType DEF LimitInv, TypeOK
<1>3. StreamInv
  BY AnswersParts
<1> HIDE DEF f, took
<1>4. CASE ~result.attached
  <2>1. result' = result /\ queries > 1
    BY <1>1, <1>2, <1>3, <1>4 DEF Write, StreamInv
  <2>2. StreamInv'
    BY <1>1, <1>3, <2>1 DEF StreamInv
  <2>3. ASSUME tidy' PROVE \E j \in 0..Len(first') : AnsweredUpto(j)'
    <3>1. PICK j \in 0..Len(first) : AnsweredUpto(j)
      BY <1>1, <2>3, AnswersParts
    <3> QED BY <1>1, <2>1, <3>1 DEF AnsweredUpto
  <2> QED BY <2>2, <2>3, AnswersPartsNext
<1>5. CASE result.attached
  <2>1. /\ queries = 1 /\ asked = first
        /\ result' = [result EXCEPT !.written = result.written \o took]
    BY <1>1, <1>2, <1>3, <1>5 DEF Write, StreamInv
  <2>2. /\ result'.attached = result.attached /\ result'.eof = result.eof
        /\ result'.written = result.written \o took
    BY <1>2, <2>1 DEF ResultStream
  <2>3. StreamInv'
    BY <1>1, <1>3, <1>5, <2>1, <2>2 DEF StreamInv
  <2>4. ASSUME tidy', process' = "running"
        PROVE  \E j \in 0..Len(first') : AnsweredUpto(j)'
    <3>1. PICK j \in 0..Len(first) : AnsweredUpto(j)
      BY <1>1, <2>4, AnswersParts
    <3>2. PICK k : EndsAt(first, ahead, n, k)
      BY <1>1, <2>1, <2>4 DEF EndsAt
    <3>3. /\ AtPair(first, ahead, j) /\ Clean(handler)
          /\ result.written = SerializeAll(AnswersTo(Upto(first, j)))
      BY <2>1, <3>1 DEF AtPair, AnsweredUpto
    <3> DEFINE m == Between(first, j, k)
               u == Upto(first, j)
    <3>4. /\ k \in 0..Len(first) /\ j \in 0..k /\ j < k
          /\ SubSeq(ahead, 1, n) = SerializeAll(m)
          /\ SubSeq(ahead, n + 1, Len(ahead)) = SerializeAll(From(first, k))
      BY <1>2, <3>2, <3>3, WholeRecord
    <3>5. /\ m \in Seq(Pair) /\ Len(m) = k - j
          /\ \A i \in 1..(k - j) : m[i] = first[j + i]
          /\ Upto(first, k) = u \o m
      BY <1>2, <3>4, CutInThree
    <3>6. u \in Seq(Pair)
      BY <1>2, UptoFrom
    <3> HIDE DEF m, u
    <3>7. \A i \in DOMAIN m : m[i] = first[j + i] /\ j + i \in DOMAIN first
      BY <1>2, <3>4, <3>5
    <3>8. Short(m) /\ m # <<>>
      <4>1. Short(m)
        BY <1>1, <2>1, <2>4, <3>7 DEF Short
      <4>2. Len(m) > 0
        BY <1>2, <3>4, <3>5
      <4> QED BY <4>1, <4>2
    <3>9. \/ f.how = "next" /\ Clean(f.d) /\ f.out = m
          \/ f.how = "throw"
      <4>1. LET g == Feed(handler, SerializeAll(m)) IN
            \/ g.how = "next" /\ Clean(g.d) /\ g.out = m
            \/ g.how = "throw" /\ \E i \in DOMAIN m : Oversize(m[i])
        BY <1>2, <3>3, <3>5, <3>8, FeedWhole
      <4> QED BY <3>4, <4>1 DEF f
    <3>10. Clean(f.d) /\ f.out = m
      BY <1>1, <2>4, <3>9
    <3>11. result'.written = SerializeAll(AnswersTo(Upto(first, k)))
      <4>1. SerializeAll(AnswersTo(u)) \o SerializeAll(AnswersTo(m))
              = SerializeAll(AnswersTo(u \o m))
        BY <3>5, <3>6, WrittenMore
      <4>2. result'.written
              = SerializeAll(AnswersTo(u)) \o SerializeAll(AnswersTo(m))
        BY <2>2, <3>3, <3>10 DEF took, u
      <4> QED BY <3>5, <4>1, <4>2
    <3>12. AnsweredUpto(k)'
      BY <1>1, <2>1, <3>4, <3>10, <3>11 DEF AnsweredUpto
    <3> QED BY <1>1, <3>4, <3>12
  <2> QED BY <2>3, <2>4, AnswersPartsNext
<1> QED BY <1>4, <1>5

\* The stream ends, or the connection does.
LEMMA CloseStep ==
  ASSUME LimitInv, AnswersInv, process = "running", EndValues \/ DestroyConnection
  PROVE  AnswersInv'
<1>1. /\ first \in Seq(Pair) /\ queries \in Nat /\ result \in ResultStream
      /\ asking \in BOOLEAN /\ closed \in BOOLEAN
  BY QueriesType DEF LimitInv, TypeOK
<1>2. StreamInv
  BY AnswersParts
<1>3. /\ result'.attached = FALSE /\ result'.written = result.written
      /\ result'.eof = IF result.attached /\ result.written # <<>>
                       THEN result.eof + 1 ELSE result.eof
  <2>1. result' = CloseStream(result)
    BY DEF EndValues, DestroyConnection
  <2> QED BY <1>1, <2>1 DEF CloseStream, ResultStream
<1>4. UNCHANGED <<process, handler, ahead, first, tidy, queries>>
  BY DEF EndValues, DestroyConnection
<1>5. result'.eof = IF result.written # <<>> THEN 1 ELSE 0
  <2>1. result.eof = IF ~result.attached /\ result.written # <<>> THEN 1 ELSE 0
    BY <1>2 DEF StreamInv
  <2>2. result.attached \in BOOLEAN
    BY <1>1 DEF ResultStream
  <2> QED BY <1>3, <2>1, <2>2
<1>6. StreamInv'
  <2>1. CASE EndValues
    <3>1. asking /\ ahead = <<>> /\ asking' = FALSE /\ closed' = closed
          /\ queries # 0
      BY <1>2, <2>1 DEF EndValues, StreamInv
    <3> QED BY <1>3, <1>4, <1>5, <3>1 DEF StreamInv
  <2>2. CASE DestroyConnection
    <3>1. closed' = TRUE /\ UNCHANGED <<asking, asked>>
      BY <2>2 DEF DestroyConnection
    <3> QED BY <1>2, <1>3, <1>4, <1>5, <3>1 DEF StreamInv
  <2> QED BY <2>1, <2>2
<1>7. ASSUME tidy PROVE \E j \in 0..Len(first') : AnsweredUpto(j)'
  <2>1. PICK j \in 0..Len(first) : AnsweredUpto(j)
    BY <1>7, AnswersParts
  <2> QED BY <1>3, <1>4, <2>1 DEF AnsweredUpto
<1> QED BY <1>4, <1>6, <1>7, AnswersPartsNext

\* The inductive step of the answers.
LEMMA AnswersStep ==
  ASSUME LimitInv, AnswersInv, [Next]_vars PROVE AnswersInv'
<1>1. CASE UNCHANGED valueVars /\ process = "running"
  BY <1>1 DEF valueVars, AnswersInv
<1>2. CASE UNCHANGED vars
  BY <1>2 DEF vars, valueVars, AnswersInv
<1> QED BY <1>1, <1>2, AskStep, FeedValuesStep, CloseStep
  DEF Next, RequestRecord, ManagementRecord, EndConnection, ValuesNext

\* They hold at the start.
LEMMA AnswersInit == Init => AnswersInv
<1> SUFFICES ASSUME Init PROVE AnswersInv
  OBVIOUS
<1>1. /\ result.attached = TRUE /\ result.written = <<>> /\ result.eof = 0
      /\ ~closed /\ ~asking /\ ahead = <<>> /\ first = <<>> /\ queries = 0
      /\ Clean(handler)
  BY DEF Init, ValuesInit, Clean, Fresh
<1>2. StreamInv
  BY <1>1 DEF StreamInv
<1>3. AnsweredUpto(0)
  <2>1. <<>> \in Seq(Pair)
    OBVIOUS
  <2>2. Upto(<<>>, 0) = <<>> /\ From(<<>>, 0) = <<>>
    BY <2>1, UptoEnds
  <2> QED BY <1>1, <2>2, SerializeNone, AnswersNone DEF AnsweredUpto
<1>4. 0 \in 0..Len(first)
  BY <1>1
<1> QED BY <1>2, <1>3, <1>4, AnswersParts

\* What the invariant says of the stream a peer reads.
LEMMA AnswersImplied == LimitInv /\ AnswersInv => AnswersExact
<1> SUFFICES ASSUME LimitInv, AnswersInv, process = "running", tidy
             PROVE  LET k == IF queries <= 1
                             THEN WholePairs(first, Len(SerializeAll(first)) - Len(ahead))
                             ELSE {Len(first)}
                    IN /\ \E j \in k :
                            Decode(result.written) = AnswersTo(Upto(first, j))
                       /\ result.eof = IF ~result.attached /\ result.written # <<>>
                                       THEN 1 ELSE 0
                       /\ queries > 1 => ~result.attached
  BY DEF AnswersExact
<1>1. first \in Seq(Pair) /\ queries \in Nat
  BY QueriesType DEF LimitInv, TypeOK
<1>2. StreamInv /\ \E j \in 0..Len(first) : AnsweredUpto(j)
  BY AnswersParts
<1>3. PICK j \in 0..Len(first) : AnsweredUpto(j)
  BY <1>2
<1>4. Decode(result.written) = AnswersTo(Upto(first, j))
  <2>1. Upto(first, j) \in Seq(Pair)
    BY <1>1, UptoFrom
  <2> DEFINE a == AnswersTo(Upto(first, j))
  <2>2. a \in Seq(Pair) /\ \A i \in DOMAIN a : Fits(a[i])
    BY <2>1, AnswersFit
  <2> HIDE DEF a
  <2>3. Decode(SerializeAll(a)) = a
    BY <2>2, DecodeSerialized
  <2> QED BY <1>3, <2>3 DEF AnsweredUpto, a
<1>5. /\ result.eof = IF ~result.attached /\ result.written # <<>> THEN 1 ELSE 0
      /\ queries > 1 => ~result.attached
  BY <1>1, <1>2 DEF StreamInv
<1>6. CASE queries <= 1
  <2>1. ~(queries > 1)
    BY <1>1, <1>6
  <2>2. j \in WholePairs(first, Len(SerializeAll(first)) - Len(ahead))
    BY <1>1, <1>3, <2>1, WhereCut DEF AnsweredUpto
  <2> QED BY <1>4, <1>5, <1>6, <2>2
<1>7. CASE queries > 1
  <2>1. j = Len(first) /\ ~(queries <= 1)
    BY <1>1, <1>3, <1>7 DEF AnsweredUpto
  <2> QED BY <1>4, <1>5, <2>1
<1> QED BY <1>1, <1>6, <1>7

\* The inductive invariant of the two handlers.
THEOREM HandlersInductive == Spec => []HandlersIInv
<1>1. Init => HandlersIInv
  <2>1. Init => ParamsInv
    BY DEF Init, InputInit, ParamsInv
  <2> QED BY <2>1, LimitInit, AnswersInit DEF HandlersIInv
<1>2. HandlersIInv /\ [Next]_vars => HandlersIInv'
  BY LimitStep, ParamsStep, AnswersStep DEF HandlersIInv
<1> QED BY <1>1, <1>2, PTL DEF Spec

\* Whatever the questions and the values, a peer that reads the result
\* stream finds the answers to the questions of its first stream, in order
\* and each once, and one end; the stream takes nothing after it
\* (connection.cpp:141, 161-181).
THEOREM AnswersExactCorrect == Spec => []AnswersExact
<1>1. HandlersIInv => AnswersExact
  BY AnswersImplied DEF HandlersIInv
<1> QED BY <1>1, HandlersInductive, PTL
=============================================================================
