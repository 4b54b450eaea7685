------------------------------ MODULE GetValues ------------------------------
(***************************************************************************)
(* The GET_VALUES records of a connection: its GetValueHandler, one        *)
(* deserializer for the life of the connection, writes the answers to      *)
(* get_value_result_stream and closes it when the peer's stream ends.  No  *)
(* code resets either.                                                     *)
(*                                                                         *)
(* written is what the ostream took: Streams.tla has the packets it makes  *)
(* of them.  Its send_eof is raised by the first packet that has data.     *)
(***************************************************************************)
EXTENDS NVP

CONSTANTS Answer,        \* function from the known names to their values
          Queries,       \* what a peer may send: sequences of pairs
          MaxQueries     \* bound: GET_VALUES streams of the connection

ASSUME GetValuesAssumption ==
    /\ DOMAIN Answer \subseteq Seq(Byte)
    /\ \A name \in DOMAIN Answer :
         /\ Answer[name] \in Seq(Byte)
         /\ Representable(Len(name)) /\ Representable(Len(Answer[name]))
    /\ Queries \subseteq Seq(Pair)
    /\ MaxQueries \in Nat

VARIABLES
    handler,      \* the deserializer of get_value_handler
    result,       \* get_value_result_stream: rdbuf() is set, what it took,
                  \* the EOF packets it sent
    closed,       \* ~Connection has run
    asking,       \* history: the peer is sending a stream
    asked, ahead, \* history: that list, the bytes still to come
    first,        \* history: the list of the connection's first stream
    tidy,         \* history: every record so far held whole, short pairs
    queries

valueVars == <<handler, result, closed, asking, asked, ahead, first, tidy,
               queries>>

ValuesTypeOK ==
    /\ handler \in Deserializer
    /\ result \in [attached : BOOLEAN, written : Seq(Byte), eof : Nat]
    /\ closed \in BOOLEAN /\ asking \in BOOLEAN
    /\ {asked, first} \subseteq Queries \cup {<<>>}
    /\ ahead \in Seq(Byte)
    /\ tidy \in BOOLEAN
    /\ queries \in 0..MaxQueries

ValuesInit ==
    /\ handler = Fresh
    /\ result = [attached |-> TRUE, written |-> <<>>, eof |-> 0]
    /\ closed = FALSE /\ asking = FALSE
    /\ asked = <<>> /\ ahead = <<>> /\ first = <<>>
    /\ tidy = TRUE
    /\ queries = 0

\* The answers to a list of pairs, in the order of the questions.
Known(p) == p.name \in DOMAIN Answer
Answerer ==
    [p \in Pair |-> [list \in Seq(Pair) |->
       IF Known(p)
       THEN Append(list, [name |-> p.name, value |-> Answer[p.name]])
       ELSE list]]
AnswersTo(list) == FoldList(list, <<>>, Answerer)

\* A null rdbuf makes every output operation fail.
Write(stream, bytes) ==
    IF stream.attached THEN [stream EXCEPT !.written = @ \o bytes] ELSE stream

\* Mutant: the closed stream can be written to again.
CloseReusable(stream) ==
    [stream EXCEPT !.eof = IF stream.attached /\ stream.written # <<>>
                           THEN @ + 1 ELSE @]

\* Mutant: an EOF for a stream that answered nothing.
CloseAlways(stream) ==
    [stream EXCEPT !.attached = FALSE,
                   !.eof = IF stream.attached THEN @ + 1 ELSE @]

\* ostream::close.
CloseStream(stream) ==
    [stream EXCEPT !.attached = FALSE,
                   !.eof = IF stream.attached /\ stream.written # <<>>
                           THEN @ + 1 ELSE @]

\* The peer begins a GET_VALUES stream.
Ask(list) ==
    /\ ~closed /\ ~asking /\ queries < MaxQueries
    /\ asking' = TRUE
    /\ asked' = list /\ ahead' = SerializeAll(list)
    /\ first' = IF queries = 0 THEN list ELSE first
    /\ queries' = queries + 1
    /\ UNCHANGED <<process, handler, result, closed, tidy>>

\* handle_packet for the next n bytes.  Nothing catches pair_size_error:
\* it leaves thread_func, and the process terminates.
FeedValues(n) ==
    LET f == Feed(handler, SubSeq(ahead, 1, n)) IN
    /\ ~closed /\ asking /\ n \in 1..Len(ahead)
    /\ ahead' = SubSeq(ahead, n + 1, Len(ahead))
    /\ tidy' = /\ tidy
               /\ \A k \in DOMAIN asked : ShortPair(asked[k])
               /\ WholePairs(asked,
                    Len(SerializeAll(asked)) - Len(ahead) + n) # {}
    /\ process' = CASE f.how = "undefined" -> "undefined"
                    [] f.how = "throw" -> "terminated"
                    [] OTHER -> process
    /\ handler' = f.d
    /\ result' = Write(result, SerializeAll(AnswersTo(f.out)))
    /\ UNCHANGED <<closed, asking, asked, first, queries>>

EndValues ==
    LET f == Feed(handler, <<>>) IN
    /\ ~closed /\ asking /\ ahead = <<>>
    /\ f.how = "end"
    /\ asking' = FALSE
    /\ asked' = <<>>
    /\ result' = CloseStream(result)
    /\ UNCHANGED <<process, handler, closed, ahead, first, tidy, queries>>

\* ~Connection closes the stream, with what it still holds.
DestroyConnection ==
    /\ ~closed
    /\ closed' = TRUE
    /\ result' = CloseStream(result)
    /\ UNCHANGED <<process, handler, asking, asked, ahead, first, tidy,
                   queries>>

ValuesNext ==
    \/ \E list \in Queries : Ask(list)
    \/ \E n \in 1..Len(ahead) : FeedValues(n)
    \/ EndValues

-----------------------------------------------------------------------------
(* Properties.                                                             *)

\* What a peer reads on the result stream is the answers to the known names
\* of its first stream, each once and in order, as far as it has been read;
\* the stream takes nothing more once it is closed, and is ended once, if
\* anything was answered (connection.cpp:141, 161-181).
AnswersExact ==
    process = "running" /\ tidy =>
      LET k == IF queries <= 1
               THEN WholePairs(first, Len(SerializeAll(first)) - Len(ahead))
               ELSE {Len(first)}
      IN /\ \E j \in k :
              Decode(result.written) = AnswersTo(Upto(first, j))
         /\ result.eof = IF ~result.attached /\ result.written # <<>>
                         THEN 1 ELSE 0
         /\ queries > 1 => ~result.attached
=============================================================================
