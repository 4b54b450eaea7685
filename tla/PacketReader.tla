---------------------------- MODULE PacketReader ----------------------------
(***************************************************************************)
(* How a connection thread reads records: recv_all over partial reads, the *)
(* ipacket that tracks what is left of a record, the handlers that take    *)
(* all of a body, its beginning or none of it, and the destructor that     *)
(* skips the rest.  The subject is whether the reader stands at a header   *)
(* when it reads one, and what it makes of a read that fails.              *)
(*                                                                         *)
(* Bytes are counted.  unread is what the peer's current record still has  *)
(* on the wire; the other counters are the program's.                      *)
(***************************************************************************)
EXTENDS Naturals

CONSTANTS HeaderSize,  \* sizeof(Header)
          BodySize,    \* sizeof(BeginRequestBody)
          Content,     \* contentLengths the peer sends
          Padding      \* paddingLengths the peer sends

ASSUME PacketReaderAssumption ==
    /\ HeaderSize \in Nat \ {0} /\ BodySize \in Nat \ {0}
    /\ Content \subseteq Nat /\ Padding \subseteq Nat

VARIABLES
    phase,
    socket_insane,  \* TRUE while the socket can be read (sic)
    need,           \* what the current recv_all still has to read
    asked,          \* what it was asked for
    remaining,      \* priv_header.contentLength
    padding,        \* priv_header.paddingLength
    record,         \* the peer's record
    unread,         \* bytes of it still on the wire
    dead            \* the peer closed the socket, or it failed for good

vars == <<phase, socket_insane, need, asked, remaining, padding, record,
          unread, dead>>

Record == [content : Content, padding : Padding]
\* Inside recv_all: for a header, a handler, the destructor, the padding.
Receiving == {"header", "body", "skip", "padding"}
Phases ==
    Receiving \cup {"loop", "handler", "destructor", "left", "terminated"}

TypeOK ==
    /\ phase \in Phases
    /\ socket_insane \in BOOLEAN
    /\ need \in Nat /\ asked \in Nat /\ unread \in Nat
    /\ remaining \in Nat /\ padding \in Nat
    /\ record \in [content : Content \cup {0}, padding : Padding \cup {0}]
    /\ dead \in BOOLEAN

Init ==
    /\ phase = "loop"
    /\ socket_insane = TRUE
    /\ need = 0 /\ asked = 0 /\ remaining = 0 /\ padding = 0
    /\ record = [content |-> 0, padding |-> 0]
    /\ unread = 0
    /\ dead = FALSE

-----------------------------------------------------------------------------
(* Connection::recv_all.                                                   *)

Recv(size, where) ==
    /\ need' = size
    /\ asked' = size
    /\ phase' = where

\* read() returns n bytes.
Got(n) ==
    /\ phase \in Receiving /\ ~dead
    /\ n \in 1..need
    /\ need' = need - n
    /\ unread' = unread - n
    /\ UNCHANGED <<phase, socket_insane, asked, remaining, padding, record,
                   dead>>

\* EINTR or ENOBUFS: the flag is lowered, and the read tried again.
Interrupted ==
    /\ phase \in Receiving /\ ~dead
    /\ need > 0
    /\ socket_insane' = FALSE
    /\ UNCHANGED <<phase, need, asked, remaining, padding, record, unread,
                   dead>>

\* Mutant: the end of the stream is tried again too.
FailRetried ==
    /\ phase \in Receiving
    /\ need > 0
    /\ socket_insane' = FALSE
    /\ dead' = TRUE
    /\ UNCHANGED <<phase, need, asked, remaining, padding, record, unread>>

\* End of stream or any other error: recv_all returns, the bytes it did not
\* read keep whatever value they had.
Fail ==
    /\ phase \in Receiving
    /\ need > 0
    /\ socket_insane' = FALSE
    /\ dead' = TRUE
    /\ need' = 0
    /\ IF phase = "header"
       THEN /\ remaining' \in Content \cup {0}
            /\ padding' \in Padding \cup {0}
       ELSE UNCHANGED <<remaining, padding>>
    /\ UNCHANGED <<phase, asked, record, unread>>

-----------------------------------------------------------------------------
(* The loop of thread_func, and the ipacket.                               *)

\* The peer's next record, whatever it is.  A reader that stands inside a
\* record would read garbage from here on: the model goes no further.
ReadHeader(r) ==
    /\ phase = "loop" /\ socket_insane
    /\ unread = 0
    /\ record' = r
    /\ unread' = HeaderSize + r.content + r.padding
    /\ Recv(HeaderSize, "header")
    /\ UNCHANGED <<socket_insane, remaining, padding, dead>>

\* The header is there: it is handled if the flag is still up.
HeaderRead ==
    /\ phase = "header" /\ need = 0
    /\ phase' = IF socket_insane THEN "handler" ELSE "destructor"
    /\ IF dead
       THEN UNCHANGED <<remaining, padding>>
       ELSE remaining' = record.content /\ padding' = record.padding
    /\ UNCHANGED <<socket_insane, need, asked, record, unread, dead>>

\* ipacket::recv_all for a handler.
Take(size) ==
    IF size = 0
    THEN phase' = "destructor" /\ UNCHANGED <<need, asked>>
    ELSE Recv(size, "body")

\* sink_to_vector: PARAMS, STDIN, DATA, GET_VALUES.
TakeAll ==
    /\ phase = "handler"
    /\ Take(remaining)
    /\ UNCHANGED <<socket_insane, remaining, padding, record, unread, dead>>

\* Mutant: the size is not compared with what remains.
TakeBeginUnchecked ==
    /\ phase = "handler"
    /\ Take(BodySize)
    /\ UNCHANGED <<socket_insane, remaining, padding, record, unread, dead>>

\* BEGIN_REQUEST, with the body the protocol gives it.
TakeBegin ==
    /\ phase = "handler"
    /\ remaining >= BodySize
    /\ Take(BodySize)
    /\ UNCHANGED <<socket_insane, remaining, padding, record, unread, dead>>

\* The same with a shorter one: logic_error leaves thread_func.
ThrowBegin ==
    /\ phase = "handler"
    /\ remaining < BodySize
    /\ phase' = "terminated"
    /\ UNCHANGED <<socket_insane, need, asked, remaining, padding, record,
                   unread, dead>>

\* A packet that is ignored or unknown.
TakeNone ==
    /\ phase = "handler"
    /\ phase' = "destructor"
    /\ UNCHANGED <<socket_insane, need, asked, remaining, padding, record,
                   unread, dead>>

\* Mutant: padding is skipped after every read.
ConsumeEager ==
    /\ phase \in {"body", "skip"} /\ need = 0
    /\ remaining' = remaining - asked
    /\ IF padding > 0
       THEN Recv(padding, "padding")
       ELSE phase' = "destructor" /\ UNCHANGED <<need, asked>>
    /\ UNCHANGED <<socket_insane, padding, record, unread, dead>>

\* consume(size), even if fewer bytes came; then padding, if nothing is
\* left of the content.
Consume ==
    /\ phase \in {"body", "skip"} /\ need = 0
    /\ remaining' = remaining - asked
    /\ IF remaining = asked /\ padding > 0
       THEN Recv(padding, "padding")
       ELSE phase' = "destructor" /\ UNCHANGED <<need, asked>>
    /\ UNCHANGED <<socket_insane, padding, record, unread, dead>>

PaddingRead ==
    /\ phase = "padding" /\ need = 0
    /\ phase' = "destructor"
    /\ UNCHANGED <<socket_insane, need, asked, remaining, padding, record,
                   unread, dead>>

\* Mutant: the destructor does not read what is left.
DestroyOnly ==
    /\ phase = "destructor"
    /\ phase' = "loop"
    /\ UNCHANGED <<socket_insane, need, asked, remaining, padding, record,
                   unread, dead>>

\* ~ipacket skips what is left.
Destroy ==
    /\ phase = "destructor"
    /\ IF remaining = 0
       THEN phase' = "loop" /\ UNCHANGED <<need, asked>>
       ELSE Recv(remaining, "skip")
    /\ UNCHANGED <<socket_insane, remaining, padding, record, unread, dead>>

LeaveLoop ==
    /\ phase = "loop" /\ ~socket_insane
    /\ phase' = "left"
    /\ UNCHANGED <<socket_insane, need, asked, remaining, padding, record,
                   unread, dead>>

\* What the thread does by itself; a read that can only fail returns.
ReaderStep ==
    \/ dead /\ Fail
    \/ HeaderRead \/ TakeAll \/ TakeBegin \/ ThrowBegin \/ TakeNone
    \/ Consume \/ PaddingRead \/ Destroy \/ LeaveLoop

Next ==
    \/ \E r \in Record : ReadHeader(r)
    \/ \E n \in 1..need : Got(n)
    \/ Interrupted \/ Fail
    \/ ReaderStep

Spec == Init /\ [][Next]_vars

\* The thread runs; neither the peer nor the signals owe anything.
FairSpec == Spec /\ WF_vars(ReaderStep)

-----------------------------------------------------------------------------
(* Properties.                                                             *)

\* When the thread goes on to the next record it stands at its header,
\* whichever part of the last one its handler took ("Skip padding if any",
\* ipacket.cpp:47).
Aligned == phase = "loop" /\ socket_insane => unread = 0

\* The same, but for a record that has padding and no content.
EmptyPadded == record.content = 0 /\ record.padding > 0
AlignedUnlessEmpty == Aligned \/ EmptyPadded

\* The thread never waits for bytes that are not part of the record it
\* reads: the peer may be waiting for an answer to it (ipacket.cpp:24-64).
NeverOverreads == phase \in Receiving /\ ~dead => need <= unread

\* The flag is lowered when "a read error occur[s]" (connection.hpp:54-59),
\* not by an interrupted read, which is to "Try again" (connection.cpp:41).
FlagMeansError == ~socket_insane => dead

\* The thread of a connection whose peer is gone leaves its loop, wherever
\* the reader was (connection.cpp:28-50, 75-82).
HangupSeen == dead ~> phase = "left"
=============================================================================
