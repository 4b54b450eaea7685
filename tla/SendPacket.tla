----------------------------- MODULE SendPacket -----------------------------
(***************************************************************************)
(* Connection::send_packet: the worker threads and the connection thread   *)
(* of one connection write whole packets to its socket, under out_mutex,   *)
(* through as many partial send() calls as the kernel wants.               *)
(*                                                                         *)
(* A byte on the wire is a record of the packet it belongs to, its place   *)
(* in it, and the length the packet's header declares.  EINTR, ENOBUFS,    *)
(* ENETDOWN and ENETUNREACH are retried: no step.                          *)
(***************************************************************************)
EXTENDS Naturals, Sequences, SequencesExt

CONSTANTS Thread, NoThread,
          Content,      \* the contentLengths that are sent
          HeaderSize,   \* sizeof(Header), which the protocol fixes
          PointerSize,  \* sizeof(buffer), which send_packet adds instead
          MaxPackets    \* bound: packets sent

ASSUME SendPacketAssumption ==
    /\ NoThread \notin Thread
    /\ Content \subseteq Nat
    /\ HeaderSize \in Nat \ {0} /\ PointerSize \in Nat \ {0}
    /\ MaxPackets \in Nat

VARIABLES
    out_mutex,  \* the thread that holds it
    packet,     \* what each thread sends: serial number, sent, size, declared
    sending,    \* the threads inside the loop of send_packet
    sock,       \* "up", or "reset"
    out,        \* the bytes the socket took
    serial,     \* history: packets begun
    torn        \* history: a packet was left unfinished on a working socket

vars == <<out_mutex, packet, sending, sock, out, serial, torn>>

Packet == [serial : Nat, sent : Nat, size : Nat \ {0}, declared : Nat \ {0}]
Byte == [serial : Nat, pos : Nat \ {0}, declared : Nat \ {0}]
NoPacket == [serial |-> 0, sent |-> 0, size |-> 1, declared |-> 1]

TypeOK ==
    /\ out_mutex \in Thread \cup {NoThread}
    /\ packet \in [Thread -> Packet]
    /\ \A t \in Thread : packet[t].sent <= packet[t].size
    /\ sending \subseteq Thread
    /\ sock \in {"up", "reset"}
    /\ out \in Seq(Byte)
    /\ serial \in 0..MaxPackets
    /\ torn \in BOOLEAN

Init ==
    /\ out_mutex = NoThread
    /\ packet = [t \in Thread |-> NoPacket]
    /\ sending = {}
    /\ sock = "up"
    /\ out = <<>>
    /\ serial = 0
    /\ torn = FALSE

\* The wrapper for a Header and its data, and the one for a packed body.
Sizes(len) == {PointerSize + len, HeaderSize + len}

\* Mutant: send_packet does not wait for the mutex.
LockAlways(t, len, size) ==
    /\ t \notin sending
    /\ serial < MaxPackets
    /\ out_mutex' = t
    /\ sending' = sending \cup {t}
    /\ serial' = serial + 1
    /\ packet' = [packet EXCEPT ![t] =
                    [serial |-> serial + 1, sent |-> 0, size |-> size,
                     declared |-> HeaderSize + len]]
    /\ UNCHANGED <<sock, out, torn>>

Lock(t, len, size) ==
    /\ t \notin sending
    /\ out_mutex = NoThread
    /\ serial < MaxPackets
    /\ out_mutex' = t
    /\ sending' = sending \cup {t}
    /\ serial' = serial + 1
    /\ packet' = [packet EXCEPT ![t] =
                    [serial |-> serial + 1, sent |-> 0, size |-> size,
                     declared |-> HeaderSize + len]]
    /\ UNCHANGED <<sock, out, torn>>

ByteAt(t, pos) ==
    [serial |-> packet[t].serial, pos |-> pos,
     declared |-> packet[t].declared]

\* Mutant: size is decremented twice.
SendSomeTwice(t, n) ==
    /\ t \in sending
    /\ sock = "up"
    /\ n \in 1..(packet[t].size - packet[t].sent)
    /\ out' = out \o [k \in 1..n |-> ByteAt(t, packet[t].sent + k)]
    /\ packet' = [packet EXCEPT ![t].sent = @ + 2 * n]
    /\ UNCHANGED <<out_mutex, sending, sock, serial, torn>>

\* send() takes n bytes; size -= sent, buffer += sent.
SendSome(t, n) ==
    /\ t \in sending
    /\ sock = "up"
    /\ n \in 1..(packet[t].size - packet[t].sent)
    /\ out' = out \o [k \in 1..n |-> ByteAt(t, packet[t].sent + k)]
    /\ packet' = [packet EXCEPT ![t].sent = @ + n]
    /\ UNCHANGED <<out_mutex, sending, sock, serial, torn>>

\* The whole packet is sent, or EPIPE or ECONNRESET drops the rest.
Finished(t) == packet[t].sent = packet[t].size

Leave(t) ==
    /\ out_mutex' = NoThread
    /\ sending' = sending \ {t}
    /\ UNCHANGED <<packet, sock, out, serial>>

\* Mutant: EPIPE and ECONNRESET are tried again, as EINTR is.
UnlockFinished(t) ==
    /\ t \in sending
    /\ Finished(t)
    /\ Leave(t)
    /\ UNCHANGED torn

Unlock(t) ==
    /\ t \in sending
    /\ Finished(t) \/ sock = "reset"
    /\ Leave(t)
    /\ UNCHANGED torn

\* Any other error (ENOMEM, EHOSTUNREACH) is thrown, and an ostream turns it
\* into its badbit.  The socket may work again.
Throw(t) ==
    /\ t \in sending
    /\ ~Finished(t) /\ sock = "up"
    /\ Leave(t)
    /\ torn' = (torn \/ packet[t].sent > 0)

\* The peer resets the connection: no byte is ever taken again.
Reset ==
    /\ sock = "up"
    /\ sock' = "reset"
    /\ UNCHANGED <<out_mutex, packet, sending, out, serial, torn>>

Next ==
    \/ \E t \in Thread :
         \/ \E len \in Content : \E size \in Sizes(len) : Lock(t, len, size)
         \/ \E n \in 1..packet[t].size : SendSome(t, n)
         \/ Unlock(t) \/ Throw(t)
    \/ Reset

Spec == Init /\ [][Next]_vars

(* The system runs every thread that can run, and the socket takes more    *)
(* bytes as long as it works: the peer reads what it is sent, and a        *)
(* network that is down comes back.  No peer owes a reset.                 *)
Progress(t) == (\E n \in 1..packet[t].size : SendSome(t, n)) \/ Unlock(t)
FairSpec == Spec /\ \A t \in Thread : WF_vars(Progress(t))

-----------------------------------------------------------------------------
(* Properties.                                                             *)

\* out_mutex "ensure[s] isolation of the sending side of the socket to
\* avoid protocol breakage" (connection.hpp:37-41): a peer that reads each
\* packet to its declared length always meets the next header where it
\* looks for it, whatever the threads and the partial sends.
Framing ==
    \A k \in DOMAIN out :
      \/ /\ out[k].pos = 1
         /\ k > 1 => out[k - 1].pos = out[k - 1].declared
      \/ /\ k > 1
         /\ out[k].serial = out[k - 1].serial
         /\ out[k].pos = out[k - 1].pos + 1
         /\ out[k].pos <= out[k].declared

\* The same, as long as no error other than EPIPE and ECONNRESET is thrown
\* between two parts of a packet.
FramingUnlessTorn == torn \/ Framing

\* A thread that took out_mutex gives it back, on every path out of
\* send_packet, also when the peer is gone before the packet is: the other
\* writers of the connection, and the end of the connection, wait for it
\* (connection.cpp:53-71).
SendsEnd == \A t \in Thread : out_mutex = t ~> out_mutex # t
=============================================================================
