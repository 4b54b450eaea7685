------------------------------ MODULE Service ------------------------------
(***************************************************************************)
(* What the server promises its peers, with the threads, counters, locks   *)
(* and queues left out: requests begin and end on an open connection, a    *)
(* connection that stops reading begins no more, and it is closed exactly  *)
(* when nothing is active on it any more.  Server.tla implements it.       *)
(***************************************************************************)
CONSTANTS Conn, Id

VARIABLES phase,    \* of each connection
          active    \* the requests begun and not ended, per connection

serviceVars == <<phase, active>>

Init ==
    /\ phase = [c \in Conn |-> "absent"]
    /\ active = [c \in Conn |-> {}]

Open(c) ==
    /\ phase[c] = "absent"
    /\ phase' = [phase EXCEPT ![c] = "open"]
    /\ UNCHANGED active

Begin(c, i) ==
    /\ phase[c] = "open"
    /\ i \notin active[c]
    /\ active' = [active EXCEPT ![c] = @ \cup {i}]
    /\ UNCHANGED phase

\* Answered, cancelled, or discarded with the connection.
End(c, i) ==
    /\ i \in active[c]
    /\ active' = [active EXCEPT ![c] = @ \ {i}]
    /\ UNCHANGED phase

Drain(c) ==
    /\ phase[c] = "open"
    /\ phase' = [phase EXCEPT ![c] = "draining"]
    /\ UNCHANGED active

Close(c) ==
    /\ phase[c] = "draining"
    /\ active[c] = {}
    /\ phase' = [phase EXCEPT ![c] = "closed"]
    /\ UNCHANGED active

Next ==
    \E c \in Conn :
      \/ Open(c) \/ Drain(c) \/ Close(c)
      \/ \E i \in Id : Begin(c, i) \/ End(c, i)

Safety == Init /\ [][Next]_serviceVars

Spec == Safety /\ \A c \in Conn : WF_serviceVars(Close(c))
=============================================================================
