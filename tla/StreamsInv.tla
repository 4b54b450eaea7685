----------------------------- MODULE StreamsInv ------------------------------
(***************************************************************************)
(* The inductive invariant behind the order and the number of what is      *)
(* sent in Streams.tla, in the parts in which Streams_proofs.tla proves it. *)
(***************************************************************************)
EXTENDS Streams

\* Of a list of packets: the end of a stream, END_REQUEST, and the two
\* things EofEndsStream says of it; EndsLast is EndIsLast of any list.
StreamEnded(w, s) == \E j \in DOMAIN w : w[j].kind = "eof" /\ w[j].stream = s
HasEnd(w) == \E j \in DOMAIN w : w[j].kind = "end"
Orderly(w) ==
    \A j \in DOMAIN w :
      /\ w[j].kind = "data" => w[j].len > 0
      /\ w[j].kind = "eof" =>
           \A k \in DOMAIN w :
             k > j => ~(w[k].kind \in {"data", "eof"}
                        /\ w[k].stream = w[j].stream)

EndsLast(w) ==
    \A k \in DOMAIN w : w[k].kind = "end" =>
      k = Len(w) /\ \A s \in Stream : StreamEnded(w, s)
WellFormed(w) == Orderly(w) /\ EndsLast(w)

\* Between BEGIN_REQUEST and the next state that takes none.
InRequest == phase \notin {"ready", "gone", "terminated"}

\* The buffers: one that a closed stream has says nothing any more, and one
\* of a running request will say that it ends.
Buffers ==
    \A s \in Stream :
      /\ ~buf[s].attached => buf[s].pending = 0 /\ ~buf[s].send_eof
      /\ InRequest /\ buf[s].attached => buf[s].send_eof

\* The phases in which a stream is open, or closed.
Control ==
    /\ phase = "params" => wire = <<>> /\ \A s \in Stream : ~lost[s]
    /\ phase = "flush_report" => buf["err"].attached
    /\ phase \in {"close_err", "end", "ended"} => ~buf["out"].attached
    /\ phase \in {"end", "ended"} => ~buf["err"].attached

\* A stream is ended on the wire exactly when it is closed, as long as the
\* peer can be told.
WireEnds ==
    phase \notin {"gone", "terminated"} =>
      \A s \in Stream :
        /\ StreamEnded(wire, s) => ~buf[s].attached
        /\ InRequest /\ sock = "up" /\ ~buf[s].attached
             => StreamEnded(wire, s)

\* After END_REQUEST the streams are closed and nothing runs.
EndOnce ==
    HasEnd(wire) =>
      /\ ~InRequest \/ phase = "ended"
      /\ \A s \in Stream : ~buf[s].attached

\* Nothing waits in a buffer before the application runs, so that a new
\* request, whose count begins at 0, leaves nothing of the last one behind.
NothingWaits ==
    phase \in {"ready", "params"} => \A s \in Stream : buf[s].pending = 0

\* Until the next request, a stream that lost its buffer writes nothing.
LostKnown ==
    \A s \in Stream :
      lost[s] => buf[s].pending = 0 /\ (buf[s].attached => bad[s])

StreamsIInv ==
    /\ TypeOK /\ Buffers /\ Control /\ WireEnds /\ EndOnce
    /\ WellFormed(wire)
    /\ NothingWaits /\ NothingLost /\ LostKnown
=============================================================================
