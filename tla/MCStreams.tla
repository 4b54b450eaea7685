------------------------------ MODULE MCStreams ------------------------------
(* Instances of Streams.tla.  Request id 1 is the bytes 0, 1.               *)
EXTENDS StreamsInv

IdOne == <<0, 1>>
=============================================================================
