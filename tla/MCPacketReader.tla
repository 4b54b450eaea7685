--------------------------- MODULE MCPacketReader ---------------------------
(* Instances of PacketReader.tla: records shorter than, as long as, and     *)
(* longer than the body of BEGIN_REQUEST.                                   *)
EXTENDS PacketReader
=============================================================================
