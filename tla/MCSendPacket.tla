---------------------------- MODULE MCSendPacket ----------------------------
(* The instance of SendPacket.tla: no symmetry, as a run checks liveness.  *)
EXTENDS SendPacket
=============================================================================
