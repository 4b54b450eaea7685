------------------------------ MODULE Handlers -------------------------------
(***************************************************************************)
(* What one connection thread does with the records it reads: those of a   *)
(* Request, and the management records.  They come in any order.  A step   *)
(* of one that terminates the process, or whose outcome C++ leaves         *)
(* undefined, stops both.  The end of the connection waits for a request   *)
(* that the pool has, and destroys the object (Server.tla has the steps).  *)
(***************************************************************************)
EXTENDS Input, GetValues

vars == <<process, inputVars, valueVars>>

TypeOK == InputTypeOK /\ ValuesTypeOK

Init == process = "running" /\ InputInit /\ ValuesInit

RequestRecord == ~closed /\ InputNext /\ UNCHANGED valueVars
ManagementRecord == ValuesNext /\ UNCHANGED inputVars
EndConnection == DestroyConnection /\ DropRequest

Next ==
    /\ process = "running"
    /\ RequestRecord \/ ManagementRecord \/ EndConnection

Spec == Init /\ [][Next]_vars
=============================================================================
