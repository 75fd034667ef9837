------------------------------- MODULE MCProc -------------------------------
(* Instances of Proc for TLC.  Slots are numbered and scanned in order, so no *)
(* symmetry applies.                                                         *)
EXTENDS Proc
=============================================================================
