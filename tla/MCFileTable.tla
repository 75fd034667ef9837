---------------------------- MODULE MCFileTable ----------------------------
(* Instances of FileTable for TLC. *)
EXTENDS FileTable
=============================================================================
