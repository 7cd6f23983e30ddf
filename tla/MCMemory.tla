------------------------------ MODULE MCMemory ------------------------------
(* Module Memory for TLC: all constants are in the .cfg file. *)
EXTENDS Memory
=============================================================================
