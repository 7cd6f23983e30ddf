----------------------------- MODULE MCBufPool ------------------------------
(* Module BufPool for TLC: all constants are in the .cfg file. *)
EXTENDS BufPool
=============================================================================
