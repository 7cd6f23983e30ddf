------------------------------ MODULE MCPorts -------------------------------
(* Module Ports for TLC: all constants are in the .cfg file. *)
EXTENDS Ports
=============================================================================
