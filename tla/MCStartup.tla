------------------------------ MODULE MCStartup ------------------------------
(* A container with two options and two threads that configure transfers. *)
EXTENDS Startup
=============================================================================
