------------------------------ MODULE MCAccount ------------------------------
(* The account service on small instances. *)
EXTENDS AccountService, TLC
=============================================================================
