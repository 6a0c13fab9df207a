------------------------------ MODULE MCDecrypt ------------------------------
(* The decrypt service on small instances. *)
EXTENDS DecryptService
=============================================================================
