------------------------------ MODULE MCLogin ------------------------------
(* Logins with few codes, requests and polls. *)
EXTENDS LoginFlow, TLC
=============================================================================
