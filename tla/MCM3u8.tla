------------------------------- MODULE MCM3u8 -------------------------------
(* The m3u8 service on small instances. *)
EXTENDS M3u8Service, TLC
=============================================================================
