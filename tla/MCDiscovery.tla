----------------------------- MODULE MCDiscovery -----------------------------
(* Small instances of Discovery for TLC. *)
EXTENDS Discovery
=============================================================================
