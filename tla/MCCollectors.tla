----------------------------- MODULE MCCollectors -----------------------------
(* Two codes, three pages, one disturbance at a time. *)
EXTENDS Collectors
=============================================================================
