------------------------------- MODULE MCRounds -------------------------------
(* Small instances of Rounds for TLC. *)
EXTENDS Rounds
===============================================================================
