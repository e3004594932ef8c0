----------------------------- MODULE MCReadGuard -----------------------------
(***************************************************************************)
(* Two commands, a budget of three reads in six units of time.                *)
(***************************************************************************)
EXTENDS ReadGuard

CONSTANTS p1, p2

TwoCommands == {p1, p2}
=============================================================================
