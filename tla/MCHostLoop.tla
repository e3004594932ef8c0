------------------------------ MODULE MCHostLoop ------------------------------
(***************************************************************************)
(* A ledger small enough for TLC, with the loop of one of its two accounts;   *)
(* a read-only and a recruiting specification.                               *)
(***************************************************************************)
EXTENDS HostLoop, TLC

CONSTANTS w1, w2, w3, alice, bob, n1, n2, n3, r1, r2, observe, deliver, o1

MCOwner == w1 :> alice @@ w2 :> alice @@ w3 :> bob
MCSymmetry == Permutations(Nonces) \cup Permutations(ReceiptIds)
===============================================================================
