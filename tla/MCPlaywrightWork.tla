-------------------------- MODULE MCPlaywrightWork --------------------------
(***************************************************************************)
(* One recruiting action or inspection at a time, each adapter in turn: the *)
(* lease admits no second open work, so two works share nothing but it.     *)
(***************************************************************************)
EXTENDS PlaywrightWork, TLC

CONSTANTS w1, alice, n1, r1, r2, r3, r4, observe, deliver

MCOwner == w1 :> alice
MCSymmetry == Permutations(ReceiptIds)
=============================================================================
