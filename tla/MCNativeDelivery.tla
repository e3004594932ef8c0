-------------------------- MODULE MCNativeDelivery --------------------------
(***************************************************************************)
(* Instances of NativeDelivery for TLC: one to three jobs, the list that names *)
(* them all.                                                                 *)
(***************************************************************************)
EXTENDS NativeDelivery

CONSTANTS j1, j2, j3

OneJob == {j1}
OneList == {<<j1>>}
TwoJobs == {j1, j2}
OneListOfTwo == {<<j1, j2>>}
ThreeJobs == {j1, j2, j3}
OneListOfThree == {<<j1, j2, j3>>}
=============================================================================
