----------------------- MODULE MCDeliveryConfirmation -----------------------
(***************************************************************************)
(* Instances of DeliveryConfirmation for TLC: two jobs, of which a change of *)
(* the criteria leaves one.                                                  *)
(***************************************************************************)
EXTENDS DeliveryConfirmation

CONSTANTS j1, j2

TwoJobs == {j1, j2}
TwoRevisions == [r \in 0..1 |-> IF r = 0 THEN TwoJobs ELSE {j1}]
ThreeRevisions == [r \in 0..2 |-> IF r = 0 THEN TwoJobs ELSE IF r = 1 THEN {j1} ELSE {j2}]
=============================================================================
