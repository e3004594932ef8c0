-------------------------- MODULE DeliveryPromise --------------------------
(***************************************************************************)
(* What delivery on one platform promises to the user, without ledger,       *)
(* rounds, inspections or crashes: an irrevocable action (opening a          *)
(* conversation, submitting the resume, sending the greeting) is permitted   *)
(* only for a job of the list the user has confirmed and not replaced, and   *)
(* at most once for a job however many lists name it.                        *)
(***************************************************************************)
EXTENDS Naturals

CONSTANTS Jobs, Actions

VARIABLES
    confirmed,      \* the jobs of the list that is confirmed now
    grants          \* permissions given for an action on a job

promiseVars == <<confirmed, grants>>

Init ==
    /\ confirmed = {}
    /\ grants = [p \in Jobs \X Actions |-> 0]

\* Showing a new list withdraws the confirmation of the old one.
Show ==
    /\ confirmed' = {}
    /\ UNCHANGED grants

Confirm ==
    /\ confirmed = {}
    /\ confirmed' \in SUBSET Jobs
    /\ UNCHANGED grants

Grant(j, a) ==
    /\ j \in confirmed
    /\ grants[<<j, a>>] = 0
    /\ grants' = [grants EXCEPT ![<<j, a>>] = 1]
    /\ UNCHANGED confirmed

Next == Show \/ Confirm \/ \E j \in Jobs, a \in Actions : Grant(j, a)

Spec == Init /\ [][Next]_promiseVars
=============================================================================
