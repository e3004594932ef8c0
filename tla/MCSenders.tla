------------------------------ MODULE MCSenders ------------------------------
(* Two jobs on each platform, two failures. *)
EXTENDS Senders
=============================================================================
