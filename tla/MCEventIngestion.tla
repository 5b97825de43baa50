---------------------------- MODULE MCEventIngestion ----------------------------
(* Instances of EventIngestion. *)
EXTENDS EventIngestion
=============================================================================
