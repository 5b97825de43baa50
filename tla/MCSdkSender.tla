---------------------------- MODULE MCSdkSender ----------------------------
(* Instances of SdkSender. *)
EXTENDS SdkSender
=============================================================================
