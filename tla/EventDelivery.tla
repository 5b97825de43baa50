----------------------------- MODULE EventDelivery -----------------------------
(***************************************************************************)
(* The way of an event from the page to event_log: the sender and the      *)
(* receiving point append to the topic the preliminary processing service  *)
(* consumes.  They share nothing else; a fault may meet either.            *)
(***************************************************************************)
EXTENDS SdkSender, EventIngestion

Init == SenderInit /\ IngestionInit /\ log = <<>> /\ faults = 0

Next ==
  \/ SenderNext /\ UNCHANGED ingestionVars
  \/ IngestionNext /\ UNCHANGED senderVars

vars == <<log, faults, senderVars, ingestionVars>>

Spec == Init /\ [][Next]_vars
FairSpec == Spec /\ IngestionFairness

-----------------------------------------------------------------------------
(* Events that a running process holds or will fetch, or that a new one    *)
(* will fetch.                                                             *)
Pending ==
  {log[o] : o \in {n \in DOMAIN log :
     IF service = "down" THEN n >= groupOffset
     ELSE n >= position \/ n = handler.offset
          \/ n \in Members(buffer) \cup Members(flush.batch)}}

Underway == Members(queue) \cup Members(batch) \cup OnWire \cup Pending

(* End to end, without a failure, every event a page that stays open has   *)
(* given to the SDK is stored exactly once or is still on its way.         *)
NothingLostWithoutFault ==
  (faults = 0 /\ page = "open") =>
    \A e \in 1..accepted : rows[e] = 1 \/ (rows[e] = 0 /\ e \in Underway)

(* Whatever fails, an event that was accepted is stored, or on its way, or *)
(* lost for a reason known to the page or to the consumer.                 *)
EveryEventAccounted ==
  \A e \in 1..accepted :
    \/ rows[e] > 0 \/ e \in Underway
    \/ e \in dropped \cup stale
    \/ \E o \in DOMAIN log : log[o] = e /\ (o \in dirty \cup missed \/ \E d \in began : o < d)
=============================================================================
