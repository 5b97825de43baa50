------------------------------ MODULE EventTopic ------------------------------
(***************************************************************************)
(* The partition of the Kafka topic that holds the events of one device:   *)
(* the receiving point appends to it (the device id is the message key) and*)
(* the preliminary processing service consumes it.  An event is known by   *)
(* its $event_id, and an offset is its place in the log.                   *)
(***************************************************************************)
EXTENDS Naturals, Sequences, FiniteSets

CONSTANTS
  MaxEvents,  \* bound: events the page produces
  MaxLog,     \* bound: messages in the partition
  MaxFaults   \* bound: failures, lost or late answers, crashes

ASSUME TopicAssumption == {MaxEvents, MaxLog, MaxFaults} \subseteq Nat

(* Events are numbered in the order in which the page produces them.       *)
Event == 1..MaxEvents
Offset == 1..MaxLog

VARIABLES
  log,     \* the partition
  faults

Fault == faults < MaxFaults /\ faults' = faults + 1

(* One failure more when a part of the step fails.                         *)
FaultIf(failed) == IF failed THEN Fault ELSE UNCHANGED faults

Members(s) == {s[i] : i \in DOMAIN s}

(* The producer acknowledges the messages it has appended.                 *)
Append2Log(events) ==
  /\ Len(log) + Len(events) <= MaxLog
  /\ log' = log \o events
=============================================================================
