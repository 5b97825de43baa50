------------------------------ MODULE EventLog ------------------------------
(***************************************************************************)
(* final_event_log as the analysis queries see it: rows with a user, a     *)
(* device, a session, a kind of event and a time.  A kind stands for the   *)
(* name of an event together with the properties filters look at.  Rows    *)
(* may be equal: the table does not de-duplicate.                          *)
(*                                                                         *)
(* No query depends on the order of rows in the table, so they come in     *)
(* that of their times.                                                    *)
(***************************************************************************)
EXTENDS Naturals, Sequences, FiniteSets

CONSTANTS
  Visits,    \* bound: [uid, device, session] of the rows; session 0: none
  LastTime,  \* bound: days 0..LastTime
  MaxRows    \* bound: rows

Kind == {"landing", "view", "buy"}

(* A landing is a page_view that carries a position ($is_attribution_event)*)
EventName == [k \in Kind |-> IF k = "buy" THEN "buy" ELSE "page_view"]

ASSUME EventLogAssumption ==
  /\ Visits \subseteq [uid : Nat, device : Nat, session : Nat]
  /\ LastTime \in Nat /\ MaxRows \in Nat

VARIABLE log

LogInit == log = <<>>

Store(v, k, t) ==
  /\ Len(log) < MaxRows /\ \A i \in DOMAIN log : log[i].at <= t
  /\ log' = Append(log, [uid |-> v.uid, device |-> v.device, session |-> v.session,
                         kind |-> k, at |-> t])

LogNext == \E v \in Visits, k \in Kind, t \in 0..LastTime : Store(v, k, t)

(* The rows of a query: those within its range of days.                    *)
Between(first, last) == {i \in DOMAIN log : first <= log[i].at /\ log[i].at <= last}
=============================================================================
