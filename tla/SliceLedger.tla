----------------------------- MODULE SliceLedger -----------------------------
(***************************************************************************)
(* What dispatching cleaning tasks promises, without nodes, streams or     *)
(* queues: of one slice at most one task is out at a time, every task that *)
(* is out is settled once, and only a settlement decides about its slice.  *)
(* NodeRegistry implements this module.                                    *)
(***************************************************************************)
CONSTANTS Slice, Task   \* a task is a record whose field slice is in Slice

Verdict == {"open", "done", "givenup"}

VARIABLES outstanding,  \* tasks that were dispatched and not settled
          verdict       \* per slice: to be cleaned, cleaned, given up

ledgerVars == <<outstanding, verdict>>

Init ==
  /\ outstanding = {}
  /\ verdict = [s \in Slice |-> "open"]

Accept(t) ==
  /\ verdict[t.slice] = "open"
  /\ \A u \in outstanding : u.slice # t.slice
  /\ outstanding' = outstanding \cup {t}
  /\ UNCHANGED verdict

(* v is "open" when a failed slice will be tried again. *)
Settle(t, v) ==
  /\ t \in outstanding
  /\ outstanding' = outstanding \ {t}
  /\ verdict' = [verdict EXCEPT ![t.slice] = v]

(* The service forgets what was out; slices it had given up count again.   *)
Restart ==
  /\ outstanding' = {}
  /\ verdict' = [s \in Slice |-> IF verdict[s] = "done" THEN "done" ELSE "open"]

Next ==
  \/ \E t \in Task : Accept(t)
  \/ \E t \in Task, v \in Verdict : Settle(t, v)
  \/ Restart

Spec == Init /\ [][Next]_ledgerVars
=============================================================================
