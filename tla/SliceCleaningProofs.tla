------------------------- MODULE SliceCleaningProofs -------------------------
(***************************************************************************)
(* Proofs about SliceCleaning, for any events, nodes and bounds.           *)
(***************************************************************************)
EXTENDS SliceCleaning, SequenceTheorems, FiniteSetTheorems, TLAPS

Claimed == [stage : {"claim", "compute", "look"}, id : Id]
Writing == [stage : {"write"}, id : Id, todo : [Tables -> SUBSET Event], failed : BOOLEAN]
LateInsert == [id : Id, table : Tables, events : SUBSET Event]

(* A run is idle, on its way to the inserts, or inserting, and its stage   *)
(* tells which.                                                            *)
LEMMA RunKinds ==
  ASSUME TypeOK, NEW n \in Node
  PROVE  /\ run[n] \in {Idle} \cup Claimed \cup Writing
         /\ run[n].stage \in {"claim", "compute", "look"} => run[n] \in Claimed
         /\ run[n].stage = "write" => run[n] \in Writing
         /\ run[n] # Idle => run[n].id \in Id
<1>1. run[n] \in {Idle} \cup Claimed \cup Writing
  BY DEF TypeOK, Claimed, Writing
<1>2. Idle.stage = "idle"
  BY DEF Idle
<1>3. \A r \in Claimed : r.stage \in {"claim", "compute", "look"} /\ r.id \in Id
  BY DEF Claimed
<1>4. \A r \in Writing : r.stage = "write" /\ r.id \in Id
  BY DEF Writing
<1> QED
  BY <1>1, <1>2, <1>3, <1>4

(* A settlement keeps the type of what the scheduler remembers.            *)
LEMMA SettleType ==
  ASSUME TypeOK, NEW n \in Node, NEW id \in Id,
         NEW result \in {"completed", "replayed", "failed"}, Settle(n, id, result)
  PROVE  /\ pending' \in Id \cup {NoId} /\ attempts' \in 0..MaxAttempts
         /\ current' \in (Node \X Id) \cup {NoTask}
         /\ verdict' \in {"unseen", "loaded", "completed", "replayed", "givenup",
                          "skipped"}
<1>1. CASE current # <<n, id>>
  BY <1>1 DEF Settle, TypeOK, taskVars
<1>2. CASE current = <<n, id>> /\ result = "failed" /\ attempts < MaxAttempts
  <2>1. attempts + 1 \in 0..MaxAttempts
    <3>1. attempts \in 0..MaxAttempts /\ MaxAttempts \in Nat
      BY SliceAssumption DEF TypeOK
    <3> QED
      BY <1>2, <3>1
  <2>2. [id EXCEPT !.attempt = attempts + 1] \in Id
    BY <2>1 DEF Id
  <2> QED
    BY <1>2, <2>1, <2>2 DEF Settle, TypeOK
<1>3. CASE current = <<n, id>> /\ ~(result = "failed" /\ attempts < MaxAttempts)
  BY <1>3, SliceAssumption DEF Settle, TypeOK
<1> QED
  BY <1>1, <1>2, <1>3

(* What an insert leaves behind.                                           *)
LEMMA AddedType ==
  ASSUME TypeOK, NEW table \in Tables, NEW events \in SUBSET Event
  PROVE  /\ Added(table, events) \in [Tables -> [Event -> Nat]]
         /\ \A other \in Tables \ {table} : Added(table, events)[other] = rows[other]
         /\ \A e \in Event : Added(table, events)[table][e]
                               = rows[table][e] + (IF e \in events THEN 1 ELSE 0)
<1> DEFINE new == [e \in Event |-> rows[table][e] + (IF e \in events THEN 1 ELSE 0)]
<1>1. rows \in [Tables -> [Event -> Nat]]
  BY DEF TypeOK
<1>2. new \in [Event -> Nat] /\ \A e \in Event : new[e] = rows[table][e]
                                              + (IF e \in events THEN 1 ELSE 0)
  BY <1>1
<1>3. Added(table, events) = [rows EXCEPT ![table] = new]
  BY <1>1 DEF Added
<1> HIDE DEF new
<1> QED
  BY <1>1, <1>2, <1>3

(* The inserts a node leaves behind when it dies: at most two, of tables   *)
(* whose rows it had not stored.                                           *)
Sent(n) == {table \in Tables : run[n].todo[table] # {}}
Left(n, under) ==
  {[id |-> run[n].id, table |-> table, events |-> run[n].todo[table]] : table \in under}

LEMMA CrashLate ==
  ASSUME TypeOK, NEW n \in Node, run[n] # Idle, run[n].stage = "write", Crash(n)
  PROVE  \E stored \in SUBSET Tables : \E under \in SUBSET (Tables \ stored) :
           /\ rows' = [table \in Tables |->
                         IF table \in stored THEN Added(table, run[n].todo[table])[table]
                         ELSE rows[table]]
           /\ \A table \in stored \cup under : run[n].todo[table] # {}
           /\ late' = late \cup Left(n, under)
           /\ outlived' = outlived + Cardinality(Left(n, under))
           /\ Left(n, under) \in SUBSET LateInsert
           /\ IsFiniteSet(Left(n, under)) /\ Cardinality(Left(n, under)) \in Nat
<1>0. PICK stored \in SUBSET Sent(n) : \E under \in SUBSET (Sent(n) \ stored) :
        /\ rows' = [table \in Tables |->
                      IF table \in stored THEN Added(table, run[n].todo[table])[table]
                      ELSE rows[table]]
        /\ late' = late \cup Left(n, under)
        /\ outlived' = outlived + Cardinality(Left(n, under))
  BY DEF Crash, Sent, Left
<1>1. PICK under \in SUBSET (Sent(n) \ stored) :
        /\ rows' = [table \in Tables |->
                      IF table \in stored THEN Added(table, run[n].todo[table])[table]
                      ELSE rows[table]]
        /\ late' = late \cup Left(n, under)
        /\ outlived' = outlived + Cardinality(Left(n, under))
  BY <1>0
<1>2. Left(n, under) \in SUBSET LateInsert
  <2>1. run[n] \in Writing
    BY RunKinds
  <2> QED
    BY <2>1 DEF Left, LateInsert, Writing, Sent
<1>3. IsFiniteSet(Left(n, under)) /\ Cardinality(Left(n, under)) \in Nat
  <2> DEFINE insert(table) == [id |-> run[n].id, table |-> table,
                               events |-> run[n].todo[table]]
  <2>1. IsFiniteSet(({} \cup {insert("final_event_log")}) \cup {insert("event_attribution")})
    BY FS_EmptySet, FS_AddElement
  <2>2. Left(n, under) \subseteq
          ({} \cup {insert("final_event_log")}) \cup {insert("event_attribution")}
    BY DEF Left, Sent, Tables
  <2> QED
    BY <2>1, <2>2, FS_Subset, FS_CardinalityType
<1> QED
  BY <1>1, <1>2, <1>3 DEF Sent

-----------------------------------------------------------------------------
(* The types hold initially.                                               *)
LEMMA TypeInit == Init => TypeOK
BY SliceAssumption DEF Init, TypeOK, NoTask

(* Every step keeps them: one case per action.                             *)
LEMMA TypeStep == TypeOK /\ [Next]_vars => TypeOK'
<1> SUFFICES ASSUME TypeOK, [Next]_vars
             PROVE  TypeOK'
  OBVIOUS
<1> USE DEF nodeVars, schedVars, taskVars
<1>1. ASSUME LoadSlice
      PROVE  TypeOK'
  <2>1. [run |-> day, attempt |-> 0] \in Id
    BY SliceAssumption DEF TypeOK, Id
  <2> QED
    BY <1>1, <2>1 DEF LoadSlice, TypeOK
<1>2. ASSUME NEW n \in Node, Deliver(n)
      PROVE  TypeOK'
  <2>1. pending \in Id
    BY <1>2 DEF Deliver, TypeOK
  <2>2. queued' \in [Node -> Seq(Id)]
    <3>1. Append(queued[n], pending) \in Seq(Id)
      BY <2>1, AppendProperties DEF TypeOK
    <3> QED
      BY <1>2, <3>1 DEF Deliver, TypeOK
  <2> QED
    BY <1>2, <2>1, <2>2 DEF Deliver, TypeOK
<1>3. ASSUME StreamLost
      PROVE  TypeOK'
  <2>1. current[1] \in Node /\ current[2] \in Id
    BY <1>3 DEF StreamLost, TypeOK
  <2>2. Settle(current[1], current[2], "failed")
    BY <1>3 DEF StreamLost
  <2>3. /\ pending' \in Id \cup {NoId} /\ attempts' \in 0..MaxAttempts
        /\ current' \in (Node \X Id) \cup {NoTask}
        /\ verdict' \in {"unseen", "loaded", "completed", "replayed", "givenup",
                         "skipped"}
    BY <2>1, <2>2, SettleType
  <2>4. faults' \in 0..MaxFaults /\ outlived' \in Nat
    BY <1>3, SliceAssumption DEF StreamLost, Fault, TypeOK
  <2> QED
    BY <1>3, <2>3, <2>4 DEF StreamLost, TypeOK
<1>4. ASSUME Restart
      PROVE  TypeOK'
  BY <1>4, SliceAssumption DEF Restart, TypeOK
<1>5. ASSUME NextDay
      PROVE  TypeOK'
  BY <1>5, SliceAssumption DEF NextDay, TypeOK
<1>6. ASSUME NEW n \in Node, Start(n)
      PROVE  TypeOK'
  <2>1. Head(queued[n]) \in Id /\ Tail(queued[n]) \in Seq(Id)
    BY <1>6, HeadTailProperties DEF Start, TypeOK
  <2>2. [stage |-> "claim", id |-> Head(queued[n])] \in Claimed
    BY <2>1 DEF Claimed
  <2>3. run' \in [Node -> {Idle} \cup Claimed \cup Writing]
    BY <1>6, <2>2 DEF Start, TypeOK, Claimed, Writing
  <2> QED
    BY <1>6, <2>1, <2>3 DEF Start, TypeOK, Claimed, Writing
<1>7. ASSUME NEW n \in Node, Claim(n)
      PROVE  TypeOK'
  <2>1. run[n] \in Claimed /\ run[n].id \in Id
    BY <1>7, RunKinds DEF Claim, Claimed
  <2>2. run' \in [Node -> {Idle} \cup Claimed \cup Writing]
    <3> DEFINE r == [run[n] EXCEPT !.stage = "compute"]
    <3>1. r \in Claimed
      BY <2>1 DEF Claimed
    <3>2. run' = [run EXCEPT ![n] = Idle] \/ run' = [run EXCEPT ![n] = r]
      BY <1>7 DEF Claim, Finish, TypeOK
    <3> HIDE DEF r
    <3> QED
      BY <3>1, <3>2 DEF TypeOK, Claimed, Writing
  <2>3. Settle(n, run[n].id, "replayed") \/ UNCHANGED taskVars
    BY <1>7 DEF Claim, Finish
  <2>4. /\ pending' \in Id \cup {NoId} /\ attempts' \in 0..MaxAttempts
        /\ current' \in (Node \X Id) \cup {NoTask}
        /\ verdict' \in {"unseen", "loaded", "completed", "replayed", "givenup",
                         "skipped"}
    BY <2>1, <2>3, SettleType DEF TypeOK
  <2> QED
    BY <1>7, <2>1, <2>2, <2>4 DEF Claim, TypeOK, Claimed, Writing
<1>8. ASSUME NEW n \in Node, Compute(n)
      PROVE  TypeOK'
  <2>1. [run[n] EXCEPT !.stage = "look"] \in Claimed
    BY <1>8, RunKinds DEF Compute, Claimed
  <2>2. run' \in [Node -> {Idle} \cup Claimed \cup Writing]
    BY <1>8, <2>1 DEF Compute, TypeOK, Claimed, Writing
  <2> QED
    BY <1>8, <2>2 DEF Compute, TypeOK, Claimed, Writing
<1>9. ASSUME NEW n \in Node, Look(n)
      PROVE  TypeOK'
  <2> DEFINE todo == [table \in Tables |-> Due(table) \ Stored(table)]
  <2>1. todo \in [Tables -> SUBSET Event]
    BY SliceAssumption DEF Due
  <2> HIDE DEF todo
  <2>2. [stage |-> "write", id |-> run[n].id, failed |-> FALSE, todo |-> todo] \in Writing
    BY <1>9, <2>1, RunKinds DEF Look, Writing, Claimed
  <2>3. run' = [run EXCEPT ![n] =
                  [stage |-> "write", id |-> run[n].id, failed |-> FALSE, todo |-> todo]]
    BY <1>9 DEF Look, todo, TypeOK
  <2>4. run' \in [Node -> {Idle} \cup Claimed \cup Writing]
    BY <2>2, <2>3 DEF TypeOK, Claimed, Writing
  <2> QED
    BY <1>9, <2>4 DEF Look, TypeOK, Claimed, Writing
<1>10. ASSUME NEW n \in Node, NEW table \in Tables, NEW outcome \in Outcome,
              Insert(n, table, outcome)
       PROVE  TypeOK'
  <2> DEFINE events == run[n].todo[table]
             insert == [id |-> run[n].id, table |-> table, events |-> events]
             r == [run[n] EXCEPT !.todo[table] = {}, !.failed = @ \/ outcome # "acknowledged"]
  <2>1. run[n] \in Writing
    BY <1>10, RunKinds DEF Insert, Inserted
  <2>2. events \in SUBSET Event /\ insert \in LateInsert /\ r \in Writing
    BY <2>1 DEF Writing, LateInsert
  <2>3. rows' \in [Tables -> [Event -> Nat]]
    <3>1. Added(table, events) \in [Tables -> [Event -> Nat]]
      BY <2>2, AddedType
    <3>2. rows' = Added(table, events) \/ rows' = rows
      BY <1>10 DEF Insert, Inserted
    <3> QED
      BY <3>1, <3>2 DEF TypeOK
  <2>4. run' = [run EXCEPT ![n] = r]
    BY <1>10 DEF Insert, TypeOK
  <2>5. \/ late' = late \cup {insert} /\ outlived' = outlived + 1
        \/ late' = late /\ outlived' = outlived
    BY <1>10 DEF Insert, Inserted
  <2>6. faults' \in 0..MaxFaults
    BY <1>10, SliceAssumption DEF Insert, Inserted, Fault, TypeOK
  <2>7. UNCHANGED <<keys, queued, schedVars>>
    BY <1>10 DEF Insert, Inserted
  <2> HIDE DEF r, insert
  <2>8. run' \in [Node -> {Idle} \cup Claimed \cup Writing]
    BY <2>2, <2>4 DEF TypeOK, Claimed, Writing
  <2>9. late' \in SUBSET LateInsert /\ outlived' \in Nat
    BY <2>2, <2>5 DEF TypeOK, LateInsert
  <2> QED
    BY <2>3, <2>6, <2>7, <2>8, <2>9 DEF TypeOK, Claimed, Writing, LateInsert
<1>11. ASSUME NEW n \in Node, Settled(n)
       PROVE  TypeOK'
  <2>1. run[n].id \in Id
    BY <1>11, RunKinds DEF Settled, Writing
  <2>2. run' = [run EXCEPT ![n] = Idle]
    BY <1>11 DEF Settled, Finish
  <2>3. \E result \in {"completed", "failed"} : Settle(n, run[n].id, result)
    BY <1>11 DEF Settled, Finish
  <2> QED
    BY <1>11, <2>1, <2>2, <2>3, SettleType DEF Settled, TypeOK
<1>12. ASSUME NEW n \in Node, Abort(n)
       PROVE  TypeOK'
  <2>1. run[n].id \in Id
    BY <1>12, RunKinds DEF Abort, Claimed
  <2>2. run' = [run EXCEPT ![n] = Idle] /\ Settle(n, run[n].id, "failed")
    BY <1>12 DEF Abort, Finish
  <2>3. faults' \in 0..MaxFaults
    BY <1>12, SliceAssumption DEF Abort, Fault, TypeOK
  <2> QED
    BY <1>12, <2>1, <2>2, <2>3, SettleType DEF Abort, TypeOK
<1>13. ASSUME NEW n \in Node, Crash(n)
       PROVE  TypeOK'
  <2>1. rows' \in [Tables -> [Event -> Nat]]
    <3>1. CASE run[n] # Idle /\ run[n].stage = "write"
      <4>1. run[n] \in Writing
        BY <3>1, RunKinds
      <4>2. \A table \in Tables : run[n].todo[table] \in SUBSET Event
        BY <4>1 DEF Writing
      <4>3. ASSUME NEW table \in Tables
            PROVE  /\ Added(table, run[n].todo[table])[table] \in [Event -> Nat]
                   /\ rows[table] \in [Event -> Nat]
        <5>1. Added(table, run[n].todo[table]) \in [Tables -> [Event -> Nat]]
          BY <4>2, AddedType
        <5> QED
          BY <5>1 DEF TypeOK
      <4>4. PICK stored \in SUBSET Tables :
              rows' = [table \in Tables |->
                         IF table \in stored THEN Added(table, run[n].todo[table])[table]
                         ELSE rows[table]]
        BY <1>13, <3>1 DEF Crash
      <4> QED
        BY <4>3, <4>4
    <3> QED
      BY <1>13, <3>1 DEF Crash, TypeOK
  <2>2. queued' \in [Node -> Seq(Id)]
    <3>1. <<>> \in Seq(Id)
      OBVIOUS
    <3> QED
      BY <1>13, <3>1 DEF Crash, TypeOK
  <2>3. /\ pending' \in Id \cup {NoId} /\ attempts' \in 0..MaxAttempts
        /\ current' \in (Node \X Id) \cup {NoTask}
        /\ verdict' \in {"unseen", "loaded", "completed", "replayed", "givenup",
                         "skipped"}
    <3>1. (current \in Node \X Id /\ Settle(n, current[2], "failed"))
            \/ UNCHANGED taskVars
      BY <1>13 DEF Crash, TypeOK
    <3> QED
      BY <3>1, SettleType DEF TypeOK
  <2>4. faults' \in 0..MaxFaults
    BY <1>13, SliceAssumption DEF Crash, Fault, TypeOK
  <2>5. late' \in SUBSET LateInsert /\ outlived' \in Nat
    <3>1. CASE run[n] # Idle /\ run[n].stage = "write"
      BY <1>13, <3>1, CrashLate DEF TypeOK, LateInsert
    <3> QED
      BY <1>13, <3>1 DEF Crash, TypeOK, LateInsert
  <2> QED
    BY <1>13, <2>1, <2>2, <2>3, <2>4, <2>5 DEF Crash, TypeOK, LateInsert
<1>14. ASSUME Refuse
       PROVE  TypeOK'
  BY <1>14 DEF Refuse, TypeOK
<1>15. ASSUME NEW insert \in late, Lands(insert) \/ Vanishes(insert)
       PROVE  TypeOK'
  <2>1. insert.table \in Tables /\ insert.events \in SUBSET Event
    BY DEF TypeOK
  <2>2. Added(insert.table, insert.events) \in [Tables -> [Event -> Nat]]
    BY <2>1, AddedType
  <2>3. rows' \in [Tables -> [Event -> Nat]]
    BY <1>15, <2>2 DEF Lands, Vanishes, TypeOK
  <2> QED
    BY <1>15, <2>3 DEF Lands, Vanishes, TypeOK
<1>16. CASE UNCHANGED vars
  BY <1>16 DEF vars, TypeOK
<1> QED
  BY <1>1, <1>2, <1>3, <1>4, <1>5, <1>6, <1>7, <1>8, <1>9, <1>10, <1>11, <1>12, <1>13,
     <1>14, <1>15, <1>16 DEF Next

(* Every variable keeps its type; no retry is numbered past MaxAttempts.   *)
THEOREM TypeCorrect == Spec => []TypeOK
<1> QED
  BY TypeInit, TypeStep, PTL DEF Spec

-----------------------------------------------------------------------------
(* An event is inserted only by executions that looked when it was in no   *)
(* table.  At that moment no more executions and late inserts are under way*)
(* than those the service gave up and the one it waits for; from then on   *)
(* each of them adds the event at most once.  The strengthening counts     *)
(* them: the tasks the nodes hold, the rows they have left to insert, and  *)
(* the inserts under way.                                                  *)

Held == {x \in Node \X Id : x[2] \in Ids(x[1])}
Writers(table, e) ==
  {x \in Node \X Id : /\ run[x[1]].stage = "write" /\ x[2] = run[x[1]].id
                      /\ e \in run[x[1]].todo[table]}
Lates(table, e) == {insert \in late : insert.table = table /\ e \in insert.events}

(* A node has a task once, in its queue or in execution.                   *)
NoRepeat ==
  \A n \in Node :
    /\ \A i, j \in DOMAIN queued[n] : queued[n][i] = queued[n][j] => i = j
    /\ run[n] # Idle => \A i \in DOMAIN queued[n] : queued[n][i] # run[n].id

(* The scheduler has one task of the slice, or none.                       *)
Tracked ==
  /\ verdict = "unseen" => pending = NoId /\ current = NoTask
  /\ pending # NoId => current = NoTask

(* All a node has was given up, but for the task that is waited for.       *)
Bounded ==
  /\ IsFiniteSet(Held) /\ IsFiniteSet(late)
  /\ Cardinality(Held \ {current}) + Cardinality(late) <= outlived

Counted ==
  \A table \in Tables, e \in Event :
    rows[table][e] + Cardinality(Writers(table, e)) + Cardinality(Lates(table, e))
      <= 1 + outlived

HeldInv == NoRepeat /\ Tracked /\ Bounded
CountInv == HeldInv /\ Counted

(* Sets and their sizes.                                                   *)
LEMMA Fewer ==
  ASSUME NEW T, IsFiniteSet(T), NEW S \in SUBSET T
  PROVE  /\ IsFiniteSet(S)
         /\ Cardinality(S) \in Nat /\ Cardinality(T) \in Nat
         /\ Cardinality(S) <= Cardinality(T)
BY FS_Subset, FS_CardinalityType

LEMMA OneMore ==
  ASSUME NEW T, IsFiniteSet(T), NEW x, NEW S \in SUBSET (T \cup {x})
  PROVE  /\ IsFiniteSet(S)
         /\ Cardinality(S) \in Nat /\ Cardinality(T) \in Nat
         /\ Cardinality(S) <= Cardinality(T) + 1
<1>0. Cardinality(T) \in Nat
  BY FS_CardinalityType
<1>1. IsFiniteSet(T \cup {x}) /\ Cardinality(T \cup {x}) <= Cardinality(T) + 1
  <2>1. /\ IsFiniteSet(T \cup {x})
        /\ Cardinality(T \cup {x})
             = IF x \in T THEN Cardinality(T) ELSE Cardinality(T) + 1
    BY FS_AddElement
  <2> QED
    BY <1>0, <2>1
<1>2. /\ IsFiniteSet(S) /\ Cardinality(S) <= Cardinality(T \cup {x})
      /\ Cardinality(S) \in Nat /\ Cardinality(T \cup {x}) \in Nat
  BY <1>1, Fewer
<1> QED
  BY <1>0, <1>1, <1>2

LEMMA OneLess ==
  ASSUME NEW T, IsFiniteSet(T), NEW x \in T, NEW S \in SUBSET (T \ {x})
  PROVE  /\ IsFiniteSet(S)
         /\ Cardinality(S) \in Nat /\ Cardinality(T) \in Nat
         /\ Cardinality(S) + 1 <= Cardinality(T)
<1>1. IsFiniteSet(T \ {x}) /\ Cardinality(T \ {x}) = Cardinality(T) - 1
  BY FS_RemoveElement
<1>2. /\ IsFiniteSet(S) /\ Cardinality(S) <= Cardinality(T \ {x})
      /\ Cardinality(S) \in Nat /\ Cardinality(T \ {x}) \in Nat
  BY <1>1, Fewer
<1> QED
  BY <1>1, <1>2, FS_CardinalityType

(* A task is a pair, which NoTask is not.                                  *)
LEMMA TasksArePairs == \A x \in Node \X Id : x # NoTask
<1> SUFFICES ASSUME NEW n \in Node, NEW id \in Id
             PROVE  <<n, id>> # NoTask
  OBVIOUS
<1> QED
  BY Len(<<n, id>>) = 2, Len(NoTask) = 0 DEF NoTask

(* A node that is executing something is not idle.                         *)
LEMMA WritersRun ==
  ASSUME NEW n \in Node, run[n].stage # "idle"
  PROVE  run[n] # Idle
BY DEF Idle

(* What is written is held.                                                *)
LEMMA WritersHold ==
  ASSUME TypeOK, NEW table \in Tables, NEW e \in Event
  PROVE  Writers(table, e) \subseteq Held
BY WritersRun DEF Writers, Held, Ids

(* The tasks held may become fewer, and with them those given up.          *)
LEMMA StillBounded ==
  ASSUME TypeOK, Bounded, Held' \subseteq Held, late' \subseteq late, outlived' = outlived,
         \/ current' = current
         \/ current \notin Held'
  PROVE  Bounded'
<1>1. Held' \ {current'} \in SUBSET (Held \ {current}) /\ IsFiniteSet(Held \ {current})
  BY Fewer DEF Bounded
<1>2. Cardinality(Held' \ {current'}) <= Cardinality(Held \ {current})
      /\ Cardinality(Held' \ {current'}) \in Nat /\ Cardinality(Held \ {current}) \in Nat
  BY <1>1, Fewer
<1>3. Cardinality(late') <= Cardinality(late) /\ Cardinality(late') \in Nat
      /\ Cardinality(late) \in Nat
  BY Fewer DEF Bounded
<1>4. IsFiniteSet(Held') /\ IsFiniteSet(late')
  BY Fewer DEF Bounded
<1> QED
  BY <1>2, <1>3, <1>4 DEF Bounded, TypeOK

(* An execution that was waited for is given up.                           *)
LEMMA GivenUpBounded ==
  ASSUME TypeOK, Bounded, UNCHANGED <<Held, late>>, outlived' = outlived + 1
  PROVE  Bounded'
<1>1. Cardinality(Held) <= Cardinality(Held \ {current}) + 1
      /\ Cardinality(Held) \in Nat /\ Cardinality(Held \ {current}) \in Nat
  <2>1. IsFiniteSet(Held \ {current})
    BY Fewer DEF Bounded
  <2>2. Held \in SUBSET ((Held \ {current}) \cup {current})
    OBVIOUS
  <2> QED
    BY <2>1, <2>2, OneMore
<1>2. Cardinality(Held \ {current'}) <= Cardinality(Held)
      /\ Cardinality(Held \ {current'}) \in Nat
  BY Fewer DEF Bounded
<1>3. Cardinality(late) \in Nat
  BY FS_CardinalityType DEF Bounded
<1> QED
  BY <1>1, <1>2, <1>3, Fewer DEF Bounded, TypeOK

(* An insert that may still take effect is given up.                       *)
LEMMA LateBounded ==
  ASSUME TypeOK, Bounded, Held' \subseteq Held, outlived' \in Nat, NEW left,
         late' \subseteq late \cup left, IsFiniteSet(left),
         Cardinality(left) \in Nat, outlived' = outlived + Cardinality(left),
         \/ current' = current
         \/ current \notin Held'
  PROVE  Bounded'
<1>1. Held' \ {current'} \in SUBSET (Held \ {current}) /\ IsFiniteSet(Held \ {current})
  BY Fewer DEF Bounded
<1>2. Cardinality(Held' \ {current'}) <= Cardinality(Held \ {current})
      /\ Cardinality(Held' \ {current'}) \in Nat /\ Cardinality(Held \ {current}) \in Nat
  BY <1>1, Fewer
<1>3. /\ IsFiniteSet(late \cup left)
      /\ Cardinality(late \cup left)
           = Cardinality(late) + Cardinality(left) - Cardinality(late \cap left)
  BY FS_Union DEF Bounded
<1>4. Cardinality(late \cap left) \in Nat /\ Cardinality(late) \in Nat
  BY Fewer DEF Bounded
<1>5. /\ IsFiniteSet(late') /\ Cardinality(late') \in Nat
      /\ Cardinality(late') <= Cardinality(late \cup left)
      /\ Cardinality(late \cup left) \in Nat
  BY <1>3, Fewer
<1>6. IsFiniteSet(Held')
  BY Fewer DEF Bounded
<1>7. Cardinality(late') <= Cardinality(late) + Cardinality(left)
  BY <1>3, <1>4, <1>5
<1> QED
  BY <1>2, <1>4, <1>5, <1>6, <1>7 DEF Bounded, TypeOK

(* How a settlement changes what the scheduler waits for.                  *)
LEMMA SettleTracks ==
  ASSUME Tracked, NEW n \in Node, NEW id \in Id, NEW result, result # "unseen",
         Settle(n, id, result)
  PROVE  /\ Tracked'
         /\ current' = current \/ current = <<n, id>>
<1>1. CASE current # <<n, id>>
  BY <1>1 DEF Settle, Tracked, taskVars
<1>2. CASE current = <<n, id>>
  <2>1. current # NoTask
    BY <1>2, TasksArePairs
  <2>2. verdict # "unseen"
    BY <2>1 DEF Tracked
  <2> QED
    BY <1>2, <2>2 DEF Settle, Tracked
<1> QED
  BY <1>1, <1>2

(* A node whose tasks change while the others' do not.                     *)
OnlyNode(n) == \A m \in Node \ {n} : run'[m] = run[m] /\ queued'[m] = queued[m]
NoRepeatAt(n) ==
  /\ \A i, j \in DOMAIN queued[n] : queued[n][i] = queued[n][j] => i = j
  /\ run[n] # Idle => \A i \in DOMAIN queued[n] : queued[n][i] # run[n].id

LEMMA NodeHolds ==
  ASSUME NEW n \in Node, OnlyNode(n), Ids(n)' \subseteq Ids(n)
  PROVE  Held' \subseteq Held
BY DEF OnlyNode, Held, Ids

LEMMA NodeRepeats ==
  ASSUME NoRepeat, NEW n \in Node, OnlyNode(n), NoRepeatAt(n)'
  PROVE  NoRepeat'
BY DEF OnlyNode, NoRepeat, NoRepeatAt

(* Nothing has changed on the nodes.                                       *)
LEMMA NodesAsBefore ==
  ASSUME NoRepeat, UNCHANGED nodeVars
  PROVE  Held' = Held /\ NoRepeat'
BY DEF nodeVars, Held, Ids, NoRepeat

(* An execution goes on.                                                   *)
LEMMA GoesOn ==
  ASSUME NoRepeat, NEW n \in Node, OnlyNode(n), UNCHANGED queued,
         run[n] # Idle, run'[n] # Idle, run'[n].id = run[n].id
  PROVE  Held' \subseteq Held /\ NoRepeat'
<1>1. Ids(n)' = Ids(n)
  BY DEF Ids
<1>2. NoRepeatAt(n)'
  BY DEF NoRepeat, NoRepeatAt
<1> QED
  BY <1>1, <1>2, NodeHolds, NodeRepeats

(* An execution ends.                                                      *)
LEMMA Ends ==
  ASSUME NoRepeat, NEW n \in Node, OnlyNode(n), UNCHANGED queued,
         run[n] # Idle, run'[n] = Idle
  PROVE  Held' \subseteq Held /\ NoRepeat' /\ <<n, run[n].id>> \notin Held'
<1>1. Ids(n)' \subseteq Ids(n) /\ run[n].id \notin Ids(n)'
  BY DEF Ids, NoRepeat
<1>2. NoRepeatAt(n)'
  BY DEF NoRepeat, NoRepeatAt
<1>3. <<n, run[n].id>> \notin Held'
  BY <1>1 DEF Held
<1> QED
  BY <1>1, <1>2, <1>3, NodeHolds, NodeRepeats

(* A finished execution is no longer waited for.                           *)
LEMMA FinishHeld ==
  ASSUME TypeOK, HeldInv, NEW n \in Node, run[n] # Idle, run[n].id \in Id,
         NEW result, result # "unseen", Finish(n, result),
         UNCHANGED <<late, queued, outlived>>
  PROVE  HeldInv'
<1>1. OnlyNode(n) /\ run'[n] = Idle
  BY DEF Finish, OnlyNode, TypeOK
<1>2. Held' \subseteq Held /\ NoRepeat' /\ <<n, run[n].id>> \notin Held'
  BY <1>1, Ends DEF HeldInv
<1>3. Tracked' /\ (current' = current \/ current = <<n, run[n].id>>)
  BY SettleTracks DEF Finish, HeldInv
<1>4. Bounded'
  BY <1>2, <1>3, StillBounded DEF HeldInv
<1> QED
  BY <1>2, <1>3, <1>4 DEF HeldInv

(* Nobody holds anything initially.                                        *)
LEMMA CountInit == Init => CountInv
<1> SUFFICES ASSUME Init
             PROVE  CountInv
  OBVIOUS
<1>1. Held = {} /\ late = {}
  BY DEF Init, Held, Ids
<1>2. NoRepeat /\ Tracked
  BY DEF Init, NoRepeat, Tracked
<1>3. Held \ {current} = {} /\ IsFiniteSet({}) /\ Cardinality({}) = 0
  BY <1>1, FS_EmptySet
<1>4. Bounded
  BY <1>1, <1>3 DEF Bounded, Init
<1>5. ASSUME NEW table \in Tables, NEW e \in Event
      PROVE  rows[table][e] = 0 /\ Writers(table, e) = {} /\ Lates(table, e) = {}
  BY DEF Init, Writers, Lates, Idle
<1>6. ASSUME NEW table \in Tables, NEW e \in Event
      PROVE  Cardinality(Writers(table, e)) = 0 /\ Cardinality(Lates(table, e)) = 0
  BY <1>3, <1>5
<1>7. Counted
  BY <1>5, <1>6 DEF Counted, Init
<1> QED
  BY <1>2, <1>4, <1>7 DEF CountInv, HeldInv

(* Every step keeps the count of what is held.                             *)
LEMMA HeldStep == TypeOK /\ HeldInv /\ [Next]_vars => HeldInv'
<1> SUFFICES ASSUME TypeOK, HeldInv, [Next]_vars
             PROVE  HeldInv'
  OBVIOUS
<1> USE DEF schedVars, taskVars
<1>1. ASSUME UNCHANGED <<nodeVars, current, outlived>>, late' \subseteq late, Tracked'
      PROVE  HeldInv'
  BY <1>1, NodesAsBefore, StillBounded DEF HeldInv
<1>2. CASE LoadSlice \/ Refuse \/ NextDay \/ \E insert \in late : Lands(insert) \/ Vanishes(insert)
  BY <1>1, <1>2 DEF LoadSlice, Refuse, NextDay, Lands, Vanishes, Tracked, HeldInv
<1>3. ASSUME NEW n \in Node, Deliver(n)
      PROVE  HeldInv'
  <2>1. pending # NoId /\ current = NoTask /\ pending' = NoId /\ current' = <<n, pending>>
    BY <1>3 DEF Deliver, Tracked, HeldInv
  <2>2. pending \in Id
    BY <2>1 DEF TypeOK
  <2>3. Tracked'
    BY <1>3, <2>1 DEF Deliver, Tracked, HeldInv
  <2>4. Held' \subseteq Held \cup {<<n, pending>>} /\ NoRepeat'
    <3>1. CASE pending \in Ids(n)
      BY <1>3, <3>1, NodesAsBefore DEF Deliver, nodeVars, HeldInv
    <3>2. CASE pending \notin Ids(n)
      <4>1. /\ queued'[n] = Append(queued[n], pending) /\ run'[n] = run[n]
            /\ OnlyNode(n) /\ queued[n] \in Seq(Id)
        BY <1>3, <3>2 DEF Deliver, OnlyNode, TypeOK
      <4>2. /\ DOMAIN queued'[n] = DOMAIN queued[n] \cup {Len(queued[n]) + 1}
            /\ queued'[n][Len(queued[n]) + 1] = pending
            /\ \A i \in DOMAIN queued[n] : queued'[n][i] = queued[n][i]
        BY <2>2, <4>1, AppendProperties
      <4>3. NoRepeatAt(n)'
        <5>1. \A i \in DOMAIN queued[n] : queued[n][i] # pending
          BY <3>2 DEF Ids
        <5>2. run[n] # Idle => run[n].id # pending
          BY <3>2 DEF Ids
        <5> QED
          BY <4>1, <4>2, <5>1, <5>2 DEF NoRepeatAt, HeldInv, NoRepeat
      <4>4. Ids(n)' \subseteq Ids(n) \cup {pending}
        BY <4>1, <4>2 DEF Ids
      <4>5. Held' \subseteq Held \cup {<<n, pending>>}
        <5>1. ASSUME NEW m \in Node, NEW id \in Id, id \in Ids(m)'
              PROVE  <<m, id>> \in Held \cup {<<n, pending>>}
          <6>1. CASE m = n
            BY <4>4, <5>1, <6>1 DEF Held
          <6>2. CASE m # n
            BY <4>1, <5>1, <6>2 DEF Held, Ids, OnlyNode
          <6> QED
            BY <6>1, <6>2
        <5> QED
          BY <5>1 DEF Held
      <4> QED
        BY <4>1, <4>3, <4>5, NodeRepeats DEF HeldInv
    <3> QED
      BY <3>1, <3>2
  <2>5. Bounded'
    <3>1. Held' \ {current'} \in SUBSET (Held \ {current})
      BY <2>1, <2>4, TasksArePairs DEF Held
    <3>2. IsFiniteSet(Held') /\ IsFiniteSet(Held \ {current})
      BY <2>4, OneMore, Fewer DEF HeldInv, Bounded
    <3>3. /\ Cardinality(Held' \ {current'}) <= Cardinality(Held \ {current})
          /\ Cardinality(Held' \ {current'}) \in Nat /\ Cardinality(Held \ {current}) \in Nat
      BY <3>1, <3>2, Fewer
    <3>4. UNCHANGED <<late, outlived>> /\ Cardinality(late) \in Nat
      BY <1>3, FS_CardinalityType DEF Deliver, HeldInv, Bounded
    <3> QED
      BY <3>2, <3>3, <3>4 DEF HeldInv, Bounded, TypeOK
  <2> QED
    BY <2>3, <2>4, <2>5 DEF HeldInv
<1>4. ASSUME StreamLost
      PROVE  HeldInv'
  <2>1. current[1] \in Node /\ current[2] \in Id /\ Settle(current[1], current[2], "failed")
    BY <1>4 DEF StreamLost, TypeOK
  <2>2. Tracked'
    BY <2>1, SettleTracks DEF HeldInv
  <2>3. Held' = Held /\ NoRepeat' /\ UNCHANGED late /\ outlived' = outlived + 1
    BY <1>4, NodesAsBefore DEF StreamLost, HeldInv
  <2> QED
    BY <2>2, <2>3, GivenUpBounded DEF HeldInv
<1>5. ASSUME Restart
      PROVE  HeldInv'
  <2>1. Held' = Held /\ NoRepeat' /\ Tracked' /\ UNCHANGED late
    BY <1>5, NodesAsBefore DEF Restart, HeldInv, Tracked
  <2>2. CASE current = NoTask
    BY <1>5, <2>1, <2>2, StillBounded DEF Restart, HeldInv
  <2>3. CASE current # NoTask
    BY <1>5, <2>1, <2>3, GivenUpBounded DEF Restart, HeldInv
  <2> QED
    BY <2>2, <2>3
<1>6. ASSUME NEW n \in Node, Start(n)
      PROVE  HeldInv'
  <2>1. /\ run[n] = Idle /\ run'[n] = [stage |-> "claim", id |-> Head(queued[n])]
        /\ queued'[n] = Tail(queued[n]) /\ OnlyNode(n)
        /\ queued[n] \in Seq(Id) /\ queued[n] # <<>>
    BY <1>6 DEF Start, OnlyNode, TypeOK
  <2>2. /\ run'[n] # Idle /\ run'[n].id = queued[n][1] /\ 1 \in DOMAIN queued[n]
        /\ \A i \in DOMAIN queued'[n] : i + 1 \in DOMAIN queued[n] /\ i \in Nat \ {0}
                                        /\ queued'[n][i] = queued[n][i + 1]
    <3>1. [stage |-> "claim", id |-> Head(queued[n])].stage # Idle.stage
      BY DEF Idle
    <3> QED
      BY <2>1, <3>1, HeadTailProperties
  <2>3. Ids(n)' \subseteq Ids(n)
    BY <2>1, <2>2 DEF Ids
  <2>4. NoRepeatAt(n)'
    BY <2>2 DEF NoRepeatAt, HeldInv, NoRepeat
  <2>5. UNCHANGED <<pending, current, verdict, late, outlived>>
    BY <1>6 DEF Start
  <2>6. Held' \subseteq Held /\ NoRepeat'
    BY <2>1, <2>3, <2>4, NodeHolds, NodeRepeats DEF HeldInv
  <2> QED
    BY <2>5, <2>6, StillBounded DEF HeldInv, Tracked
<1>7. ASSUME NEW n \in Node, \/ Compute(n) \/ Look(n)
                             \/ Claim(n) /\ run[n].id \notin keys
      PROVE  HeldInv'
  <2>1. run[n] # Idle /\ run[n] \in Claimed
    BY <1>7, RunKinds, WritersRun DEF Compute, Look, Claim
  <2>2. /\ run'[n].id = run[n].id /\ run'[n].stage # "idle"
        /\ OnlyNode(n) /\ UNCHANGED queued
    <3>1. CASE Look(n)
      BY <2>1, <3>1 DEF Look, OnlyNode, TypeOK, Claimed
    <3>2. CASE Compute(n)
      BY <2>1, <3>2 DEF Compute, OnlyNode, TypeOK, Claimed
    <3>3. CASE Claim(n) /\ run[n].id \notin keys
      BY <2>1, <3>3 DEF Claim, OnlyNode, TypeOK, Claimed
    <3> QED
      BY <1>7, <3>1, <3>2, <3>3
  <2>3. Held' \subseteq Held /\ NoRepeat'
    BY <2>1, <2>2, GoesOn DEF HeldInv, Idle
  <2>4. UNCHANGED <<pending, current, verdict, late, outlived>>
    BY <1>7 DEF Compute, Look, Claim
  <2> QED
    BY <2>3, <2>4, StillBounded DEF HeldInv, Tracked
<1>8. ASSUME NEW n \in Node, \/ Settled(n) \/ Abort(n)
                             \/ Claim(n) /\ run[n].id \in keys
      PROVE  HeldInv'
  <2>1. run[n] # Idle /\ run[n].id \in Id
    BY <1>8, RunKinds, WritersRun DEF Settled, Abort, Claim, Claimed, Writing
  <2>2. PICK result \in {"failed", "completed", "replayed"} : Finish(n, result)
    BY <1>8 DEF Settled, Abort, Claim
  <2>3. UNCHANGED <<late, queued, outlived>>
    BY <1>8 DEF Settled, Abort, Claim
  <2> QED
    BY <2>1, <2>2, <2>3, FinishHeld
<1>9. ASSUME NEW n \in Node, NEW table \in Tables, NEW outcome \in Outcome,
             Insert(n, table, outcome)
      PROVE  HeldInv'
  <2> DEFINE insert == [id |-> run[n].id, table |-> table, events |-> run[n].todo[table]]
  <2>1. run[n] # Idle /\ run[n] \in Writing
    BY <1>9, RunKinds, WritersRun DEF Insert, Inserted
  <2>2. /\ run'[n].id = run[n].id /\ run'[n].stage # "idle"
        /\ OnlyNode(n) /\ UNCHANGED queued
    BY <1>9, <2>1 DEF Insert, Inserted, OnlyNode, TypeOK, Writing
  <2>3. Held' \subseteq Held /\ NoRepeat'
    BY <2>1, <2>2, GoesOn DEF HeldInv, Idle
  <2>4. UNCHANGED <<pending, current, verdict>> /\ Tracked'
    BY <1>9 DEF Insert, Inserted, HeldInv, Tracked
  <2>5. \/ UNCHANGED <<late, outlived>>
        \/ late' = late \cup {insert} /\ outlived' = outlived + 1
    BY <1>9 DEF Insert, Inserted
  <2> HIDE DEF insert
  <2>6. IsFiniteSet({insert}) /\ Cardinality({insert}) = 1
    BY FS_Singleton
  <2>7. Bounded'
    <3>1. CASE UNCHANGED <<late, outlived>>
      BY <2>3, <2>4, <3>1, StillBounded DEF HeldInv
    <3>2. CASE late' = late \cup {insert} /\ outlived' = outlived + 1
      <4>1. outlived' \in Nat /\ outlived' = outlived + Cardinality({insert})
        BY <2>6, <3>2 DEF TypeOK
      <4> QED
        BY <2>3, <2>4, <2>6, <3>2, <4>1, LateBounded DEF HeldInv
    <3> QED
      BY <2>5, <3>1, <3>2
  <2> QED
    BY <2>3, <2>4, <2>7 DEF HeldInv
<1>10. ASSUME NEW n \in Node, Crash(n)
       PROVE  HeldInv'
  <2>1. OnlyNode(n) /\ run'[n] = Idle /\ queued'[n] = <<>>
    BY <1>10 DEF Crash, OnlyNode, TypeOK
  <2>2. /\ Held' \subseteq Held /\ NoRepeat'
        /\ \A x \in Node \X Id : x[1] = n => x \notin Held'
    <3>1. Ids(n)' = {}
      BY <2>1 DEF Ids
    <3>2. NoRepeatAt(n)'
      BY <2>1 DEF NoRepeatAt
    <3> QED
      BY <2>1, <3>1, <3>2, NodeHolds, NodeRepeats DEF HeldInv, Held
  <2>3. /\ Tracked'
        /\ current' = current \/ (current \in Node \X Id /\ current[1] = n)
    <3>1. CASE current # NoTask /\ current[1] = n
      <4>1. current \in Node \X Id /\ current[2] \in Id /\ Settle(n, current[2], "failed")
        BY <1>10, <3>1 DEF Crash, TypeOK
      <4> QED
        BY <3>1, <4>1, SettleTracks DEF HeldInv
    <3>2. CASE ~(current # NoTask /\ current[1] = n)
      BY <1>10, <3>2 DEF Crash, HeldInv, Tracked
    <3> QED
      BY <3>1, <3>2
  <2>4. current' = current \/ current \notin Held'
    BY <2>2, <2>3
  <2>5. Bounded'
    <3>1. CASE run[n] # Idle /\ run[n].stage = "write"
      <4>1. PICK under : /\ late' = late \cup Left(n, under)
                         /\ outlived' = outlived + Cardinality(Left(n, under))
                         /\ IsFiniteSet(Left(n, under))
                         /\ Cardinality(Left(n, under)) \in Nat
        BY <1>10, <3>1, CrashLate
      <4>2. outlived' \in Nat
        BY <4>1 DEF TypeOK
      <4> QED
        BY <2>2, <2>4, <4>1, <4>2, LateBounded DEF HeldInv
    <3>2. CASE ~(run[n] # Idle /\ run[n].stage = "write")
      <4>1. UNCHANGED <<late, outlived>>
        BY <1>10, <3>2 DEF Crash
      <4> QED
        BY <2>2, <2>4, <4>1, StillBounded DEF HeldInv
    <3> QED
      BY <3>1, <3>2
  <2> QED
    BY <2>2, <2>3, <2>5 DEF HeldInv
<1>11. CASE UNCHANGED vars
  BY <1>1, <1>11 DEF vars, Tracked, HeldInv
<1> QED
  BY <1>2, <1>3, <1>4, <1>5, <1>6, <1>7, <1>8, <1>9, <1>10, <1>11 DEF Next

LEMMA RowsAreNumbers ==
  ASSUME TypeOK, NEW table \in Tables, NEW e \in Event
  PROVE  rows[table][e] \in Nat
BY DEF TypeOK

(* An execution starts, ends, or moves on without inserting.               *)
LEMMA EndsOrMoves ==
  ASSUME TypeOK, NEW n \in Node,
         Start(n) \/ Claim(n) \/ Compute(n) \/ Settled(n) \/ Abort(n)
  PROVE  run'[n].stage # "write" /\ \A m \in Node \ {n} : run'[m] = run[m]
<1>1. CASE Start(n)
  BY <1>1 DEF Start, TypeOK
<1>2. CASE Claim(n)
  <2>1. run[n] \in Claimed
    BY <1>2, RunKinds DEF Claim
  <2>2. run' = [run EXCEPT ![n] = Idle] \/ run' = [run EXCEPT ![n].stage = "compute"]
    BY <1>2 DEF Claim, Finish
  <2> QED
    BY <2>1, <2>2 DEF Claimed, Idle, TypeOK
<1>3. CASE Compute(n)
  <2>1. run[n] \in Claimed
    BY <1>3, RunKinds DEF Compute
  <2> QED
    BY <1>3, <2>1 DEF Compute, Claimed, TypeOK
<1>4. CASE Settled(n) \/ Abort(n)
  BY <1>4 DEF Settled, Abort, Finish, Idle, TypeOK
<1> QED
  BY <1>1, <1>2, <1>3, <1>4

(* An event of a table, through a step in which no execution starts to     *)
(* insert it: it is stored at the expense of an execution or of a late     *)
(* insert, or an execution becomes a late insert.                          *)
CountedAt(table, e) ==
  rows[table][e] + Cardinality(Writers(table, e)) + Cardinality(Lates(table, e))
    <= 1 + outlived

LEMMA Balance ==
  ASSUME TypeOK, HeldInv, NEW table \in Tables, NEW e \in Event, CountedAt(table, e),
         outlived' \in Nat, outlived <= outlived',
         \/ /\ rows'[table][e] = rows[table][e]
            /\ Writers(table, e)' \subseteq Writers(table, e)
            /\ Lates(table, e)' \subseteq Lates(table, e)
         \/ \E x \in Writers(table, e) :
              /\ rows'[table][e] = rows[table][e] + 1
              /\ Writers(table, e)' \subseteq Writers(table, e) \ {x}
              /\ Lates(table, e)' \subseteq Lates(table, e)
         \/ \E x \in Writers(table, e) : \E insert :
              /\ rows'[table][e] = rows[table][e]
              /\ Writers(table, e)' \subseteq Writers(table, e) \ {x}
              /\ Lates(table, e)' \subseteq Lates(table, e) \cup {insert}
         \/ \E insert \in Lates(table, e) :
              /\ rows'[table][e] = rows[table][e] + 1
              /\ Writers(table, e)' \subseteq Writers(table, e)
              /\ Lates(table, e)' \subseteq Lates(table, e) \ {insert}
  PROVE  CountedAt(table, e)'
<1> DEFINE W == Writers(table, e)
           L == Lates(table, e)
<1>1. IsFiniteSet(W) /\ IsFiniteSet(L)
  BY WritersHold, Fewer DEF HeldInv, Bounded, Lates
<1>2. Cardinality(W) \in Nat /\ Cardinality(L) \in Nat /\ rows[table][e] \in Nat /\ outlived \in Nat
  BY <1>1, FS_CardinalityType DEF TypeOK
<1>3. rows[table][e] + Cardinality(W) + Cardinality(L) <= 1 + outlived
  BY DEF CountedAt
<1>4. SUFFICES rows'[table][e] + Cardinality(W') + Cardinality(L') <= 1 + outlived'
  BY DEF CountedAt
<1> HIDE DEF W, L
<1>5. ASSUME NEW S, NEW T \in SUBSET S, IsFiniteSet(S)
      PROVE  Cardinality(T) \in Nat /\ Cardinality(T) <= Cardinality(S)
  BY <1>5, Fewer
<1>6. CASE rows'[table][e] = rows[table][e] /\ W' \subseteq W /\ L' \subseteq L
  BY <1>1, <1>2, <1>3, <1>5, <1>6
<1>7. ASSUME NEW x \in W, rows'[table][e] = rows[table][e] + 1, W' \subseteq W \ {x}, L' \subseteq L
      PROVE  rows'[table][e] + Cardinality(W') + Cardinality(L') <= 1 + outlived'
  <2>1. Cardinality(W') \in Nat /\ Cardinality(W') + 1 <= Cardinality(W)
    BY <1>1, <1>7, OneLess
  <2>2. Cardinality(L') \in Nat /\ Cardinality(L') <= Cardinality(L)
    BY <1>1, <1>5, <1>7
  <2> QED
    BY <1>2, <1>3, <1>7, <2>1, <2>2
<1>8. ASSUME NEW x \in W, NEW insert, rows'[table][e] = rows[table][e],
             W' \subseteq W \ {x}, L' \subseteq L \cup {insert}
      PROVE  rows'[table][e] + Cardinality(W') + Cardinality(L') <= 1 + outlived'
  <2>1. Cardinality(W') \in Nat /\ Cardinality(W') + 1 <= Cardinality(W)
    BY <1>1, <1>8, OneLess
  <2>2. Cardinality(L') \in Nat /\ Cardinality(L') <= Cardinality(L) + 1
    BY <1>1, <1>8, OneMore
  <2> QED
    BY <1>2, <1>3, <1>8, <2>1, <2>2
<1>9. ASSUME NEW insert \in L, rows'[table][e] = rows[table][e] + 1,
             W' \subseteq W, L' \subseteq L \ {insert}
      PROVE  rows'[table][e] + Cardinality(W') + Cardinality(L') <= 1 + outlived'
  <2>1. Cardinality(L') \in Nat /\ Cardinality(L') + 1 <= Cardinality(L)
    BY <1>1, <1>9, OneLess
  <2>2. Cardinality(W') \in Nat /\ Cardinality(W') <= Cardinality(W)
    BY <1>1, <1>5, <1>9
  <2> QED
    BY <1>2, <1>3, <1>9, <2>1, <2>2
<1> QED
  BY <1>6, <1>7, <1>8, <1>9 DEF W, L

(* All that may still insert, with what is in a table when an execution    *)
(* looks, are as many as were given up and the one that is waited for.     *)
LEMMA LookCounts ==
  ASSUME TypeOK, HeldInv', TypeOK', NEW table \in Tables, NEW e \in Event, rows'[table][e] = 0
  PROVE  CountedAt(table, e)'
<1>1. /\ IsFiniteSet(Held') /\ IsFiniteSet(late')
      /\ Cardinality(Held' \ {current'}) + Cardinality(late') <= outlived'
  BY DEF HeldInv, Bounded
<1>2. /\ Cardinality(Held') \in Nat /\ Cardinality(Held' \ {current'}) \in Nat
      /\ Cardinality(Held') <= Cardinality(Held' \ {current'}) + 1
  <2>1. IsFiniteSet(Held' \ {current'})
    BY <1>1, Fewer
  <2>2. Held' \in SUBSET ((Held' \ {current'}) \cup {current'})
    OBVIOUS
  <2> QED
    BY <2>1, <2>2, OneMore
<1>3. Writers(table, e)' \subseteq Held'
  BY DEF Writers, Held, Ids, Idle, TypeOK
<1>4. Cardinality(Writers(table, e)') \in Nat /\ Cardinality(Writers(table, e)') <= Cardinality(Held')
  BY <1>1, <1>3, Fewer
<1>5. /\ Cardinality(Lates(table, e)') \in Nat /\ Cardinality(late') \in Nat
      /\ Cardinality(Lates(table, e)') <= Cardinality(late')
  <2>1. Lates(table, e)' \in SUBSET late'
    BY DEF Lates
  <2> QED
    BY <1>1, <2>1, Fewer
<1>6. outlived' \in Nat
  BY DEF TypeOK
<1> QED
  BY <1>1, <1>2, <1>4, <1>5, <1>6 DEF CountedAt

(* The executions that insert an event, when one node's changes.           *)
LEMMA WritersOf ==
  ASSUME NEW n \in Node, \A m \in Node \ {n} : run'[m] = run[m],
         NEW table \in Tables, NEW e \in Event
  PROVE  /\ run'[n].stage # "write" \/ e \notin run'[n].todo[table] =>
              Writers(table, e)' \subseteq Writers(table, e) \ {<<n, run[n].id>>}
         /\ (run[n].id = run'[n].id /\ run[n].stage = "write"
               /\ run'[n].todo[table] \subseteq run[n].todo[table]) =>
              Writers(table, e)' \subseteq Writers(table, e)
<1>1. ASSUME NEW m \in Node, NEW id \in Id, m # n, <<m, id>> \in Writers(table, e)'
      PROVE  <<m, id>> \in Writers(table, e) \ {<<n, run[n].id>>}
  BY <1>1 DEF Writers
<1>2. ASSUME NEW id \in Id, <<n, id>> \in Writers(table, e)'
      PROVE  run'[n].stage = "write" /\ e \in run'[n].todo[table] /\ id = run'[n].id
  BY <1>2 DEF Writers
<1>3. ASSUME NEW id \in Id, run[n].stage = "write", e \in run[n].todo[table], id = run[n].id
      PROVE  <<n, id>> \in Writers(table, e)
  BY <1>3 DEF Writers
<1>4. \A x \in Writers(table, e)' : \E m \in Node, id \in Id : x = <<m, id>>
  BY DEF Writers
<1> QED
  BY <1>1, <1>2, <1>3, <1>4

(* Every step keeps the count of what may be stored.                       *)
LEMMA CountStep == TypeOK /\ TypeOK' /\ CountInv /\ [Next]_vars => Counted'
<1> SUFFICES ASSUME TypeOK, TypeOK', CountInv, [Next]_vars,
                    NEW table \in Tables, NEW e \in Event
             PROVE  CountedAt(table, e)'
  BY DEF Counted, CountedAt
<1>0. /\ HeldInv /\ HeldInv' /\ CountedAt(table, e)
      /\ outlived' \in Nat /\ outlived \in Nat
  BY HeldStep DEF CountInv, Counted, CountedAt, TypeOK
<1> USE DEF nodeVars, schedVars, taskVars
<1>1. ASSUME UNCHANGED <<rows, run>>, late' \subseteq late, outlived <= outlived'
      PROVE  CountedAt(table, e)'
  BY <1>0, <1>1, Balance DEF Writers, Lates
<1>2. CASE LoadSlice \/ Refuse \/ StreamLost \/ Restart \/ NextDay \/ UNCHANGED vars
  BY <1>0, <1>1, <1>2 DEF LoadSlice, Refuse, StreamLost, Restart, NextDay, vars
<1>3. ASSUME NEW n \in Node, Deliver(n)
      PROVE  CountedAt(table, e)'
  BY <1>0, <1>1, <1>3 DEF Deliver
<1>4. ASSUME NEW insert \in late, Vanishes(insert)
      PROVE  CountedAt(table, e)'
  BY <1>0, <1>1, <1>4 DEF Vanishes
<1>5. ASSUME NEW n \in Node, Start(n) \/ Claim(n) \/ Compute(n) \/ Settled(n) \/ Abort(n)
      PROVE  CountedAt(table, e)'
  <2>1. run'[n].stage # "write" /\ \A m \in Node \ {n} : run'[m] = run[m]
    BY <1>5, EndsOrMoves
  <2>2. Writers(table, e)' \subseteq Writers(table, e)
    BY <2>1, WritersOf
  <2>3. UNCHANGED <<rows, late, outlived>>
    BY <1>5 DEF Start, Claim, Compute, Settled, Abort
  <2> QED
    BY <1>0, <2>2, <2>3, Balance DEF Lates
<1>6. ASSUME NEW n \in Node, Look(n)
      PROVE  CountedAt(table, e)'
  <2>1. /\ run'[n].todo = [t \in Tables |-> Due(t) \ Stored(t)]
        /\ UNCHANGED <<rows, late, outlived>>
        /\ \A m \in Node \ {n} : run'[m] = run[m]
    BY <1>6 DEF Look, TypeOK
  <2>2. CASE rows[table][e] = 0
    BY <1>0, <2>1, <2>2, LookCounts
  <2>3. CASE rows[table][e] # 0
    <3>1. e \notin run'[n].todo[table]
      BY <2>1, <2>3 DEF Stored, TypeOK
    <3>2. Writers(table, e)' \subseteq Writers(table, e)
      BY <2>1, <3>1, WritersOf
    <3> QED
      BY <1>0, <2>1, <3>2, Balance DEF Lates
  <2> QED
    BY <2>2, <2>3
<1>7. ASSUME NEW n \in Node, NEW other \in Tables, NEW outcome \in Outcome,
             Insert(n, other, outcome)
      PROVE  CountedAt(table, e)'
  <2> DEFINE events == run[n].todo[other]
             insert == [id |-> run[n].id, table |-> other, events |-> events]
             r == [run[n] EXCEPT !.todo[other] = {}, !.failed = @ \/ outcome # "acknowledged"]
  <2>1. run[n] \in Writing /\ run[n].stage = "write"
    BY <1>7, RunKinds DEF Insert, Inserted
  <2>2. run'[n] = r /\ \A m \in Node \ {n} : run'[m] = run[m]
    BY <1>7 DEF Insert, TypeOK
  <2>3. /\ r.todo[other] = {} /\ r.id = run[n].id /\ r.stage = "write"
        /\ \A t \in Tables \ {other} : r.todo[t] = run[n].todo[t]
        /\ events \in SUBSET Event /\ run[n].id \in Id
    BY <2>1 DEF Writing
  <2>4. \/ rows' = Added(other, events) /\ UNCHANGED <<late, outlived>>
        \/ rows' = rows /\ UNCHANGED <<late, outlived>>
        \/ rows' = rows /\ late' = late \cup {insert} /\ outlived' = outlived + 1
    BY <1>7 DEF Insert, Inserted, Outcome
  <2>5. outlived <= outlived'
    BY <1>0, <2>4
  <2>6. insert.table = other /\ insert.events = events
    OBVIOUS
  <2> HIDE DEF r, insert
  <2>7. CASE table = other /\ e \in events
    <3>1. <<n, run[n].id>> \in Writers(table, e)
      BY <2>1, <2>3, <2>7 DEF Writers
    <3>2. Writers(table, e)' \subseteq Writers(table, e) \ {<<n, run[n].id>>}
      BY <2>2, <2>3, <2>7, WritersOf
    <3>3. /\ Lates(table, e)' \subseteq Lates(table, e) \cup {insert}
          /\ UNCHANGED late => Lates(table, e)' \subseteq Lates(table, e)
      BY <2>4 DEF Lates
    <3>4. rows' = Added(other, events) => rows'[table][e] = rows[table][e] + 1
      BY <2>3, <2>7, AddedType
    <3> QED
      BY <1>0, <2>4, <2>5, <3>1, <3>2, <3>3, <3>4, Balance
  <2>8. CASE ~(table = other /\ e \in events)
    <3>1. Writers(table, e)' \subseteq Writers(table, e)
      <4>1. run'[n].todo[table] \subseteq run[n].todo[table]
        BY <2>2, <2>3
      <4> QED
        BY <2>1, <2>2, <2>3, <4>1, WritersOf
    <3>2. Lates(table, e)' \subseteq Lates(table, e)
      BY <2>4, <2>6, <2>8 DEF Lates
    <3>3. rows'[table][e] = rows[table][e]
      <4>1. Added(other, events)[table][e] = rows[table][e]
        BY <2>3, <2>8, AddedType, RowsAreNumbers
      <4> QED
        BY <2>4, <4>1
    <3> QED
      BY <1>0, <2>5, <3>1, <3>2, <3>3, Balance
  <2> QED
    BY <2>7, <2>8
<1>8. ASSUME NEW insert \in late, Lands(insert)
      PROVE  CountedAt(table, e)'
  <2>1. insert.table \in Tables /\ insert.events \in SUBSET Event
    BY DEF TypeOK
  <2>2. /\ rows' = Added(insert.table, insert.events) /\ late' = late \ {insert}
        /\ UNCHANGED <<run, outlived>>
    BY <1>8 DEF Lands
  <2>3. Writers(table, e)' \subseteq Writers(table, e)
    BY <2>2 DEF Writers
  <2>4. CASE insert.table = table /\ e \in insert.events
    <3>1. rows'[table][e] = rows[table][e] + 1
      BY <2>1, <2>2, <2>4, AddedType
    <3>2. insert \in Lates(table, e) /\ Lates(table, e)' \subseteq Lates(table, e) \ {insert}
      BY <2>2, <2>4 DEF Lates
    <3> QED
      BY <1>0, <2>2, <2>3, <3>1, <3>2, Balance
  <2>5. CASE ~(insert.table = table /\ e \in insert.events)
    <3>1. rows'[table][e] = rows[table][e]
      BY <2>1, <2>2, <2>5, AddedType, RowsAreNumbers
    <3>2. Lates(table, e)' \subseteq Lates(table, e)
      BY <2>2 DEF Lates
    <3> QED
      BY <1>0, <2>2, <2>3, <3>1, <3>2, Balance
  <2> QED
    BY <2>4, <2>5
<1>9. ASSUME NEW n \in Node, Crash(n)
      PROVE  CountedAt(table, e)'
  <2>1. run'[n] = Idle /\ \A m \in Node \ {n} : run'[m] = run[m]
    BY <1>9 DEF Crash, TypeOK
  <2>2. Writers(table, e)' \subseteq Writers(table, e) \ {<<n, run[n].id>>}
    BY <2>1, WritersOf DEF Idle
  <2>3. CASE ~(run[n] # Idle /\ run[n].stage = "write")
    <3>1. UNCHANGED <<rows, late, outlived>>
      BY <1>9, <2>3 DEF Crash
    <3> QED
      BY <1>0, <2>2, <3>1, Balance DEF Lates
  <2>4. CASE run[n] # Idle /\ run[n].stage = "write"
    <3> DEFINE insert == [id |-> run[n].id, table |-> table, events |-> run[n].todo[table]]
    <3>1. run[n] \in Writing
      BY <2>4, RunKinds
    <3>2. PICK stored \in SUBSET Tables : \E under \in SUBSET (Tables \ stored) :
            /\ rows' = [t \in Tables |->
                         IF t \in stored THEN Added(t, run[n].todo[t])[t] ELSE rows[t]]
            /\ late' = late \cup Left(n, under)
            /\ outlived' = outlived + Cardinality(Left(n, under))
            /\ Cardinality(Left(n, under)) \in Nat
      BY <1>9, <2>4, CrashLate
    <3>3. PICK under \in SUBSET (Tables \ stored) :
            /\ rows' = [t \in Tables |->
                         IF t \in stored THEN Added(t, run[n].todo[t])[t] ELSE rows[t]]
            /\ late' = late \cup Left(n, under)
            /\ outlived' = outlived + Cardinality(Left(n, under))
            /\ Cardinality(Left(n, under)) \in Nat
      BY <3>2
    <3>4. outlived <= outlived'
      BY <1>0, <3>3
    <3>5. run[n].todo[table] \in SUBSET Event /\ run[n].id \in Id
      BY <3>1 DEF Writing
    <3>6. /\ e \in run[n].todo[table] => Added(table, run[n].todo[table])[table][e]
                                             = rows[table][e] + 1
          /\ e \notin run[n].todo[table] => Added(table, run[n].todo[table])[table][e]
                                             = rows[table][e]
      BY <3>5, AddedType, RowsAreNumbers
    <3>7. /\ rows'[table][e] = IF table \in stored
                               THEN Added(table, run[n].todo[table])[table][e]
                               ELSE rows[table][e]
      BY <3>3
    <3>8. \A x \in Left(n, under) : x.table = table => x = insert /\ table \in under
                                                      /\ x.events = run[n].todo[table]
      BY DEF Left
    <3> HIDE DEF insert
    <3>9. /\ Lates(table, e)' \subseteq Lates(table, e) \cup {insert}
          /\ table \in stored \/ e \notin run[n].todo[table] =>
               Lates(table, e)' \subseteq Lates(table, e)
      BY <3>3, <3>8 DEF Lates
    <3>10. CASE e \in run[n].todo[table]
      <4>1. <<n, run[n].id>> \in Writers(table, e)
        BY <2>4, <3>5, <3>10 DEF Writers
      <4> QED
        BY <1>0, <2>2, <3>4, <3>6, <3>7, <3>9, <3>10, <4>1, Balance
    <3>11. CASE e \notin run[n].todo[table]
      BY <1>0, <2>2, <3>4, <3>6, <3>7, <3>9, <3>11, Balance
    <3> QED
      BY <3>10, <3>11
  <2> QED
    BY <2>3, <2>4
<1> QED
  BY <1>2, <1>3, <1>4, <1>5, <1>6, <1>7, <1>8, <1>9 DEF Next

(* No event is in a table more than once more than executions and inserts  *)
(* were given up while they went on: whatever inserts fail, however often  *)
(* the slice is retried, delivered again, refused or reloaded, and whatever*)
(* nodes die.                                                              *)
THEOREM NeverTwice == Spec => []NoDuplicateRows
<1>1. TypeOK /\ CountInv => NoDuplicateRows
  <2> SUFFICES ASSUME TypeOK, CountInv, NEW table \in Tables, NEW e \in Event
               PROVE  rows[table][e] <= 1 + outlived
    BY DEF NoDuplicateRows
  <2>1. IsFiniteSet(Writers(table, e)) /\ IsFiniteSet(Lates(table, e))
    BY WritersHold, Fewer DEF CountInv, HeldInv, Bounded, Lates
  <2>2. Cardinality(Writers(table, e)) \in Nat /\ Cardinality(Lates(table, e)) \in Nat
    BY <2>1, FS_CardinalityType
  <2>3. rows[table][e] \in Nat /\ outlived \in Nat
    BY RowsAreNumbers DEF TypeOK
  <2>4. rows[table][e] + Cardinality(Writers(table, e)) + Cardinality(Lates(table, e))
          <= 1 + outlived
    BY DEF CountInv, Counted
  <2> QED
    BY <2>2, <2>3, <2>4
<1>2. TypeOK /\ TypeOK' /\ CountInv /\ [Next]_vars => CountInv'
  BY HeldStep, CountStep DEF CountInv
<1> QED
  BY TypeInit, TypeStep, CountInit, <1>1, <1>2, PTL DEF Spec

-----------------------------------------------------------------------------
(* The same for completion: what an execution without a failure has left to*)
(* insert is all that is missing, and rows are never removed.              *)

TodoIsAll ==
  \A n \in Node : run[n].stage = "write" /\ ~run[n].failed =>
    \A table \in Tables : Due(table) \ run[n].todo[table] \subseteq Stored(table)

DoneInv == TodoIsAll /\ CompletedIsStored

(* Nothing is taken out of a table.                                        *)
LEMMA StoredStays ==
  ASSUME TypeOK, [Next]_vars
  PROVE  \A table \in Tables : Stored(table) \subseteq Stored(table)'
<1> SUFFICES ASSUME NEW table \in Tables, NEW e \in Event, rows[table][e] > 0
             PROVE  rows'[table][e] > 0
  BY DEF Stored
<1> USE DEF nodeVars, schedVars, taskVars
<1>1. CASE UNCHANGED rows
  BY <1>1
<1>2. ASSUME NEW other \in Tables, NEW events \in SUBSET Event
      PROVE  Added(other, events)[table][e] > 0
  <2>1. \/ Added(other, events)[table] = rows[table]
        \/ Added(other, events)[table][e] = rows[table][e] + 1
        \/ Added(other, events)[table][e] = rows[table][e] + 0
    BY AddedType
  <2>2. rows[table][e] \in Nat
    BY DEF TypeOK
  <2> QED
    BY <2>1, <2>2
<1>3. ASSUME NEW n \in Node, NEW other \in Tables, NEW outcome \in Outcome,
             Insert(n, other, outcome)
      PROVE  rows'[table][e] > 0
  <2>1. run[n].todo[other] \in SUBSET Event
    BY <1>3, RunKinds DEF Insert, Inserted, Writing
  <2>2. rows' = Added(other, run[n].todo[other]) \/ rows' = rows
    BY <1>3 DEF Insert, Inserted
  <2> QED
    BY <1>2, <2>1, <2>2
<1>4. ASSUME NEW n \in Node, Crash(n)
      PROVE  rows'[table][e] > 0
  <2>1. CASE run[n] # Idle /\ run[n].stage = "write"
    <3>1. run[n].todo[table] \in SUBSET Event
      BY <2>1, RunKinds DEF Writing
    <3>2. rows'[table] = Added(table, run[n].todo[table])[table]
            \/ rows'[table] = rows[table]
      BY <1>4, <2>1, CrashLate
    <3> QED
      BY <1>2, <3>1, <3>2
  <2> QED
    BY <1>1, <1>4, <2>1 DEF Crash
<1>5. ASSUME NEW insert \in late, Lands(insert)
      PROVE  rows'[table][e] > 0
  BY <1>2, <1>5 DEF Lands, TypeOK
<1>6. \/ UNCHANGED rows
      \/ \E n \in Node, other \in Tables, outcome \in Outcome : Insert(n, other, outcome)
      \/ \E n \in Node : Crash(n)
      \/ \E insert \in late : Lands(insert)
  BY DEF Next, LoadSlice, Refuse, Deliver, StreamLost, Restart, NextDay, Start, Claim,
         Compute, Look, Vanishes, Settled, Abort, vars
<1> QED
  BY <1>1, <1>3, <1>4, <1>5, <1>6

(* Only a completed execution makes a slice completed.                     *)
LEMMA VerdictOf ==
  ASSUME NEW n, NEW id, NEW result, Settle(n, id, result), result # "completed"
  PROVE  verdict' = verdict \/ verdict' # "completed"
BY DEF Settle, taskVars

(* Nothing is completed initially.                                         *)
LEMMA DoneInit == Init => DoneInv
BY DEF Init, DoneInv, TodoIsAll, CompletedIsStored, Idle

(* A run that is as it was has as little left to insert.                   *)
LEMMA TodoStaysAll ==
  ASSUME TypeOK, [Next]_vars, TodoIsAll, NEW n \in Node,
         \/ run'[n] = run[n]
         \/ run'[n].stage # "write"
  PROVE  run'[n].stage = "write" /\ ~run'[n].failed =>
           \A table \in Tables :
             Due(table) \ run'[n].todo[table] \subseteq Stored(table)'
BY StoredStays DEF TodoIsAll

(* Every step keeps both parts.                                            *)
LEMMA DoneStep == TypeOK /\ DoneInv /\ [Next]_vars => DoneInv'
<1> SUFFICES ASSUME TypeOK, DoneInv, [Next]_vars
             PROVE  DoneInv'
  OBVIOUS
<1> USE DEF nodeVars, schedVars, taskVars
<1>0. TodoIsAll /\ CompletedIsStored
  BY DEF DoneInv
<1>a. ASSUME NEW n \in Node, \A m \in Node \ {n} : run'[m] = run[m],
             run'[n].stage = "write" /\ ~run'[n].failed =>
               \A table \in Tables :
                 Due(table) \ run'[n].todo[table] \subseteq Stored(table)'
      PROVE  TodoIsAll'
  <2>1. ASSUME NEW m \in Node
        PROVE  run'[m].stage = "write" /\ ~run'[m].failed =>
                 \A table \in Tables :
                   Due(table) \ run'[m].todo[table] \subseteq Stored(table)'
    <3>1. CASE m = n
      BY <1>a, <3>1
    <3>2. CASE m # n
      BY <1>0, <1>a, <3>2, TodoStaysAll
    <3> QED
      BY <3>1, <3>2
  <2> QED
    BY <2>1 DEF TodoIsAll
<1>b. ASSUME verdict' = verdict \/ verdict' # "completed"
      PROVE  CompletedIsStored'
  <2>1. FullyCleaned => FullyCleaned'
    BY StoredStays DEF FullyCleaned
  <2> QED
    BY <1>0, <1>b, <2>1 DEF CompletedIsStored
<1>1. ASSUME UNCHANGED run, verdict' = verdict \/ verdict' # "completed"
      PROVE  DoneInv'
  <2>1. TodoIsAll'
    BY <1>0, <1>1, StoredStays DEF TodoIsAll
  <2> QED
    BY <1>1, <1>b, <2>1 DEF DoneInv
<1>2. ASSUME \/ LoadSlice \/ Refuse \/ StreamLost \/ Restart \/ NextDay
             \/ \E insert \in late : Lands(insert) \/ Vanishes(insert)
      PROVE  DoneInv'
  <2>1. UNCHANGED run /\ (verdict' = verdict \/ verdict' # "completed")
    BY <1>2, VerdictOf DEF LoadSlice, Refuse, StreamLost, Restart, NextDay, Lands, Vanishes
  <2> QED
    BY <1>1, <2>1
<1>3. ASSUME NEW n \in Node, Deliver(n)
      PROVE  DoneInv'
  BY <1>1, <1>3 DEF Deliver
<1>4. ASSUME NEW n \in Node, Start(n) \/ Claim(n) \/ Compute(n) \/ Abort(n) \/ Crash(n)
      PROVE  DoneInv'
  <2>1. run'[n].stage # "write"
    <3>1. CASE Crash(n)
      BY <3>1 DEF Crash, Idle, TypeOK
    <3> QED
      BY <1>4, <3>1, EndsOrMoves
  <2>2. \A m \in Node \ {n} : run'[m] = run[m]
    BY <1>4 DEF Start, Claim, Compute, Abort, Crash, Finish, TypeOK
  <2>3. verdict' = verdict \/ verdict' # "completed"
    BY <1>4, VerdictOf DEF Start, Claim, Compute, Abort, Crash, Finish
  <2>4. TodoIsAll'
    BY <1>a, <2>1, <2>2
  <2> QED
    BY <1>b, <2>3, <2>4 DEF DoneInv
<1>5. ASSUME NEW n \in Node, Look(n)
      PROVE  DoneInv'
  <2> DEFINE todo == [table \in Tables |-> Due(table) \ Stored(table)]
  <2>1. run'[n].todo = todo /\ UNCHANGED <<rows, verdict>>
    BY <1>5 DEF Look, TypeOK
  <2>2. \A m \in Node \ {n} : run'[m] = run[m]
    BY <1>5 DEF Look, TypeOK
  <2>3. \A table \in Tables : Due(table) \ todo[table] \subseteq Stored(table)
    OBVIOUS
  <2>4. \A table \in Tables : Due(table) \ run'[n].todo[table] \subseteq Stored(table)'
    BY <2>1, <2>3, StoredStays
  <2>5. TodoIsAll'
    BY <1>a, <2>2, <2>4
  <2> QED
    BY <1>b, <2>1, <2>5 DEF DoneInv
<1>6. ASSUME NEW n \in Node, NEW table \in Tables, NEW outcome \in Outcome,
             Insert(n, table, outcome)
      PROVE  DoneInv'
  <2>1. run[n] \in Writing /\ run[n].stage = "write"
    BY <1>6, RunKinds DEF Insert, Inserted
  <2> DEFINE r == [run[n] EXCEPT !.todo[table] = {}, !.failed = @ \/ outcome # "acknowledged"]
  <2>2. run'[n] = r /\ \A m \in Node \ {n} : run'[m] = run[m]
    BY <1>6 DEF Insert, TypeOK
  <2>3. /\ r.todo[table] = {}
        /\ \A other \in Tables \ {table} : r.todo[other] = run[n].todo[other]
        /\ ~r.failed => ~run[n].failed /\ outcome = "acknowledged"
    BY <2>1 DEF Writing
  <2> HIDE DEF r
  <2>4. ASSUME ~r.failed, NEW other \in Tables
        PROVE  Due(other) \ r.todo[other] \subseteq Stored(other)'
    <3>1. Due(other) \ run[n].todo[other] \subseteq Stored(other)
      BY <1>0, <2>1, <2>3, <2>4 DEF TodoIsAll
    <3>2. Stored(other) \subseteq Stored(other)'
      BY StoredStays
    <3>3. CASE other # table
      BY <2>3, <3>1, <3>2, <3>3
    <3>4. CASE other = table
      <4>1. run[n].todo[table] \in SUBSET Event
        BY <2>1 DEF Writing
      <4>2. rows' = Added(table, run[n].todo[table])
        BY <1>6, <2>3, <2>4 DEF Insert, Inserted
      <4>3. \A e \in run[n].todo[table] : rows'[table][e] = rows[table][e] + 1
        BY <4>1, <4>2, AddedType
      <4>4. \A e \in Event : rows[table][e] \in Nat
        BY DEF TypeOK
      <4>5. run[n].todo[table] \subseteq Stored(table)'
        BY <4>1, <4>3, <4>4 DEF Stored
      <4> QED
        BY <2>3, <3>1, <3>2, <3>4, <4>5
    <3> QED
      BY <3>3, <3>4
  <2>5. TodoIsAll'
    BY <1>a, <2>2, <2>4
  <2>6. UNCHANGED verdict
    BY <1>6 DEF Insert, Inserted
  <2> QED
    BY <1>b, <2>5, <2>6 DEF DoneInv
<1>7. ASSUME NEW n \in Node, Settled(n)
      PROVE  DoneInv'
  <2>1. run'[n] = Idle /\ \A m \in Node \ {n} : run'[m] = run[m]
    BY <1>7 DEF Settled, Finish, TypeOK
  <2>2. TodoIsAll'
    BY <1>a, <2>1 DEF Idle
  <2>3. CASE run[n].failed
    <3>1. verdict' = verdict \/ verdict' # "completed"
      BY <1>7, <2>3, VerdictOf DEF Settled, Finish
    <3> QED
      BY <1>b, <2>2, <3>1 DEF DoneInv
  <2>4. CASE ~run[n].failed
    <3>1. FullyCleaned
      BY <1>0, <1>7, <2>4 DEF Settled, TodoIsAll, FullyCleaned
    <3>2. FullyCleaned'
      BY <3>1, StoredStays DEF FullyCleaned
    <3> QED
      BY <2>2, <3>2 DEF DoneInv, CompletedIsStored
  <2> QED
    BY <2>3, <2>4
<1>8. CASE UNCHANGED vars
  BY <1>1, <1>8 DEF vars
<1> QED
  BY <1>2, <1>3, <1>4, <1>5, <1>6, <1>7, <1>8 DEF Next

(* A slice an execution reported as completed is stored as a whole, in both*)
(* tables, and stays so.                                                   *)
THEOREM CompletedMeansStored == Spec => []CompletedIsStored
<1>1. DoneInv => CompletedIsStored
  BY DEF DoneInv
<1> QED
  BY TypeInit, TypeStep, DoneInit, DoneStep, <1>1, PTL DEF Spec
=============================================================================
