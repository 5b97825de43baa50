---------------------------- MODULE SliceCleaning ----------------------------
(***************************************************************************)
(* The cleaning of one slice by TypeScript nodes (NodeService), against the*)
(* tables it writes, the Redis key that makes a task id run once, and the  *)
(* backlog that decides day by day whether the slice still needs cleaning. *)
(*                                                                         *)
(* The two inserts of a task are not atomic together: each may succeed,    *)
(* fail, succeed without the node learning of it, or take effect when the  *)
(* node has long given it up, and the node may die between them.  One      *)
(* insert is atomic.  What the service gives up - a task whose node has no *)
(* stream, or that was out when it restarted - a node goes on with, beside *)
(* the retry that any node may get.  A task may come to a node at any time:*)
(* that the registry sometimes remembers what a node has only delays it.   *)
(***************************************************************************)
EXTENDS Naturals, Sequences, FiniteSets

CONSTANTS
  Event,        \* the events of the slice
  Converting,   \* those that have an attribution
  Node,
  MaxAttempts,  \* MAX_ATTEMPTS of the scheduler
  LastDay,      \* bound: days
  MaxFaults,    \* bound: failures, crashes and lost streams
  MaxBoots      \* bound: restarts of the scheduler

ASSUME SliceAssumption ==
  /\ Converting \subseteq Event
  /\ LastDay \in Nat \ {0}
  /\ {MaxAttempts, MaxFaults, MaxBoots} \subseteq Nat

(* A task id: the day of the run and the attempt.                          *)
Id == [run : 1..LastDay, attempt : 0..MaxAttempts]
NoId == [run |-> 0]
NoTask == <<>>

Idle == [stage |-> "idle"]
Tables == {"final_event_log", "event_attribution"}
Due(table) == IF table = "final_event_log" THEN Event ELSE Converting

VARIABLES
  \* Redis and ClickHouse
  keys,      \* clean:task:<id>
  rows,      \* per table, how often an event is in it
  late,      \* inserts under way that their execution no longer waits for
  \* the nodes
  queued,    \* queuedTasks of the slice
  run,       \* the task in execution, its stage, and the rows to be inserted
  \* the scheduler
  day,
  pending,   \* the task in its queue
  current,   \* the node and the task it dispatched
  attempts,  \* attempts of today's base id that failed
  verdict,   \* of the slice in today's run
  faults, boots,
  outlived   \* history: executions and inserts that went on when given up

nodeVars == <<queued, run>>
taskVars == <<pending, current, attempts, verdict>>
schedVars == <<day, taskVars, boots>>
vars == <<keys, rows, late, nodeVars, schedVars, faults, outlived>>

TypeOK ==
  /\ keys \in SUBSET Id
  /\ rows \in [Tables -> [Event -> Nat]]
  /\ late \in SUBSET [id : Id, table : Tables, events : SUBSET Event]
  /\ queued \in [Node -> Seq(Id)]
  /\ run \in [Node -> {Idle}
                \cup [stage : {"claim", "compute", "look"}, id : Id]
                \cup [stage : {"write"}, id : Id, todo : [Tables -> SUBSET Event],
                      failed : BOOLEAN]]
  /\ day \in 1..LastDay
  /\ pending \in Id \cup {NoId}
  /\ current \in (Node \X Id) \cup {NoTask}
  /\ attempts \in 0..MaxAttempts
  /\ verdict \in {"unseen", "loaded", "completed", "replayed", "givenup", "skipped"}
  /\ faults \in 0..MaxFaults
  /\ boots \in 0..MaxBoots
  /\ outlived \in Nat

Init ==
  /\ keys = {}
  /\ rows = [t \in Tables |-> [e \in Event |-> 0]]
  /\ late = {}
  /\ queued = [n \in Node |-> <<>>]
  /\ run = [n \in Node |-> Idle]
  /\ day = 1
  /\ pending = NoId /\ current = NoTask
  /\ attempts = 0 /\ verdict = "unseen"
  /\ faults = 0 /\ boots = 0 /\ outlived = 0

-----------------------------------------------------------------------------
(* What a table holds of the slice.                                        *)
Stored(table) == {e \in Event : rows[table][e] > 0}
FullyCleaned == \A table \in Tables : Due(table) \subseteq Stored(table)

Busy(n) == run[n] # Idle \/ queued[n] # <<>>
Ids(n) ==
  {queued[n][i] : i \in DOMAIN queued[n]} \cup (IF run[n] = Idle THEN {} ELSE {run[n].id})

Fault == faults < MaxFaults /\ faults' = faults + 1

-----------------------------------------------------------------------------
(* The scheduler.                                                          *)

(* The backlog takes a slice with any row in final_event_log for cleaned.  *)
LoadSlice ==
  /\ verdict = "unseen"
  /\ IF Stored("final_event_log") # {}
     THEN verdict' = "skipped" /\ UNCHANGED pending
     ELSE verdict' = "loaded" /\ pending' = [run |-> day, attempt |-> 0]
  /\ UNCHANGED <<keys, rows, late, nodeVars, day, current, attempts, boots, faults, outlived>>

(* enqueueTask refuses a slice that is active on a node, as one that has   *)
(* come back with it; a later scan of the day may load it again, under the *)
(* base id, though the attempts that failed still count.                   *)
Refuse ==
  /\ pending # NoId
  /\ \E n \in Node : Busy(n)
  /\ pending' = NoId /\ verdict' = "unseen"
  /\ UNCHANGED <<keys, rows, late, nodeVars, day, current, attempts, boots, faults, outlived>>

(* The task reaches a node, which joins it to an execution of the same id. *)
Deliver(n) ==
  /\ pending # NoId
  /\ current' = <<n, pending>>
  /\ pending' = NoId
  /\ queued' = IF pending \in Ids(n) THEN queued
               ELSE [queued EXCEPT ![n] = Append(@, pending)]
  /\ UNCHANGED <<keys, rows, late, run, day, attempts, verdict, boots, faults, outlived>>

(* onTaskSettled; a result nobody waits for is ignored by the registry.    *)
Settle(n, id, result) ==
  IF current # <<n, id>> THEN UNCHANGED taskVars
  ELSE /\ current' = NoTask
       /\ IF result = "failed" /\ attempts < MaxAttempts
          THEN /\ attempts' = attempts + 1
               /\ pending' = [id EXCEPT !.attempt = attempts + 1]
               /\ UNCHANGED verdict
          ELSE /\ attempts' = 0
               /\ verdict' = IF result = "failed" THEN "givenup" ELSE result
               /\ UNCHANGED pending

(* The stream of the node is lost while it goes on with the task.          *)
StreamLost ==
  /\ current # NoTask
  /\ Fault
  /\ Settle(current[1], current[2], "failed")
  /\ outlived' = outlived + 1
  /\ UNCHANGED <<keys, rows, late, nodeVars, day, boots>>

Restart ==
  /\ boots < MaxBoots
  /\ boots' = boots + 1
  /\ pending' = NoId /\ current' = NoTask
  /\ attempts' = 0 /\ verdict' = "unseen"
  /\ outlived' = IF current = NoTask THEN outlived ELSE outlived + 1
  /\ UNCHANGED <<keys, rows, late, nodeVars, day, faults>>

NextDay ==
  /\ day < LastDay
  /\ pending = NoId /\ current = NoTask
  /\ day' = day + 1
  /\ attempts' = 0 /\ verdict' = "unseen"
  /\ UNCHANGED <<keys, rows, late, nodeVars, pending, current, boots, faults, outlived>>

-----------------------------------------------------------------------------
(* The node.                                                               *)

(* startQueuedTasks: one task of the slice at a time.                      *)
Start(n) ==
  /\ run[n] = Idle
  /\ queued[n] # <<>>
  /\ run' = [run EXCEPT ![n] = [stage |-> "claim", id |-> Head(queued[n])]]
  /\ queued' = [queued EXCEPT ![n] = Tail(@)]
  /\ UNCHANGED <<keys, rows, late, schedVars, faults, outlived>>

(* finishTask: the terminal progress goes out once the task is dropped.    *)
Finish(n, result) ==
  /\ run' = [run EXCEPT ![n] = Idle]
  /\ Settle(n, run[n].id, result)

(* setNx: an id that was claimed before counts as done.                    *)
Claim(n) ==
  /\ run[n].stage = "claim"
  /\ keys' = keys \cup {run[n].id}
  /\ IF run[n].id \in keys
     THEN Finish(n, "replayed")
     ELSE run' = [run EXCEPT ![n].stage = "compute"] /\ UNCHANGED taskVars
  /\ UNCHANGED <<rows, late, queued, day, boots, faults, outlived>>

(* getAllEvents and the attribution.                                       *)
Compute(n) ==
  /\ run[n].stage = "compute"
  /\ run' = [run EXCEPT ![n].stage = "look"]
  /\ UNCHANGED <<keys, rows, late, queued, schedVars, faults, outlived>>

(* Mistake: only final_event_log is asked for rows already stored.         *)
LookOneTable(n) ==
  /\ run[n].stage = "look"
  /\ run' = [run EXCEPT ![n] =
               [stage |-> "write", id |-> @.id, failed |-> FALSE,
                todo |-> [table \in Tables |->
                            IF table = "final_event_log" THEN Due(table) \ Stored(table)
                            ELSE Due(table)]]]
  /\ UNCHANGED <<keys, rows, late, queued, schedVars, faults, outlived>>

(* Rows already stored are left out of the inserts.                        *)
Look(n) ==
  /\ run[n].stage = "look"
  /\ run' = [run EXCEPT ![n] =
               [stage |-> "write", id |-> @.id, failed |-> FALSE,
                todo |-> [table \in Tables |-> Due(table) \ Stored(table)]]]
  /\ UNCHANGED <<keys, rows, late, queued, schedVars, faults, outlived>>

(* An insert ends: acknowledged; without effect; with one the node does not*)
(* learn of; or timed out, while it may still take effect.                 *)
Outcome == {"acknowledged", "failed", "unheard", "timeout"}
Added(table, events) ==
  [rows EXCEPT ![table] = [e \in Event |-> @[e] + (IF e \in events THEN 1 ELSE 0)]]

Inserted(n, table, outcome) ==
  LET events == run[n].todo[table] IN
  /\ run[n].stage = "write" /\ events # {}
  /\ IF outcome = "acknowledged" THEN UNCHANGED faults ELSE Fault
  /\ rows' = IF outcome \in {"acknowledged", "unheard"} THEN Added(table, events) ELSE rows
  /\ IF outcome = "timeout"
     THEN /\ late' = late \cup {[id |-> run[n].id, table |-> table, events |-> events]}
          /\ outlived' = outlived + 1
     ELSE UNCHANGED <<late, outlived>>
  /\ UNCHANGED <<keys, queued, schedVars>>

(* Mistake: the insert into event_attribution is not awaited for errors.   *)
InsertUnwatched(n, table, outcome) ==
  /\ Inserted(n, table, outcome)
  /\ run' = [run EXCEPT ![n].todo[table] = {},
                        ![n].failed = @ \/ (outcome # "acknowledged" /\ table = "final_event_log")]

Insert(n, table, outcome) ==
  /\ Inserted(n, table, outcome)
  /\ run' = [run EXCEPT ![n].todo[table] = {}, ![n].failed = @ \/ outcome # "acknowledged"]

(* An insert nobody waits for takes effect, or never does.                 *)
Lands(insert) ==
  /\ rows' = Added(insert.table, insert.events)
  /\ late' = late \ {insert}
  /\ UNCHANGED <<keys, nodeVars, schedVars, faults, outlived>>

Vanishes(insert) ==
  /\ late' = late \ {insert}
  /\ UNCHANGED <<keys, rows, nodeVars, schedVars, faults, outlived>>

(* Promise.allSettled: both inserts have ended.                            *)
Settled(n) ==
  /\ run[n].stage = "write"
  /\ \A table \in Tables : run[n].todo[table] = {}
  /\ Finish(n, IF run[n].failed THEN "failed" ELSE "completed")
  /\ UNCHANGED <<keys, rows, late, queued, day, boots, faults, outlived>>

(* Redis, a query or the computation fails.                                *)
Abort(n) ==
  /\ run[n].stage \in {"claim", "compute", "look"}
  /\ Fault
  /\ Finish(n, "failed")
  /\ UNCHANGED <<keys, rows, late, queued, day, boots, outlived>>

(* The node dies.  An insert it had sent takes effect, now or later.       *)
Crash(n) ==
  /\ Busy(n)
  /\ Fault
  /\ IF run[n] # Idle /\ run[n].stage = "write"
     THEN LET sent == {table \in Tables : run[n].todo[table] # {}} IN
          \E stored \in SUBSET sent : \E under \in SUBSET (sent \ stored) :
            /\ rows' = [table \in Tables |->
                          IF table \in stored THEN Added(table, run[n].todo[table])[table]
                          ELSE rows[table]]
            /\ LET left == {[id |-> run[n].id, table |-> table,
                             events |-> run[n].todo[table]] : table \in under}
               IN late' = late \cup left /\ outlived' = outlived + Cardinality(left)
     ELSE UNCHANGED <<rows, late, outlived>>
  /\ queued' = [queued EXCEPT ![n] = <<>>]
  /\ run' = [run EXCEPT ![n] = Idle]
  /\ IF current # NoTask /\ current[1] = n THEN Settle(n, current[2], "failed")
     ELSE UNCHANGED taskVars
  /\ UNCHANGED <<keys, day, boots>>

-----------------------------------------------------------------------------
Next ==
  \/ LoadSlice
  \/ Refuse
  \/ \E n \in Node : Deliver(n)
  \/ StreamLost
  \/ Restart
  \/ NextDay
  \/ \E n \in Node : Start(n)
  \/ \E n \in Node : Claim(n)
  \/ \E n \in Node : Compute(n)
  \/ \E n \in Node : Look(n)
  \/ \E n \in Node, table \in Tables, outcome \in Outcome : Insert(n, table, outcome)
  \/ \E insert \in late : Lands(insert)
  \/ \E insert \in late : Vanishes(insert)
  \/ \E n \in Node : Settled(n)
  \/ \E n \in Node : Abort(n)
  \/ \E n \in Node : Crash(n)

Spec == Init /\ [][Next]_vars

-----------------------------------------------------------------------------
(* An event is in a table at most once more than there were executions the *)
(* service gave up while they went on, and inserts that outlived theirs:   *)
(* MergeTree keeps duplicates, and a retry only leaves out what it sees.   *)
(* Failures, deaths and repeated deliveries alone make none.               *)
NoDuplicateRows == \A table \in Tables, e \in Event : rows[table][e] <= 1 + outlived

(* An execution that reports completion has the whole slice in both tables.*)
CompletedIsStored == verdict = "completed" => FullyCleaned

(* What the backlog passes over as cleaned is cleaned: a failed slice heals*)
(* on the next day.                                                        *)
SkippedIsCleaned == verdict = "skipped" => FullyCleaned

(* A task that is answered from the key alone was cleaned before.          *)
ReplayedIsCleaned == verdict = "replayed" => FullyCleaned
=============================================================================
