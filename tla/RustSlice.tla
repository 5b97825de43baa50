------------------------------ MODULE RustSlice ------------------------------
(***************************************************************************)
(* The cleaning of one slice by Rust nodes: the lease that keeps executions*)
(* apart, the incomplete mark that outlives a broken execution, the done   *)
(* key of a task, and the batches written to two tables.                   *)
(*                                                                         *)
(* An execution is an attempt, named by the uuid that owns its lease; a    *)
(* task id may be executed by several attempts, after a crash or when it is*)
(* given to two nodes.  An insert belongs to a writer shared by all tasks: *)
(* when its attempt stops waiting for it, it takes effect later or never.  *)
(* Any command to Redis may fail with or without having taken effect.      *)
(***************************************************************************)
EXTENDS Integers, FiniteSets

CONSTANTS
  Node,
  Task,
  MaxAttempts,  \* bound: executions
  TaskSlots,    \* task_concurrency
  FirstSize,    \* batches of the slice when its cleaning begins
  MaxSize,      \* bound: batches after late events
  MaxFaults,    \* bound: failures, stalls, crashes and shutdowns
  NoAttempt, NoNode, NoTask

Attempt == 1..MaxAttempts

ASSUME RustAssumption ==
  /\ {MaxAttempts, FirstSize, MaxSize, MaxFaults} \subseteq Nat
  /\ FirstSize <= MaxSize
  /\ NoAttempt \notin Attempt

Table == {"final_event_log", "event_attribution"}
Batch == 1..MaxSize

VARIABLES
  \* the nodes
  mode,       \* up, or on its way down: stopping, then abort_tasks
  att,        \* the attempts
  \* Redis and ClickHouse
  lease, mark, done,
  size,       \* batches of the slice in event_log
  rows,       \* how often a batch is in each table
  inserts,    \* on their way to ClickHouse
  faults,
  \* history
  lost,       \* attempts whose lease expired while they were at work
  abandoned   \* batches with an insert nobody waits for

clickhouse == <<size, rows, inserts>>
history == <<lost, abandoned>>
vars == <<mode, att, lease, mark, done, clickhouse, faults, history>>

Insert == [attempt : Attempt, table : Table, batch : Batch]

(* What an attempt has learnt: the answers of begin_attempt, the count and *)
(* the last batch of the response, the batch under way and where it stands *)
(* in each table.                                                          *)
Work == [got : {"none", "yes", "no", "error"}, was : {"none", "done", "open", "error"},
         total : 0..MaxSize, upto : 0..MaxSize, at : 1..MaxSize + 1,
         write : [Table -> {"idle", "sent", "stored", "failed"}]]

Blank == [t \in Table |-> "idle"]
NoWork == [got |-> "none", was |-> "none", total |-> 0, upto |-> 0, at |-> 1, write |-> Blank]

Stage == {"unused", "begin", "mark", "read", "write", "commit", "replay", "end",
          "settled", "gone"}

(* left: what an ending attempt has still to take back in Redis.           *)
AttemptRecord ==
  [stage : Stage, home : Node \cup {NoNode}, task : Task \cup {NoTask}, work : Work,
   left : SUBSET {"mark", "lease"}, verdict : {"none", "completed", "failed"}]

Nobody(s) == [stage |-> s, home |-> NoNode, task |-> NoTask, work |-> NoWork,
              left |-> {}, verdict |-> "none"]

TypeOK ==
  /\ mode \in [Node -> {"up", "stopping", "aborting"}]
  /\ att \in [Attempt -> AttemptRecord]
  /\ lease \in Attempt \cup {NoAttempt} /\ mark \in BOOLEAN /\ done \in SUBSET Task
  /\ size \in FirstSize..MaxSize
  /\ rows \in [Table -> [Batch -> Nat]] /\ inserts \in SUBSET Insert
  /\ faults \in 0..MaxFaults
  /\ lost \in SUBSET Attempt /\ abandoned \in SUBSET (Table \X Batch)

Init ==
  /\ mode = [n \in Node |-> "up"]
  /\ att = [a \in Attempt |-> Nobody("unused")]
  /\ lease = NoAttempt /\ mark = FALSE /\ done = {}
  /\ size = FirstSize /\ inserts = {}
  /\ rows = [t \in Table |-> [b \in Batch |-> 0]]
  /\ faults = 0 /\ lost = {} /\ abandoned = {}

-----------------------------------------------------------------------------
(* A command works, or fails.                                              *)
Works == UNCHANGED faults
Fault == faults < MaxFaults /\ faults' = faults + 1

Executing(a) == att[a].stage \notin {"unused", "settled", "gone"}
Active(n) == {a \in Attempt : Executing(a) /\ att[a].home = n}

(* The task is active on the node, or its result is kept.                  *)
Knows(n, t) ==
  \E a \in Attempt : att[a].home = n /\ att[a].task = t

(* The attempt waits for the insert.                                       *)
Awaited(w) ==
  LET r == att[w.attempt] IN
  r.stage = "write" /\ r.work.at = w.batch /\ r.work.write[w.table] = "sent"

(* Nobody waits any more for the inserts of attempts A.                    *)
Abandon(A) ==
  abandoned' = abandoned \cup
    {<<w.table, w.batch>> : w \in {v \in inserts : v.attempt \in A /\ Awaited(v)}}

Enter(a, next) == att' = [att EXCEPT ![a].stage = next]

(* The attempt leaves its work; the lease it may hold is released.         *)
Leave(a, result) ==
  att' = [att EXCEPT ![a].stage = "end", ![a].left = {"lease"}, ![a].verdict = result,
                     ![a].work = NoWork]

-----------------------------------------------------------------------------
(* A task arrives from the stream.  One the node knows is answered from    *)
(* what it knows; one it cannot take ends at once.                         *)
Submit(a, n, t) ==
  /\ att[a].stage = "unused"
  /\ \A b \in Attempt : b < a => att[b].stage # "unused"
  /\ ~Knows(n, t)
  /\ LET new == [Nobody("begin") EXCEPT !.home = n, !.task = t]
     IN  IF mode[n] = "up" /\ Cardinality(Active(n)) < TaskSlots
         THEN att' = [att EXCEPT ![a] = new]
         ELSE att' = [att EXCEPT ![a] = [new EXCEPT !.stage = "settled", !.verdict = "failed"]]
  /\ UNCHANGED <<mode, lease, mark, done, clickhouse, faults, history>>

(* begin_attempt: SET NX of the lease and EXISTS of the done key, joined.  *)
Acquire(a) ==
  /\ att[a].stage = "begin" /\ att[a].work.got = "none"
  /\ LET free == lease = NoAttempt IN
     \/ /\ Works
        /\ lease' = IF free THEN a ELSE lease
        /\ att' = [att EXCEPT ![a].work.got = IF free THEN "yes" ELSE "no"]
     \/ /\ Fault
        /\ lease' \in {lease, IF free THEN a ELSE lease}
        /\ att' = [att EXCEPT ![a].work.got = "error"]
  /\ UNCHANGED <<mode, mark, done, clickhouse, history>>

LookUpDone(a) ==
  /\ att[a].stage = "begin" /\ att[a].work.was = "none"
  /\ \/ /\ Works
        /\ att' = [att EXCEPT ![a].work.was = IF att[a].task \in done THEN "done" ELSE "open"]
     \/ Fault /\ att' = [att EXCEPT ![a].work.was = "error"]
  /\ UNCHANGED <<mode, lease, mark, done, clickhouse, history>>

Answered(a) == att[a].stage = "begin" /\ att[a].work.got # "none" /\ att[a].work.was # "none"

(* Both answers are in.  A failure to learn of the lease releases it in    *)
(* case it was set; without the lease the loop starts over.                *)
Begun(a) ==
  /\ Answered(a)
  /\ LET got == att[a].work.got
         was == att[a].work.was
     IN  \/ /\ got = "error" \/ (got = "yes" /\ was = "error")
            /\ Leave(a, "failed")
         \/ /\ got = "yes" /\ was # "error"
            /\ Enter(a, IF was = "done" THEN "replay" ELSE "mark")
         \/ /\ got = "no" /\ was # "error"
            /\ att' = [att EXCEPT ![a].work = NoWork]
  /\ UNCHANGED <<mode, lease, mark, done, clickhouse, faults, history>>

(* Without the lease: the deadline has passed, the node aborts, or the     *)
(* done key could not be read.  There is nothing to release.               *)
GiveUp(a) ==
  /\ Answered(a) /\ att[a].work.got = "no"
  /\ att' = [att EXCEPT ![a].stage = "settled", ![a].verdict = "failed", ![a].work = NoWork]
  /\ UNCHANGED <<mode, lease, mark, done, clickhouse, faults, history>>

(* Mistake: the slice is cleaned without a mark.                           *)
MarkNothing(a) ==
  /\ att[a].stage = "mark"
  /\ Works /\ Enter(a, "read")
  /\ UNCHANGED <<mode, lease, mark, done, clickhouse, history>>

(* mark_incomplete, before anything is written.                            *)
MarkIncomplete(a) ==
  /\ att[a].stage = "mark"
  /\ \/ Works /\ mark' = TRUE /\ Enter(a, "read")
     \/ Fault /\ mark' \in {mark, TRUE} /\ Leave(a, "failed")
  /\ UNCHANGED <<mode, lease, done, clickhouse, history>>

(* A task that is done: only its mark is cleared.                          *)
Replay(a) ==
  /\ att[a].stage = "replay"
  /\ \/ Works /\ mark' = FALSE /\ Leave(a, "completed")
     \/ Fault /\ mark' \in {mark, FALSE} /\ Leave(a, "failed")
  /\ UNCHANGED <<mode, lease, done, clickhouse, history>>

-----------------------------------------------------------------------------
(* clean: the count and the response are two queries, joined.              *)
CountSlice(a) ==
  /\ att[a].stage = "read" /\ att[a].work.total = 0
  /\ \/ Works /\ att' = [att EXCEPT ![a].work.total = size]
     \/ Fault /\ Leave(a, "failed")
  /\ UNCHANGED <<mode, lease, mark, done, clickhouse, history>>

ReadSlice(a) ==
  /\ att[a].stage = "read" /\ att[a].work.upto = 0
  /\ \/ Works /\ att' = [att EXCEPT ![a].work.upto = size]
     \/ Fault /\ Leave(a, "failed")
  /\ UNCHANGED <<mode, lease, mark, done, clickhouse, history>>

StartWriting(a) ==
  /\ att[a].stage = "read" /\ att[a].work.total > 0 /\ att[a].work.upto > 0
  /\ Enter(a, "write")
  /\ UNCHANGED <<mode, lease, mark, done, clickhouse, faults, history>>

(* There is a batch to be written to the table.                            *)
Due(a, t) ==
  /\ att[a].stage = "write" /\ att[a].work.write[t] = "idle"
  /\ att[a].work.at <= att[a].work.upto

(* The batch is handed to the shared writer.                               *)
Send(a, t) ==
  /\ att' = [att EXCEPT ![a].work.write[t] = "sent"]
  /\ inserts' = inserts \cup {[attempt |-> a, table |-> t, batch |-> att[a].work.at]}

(* write_events or write_attributions: what the table misses of the batch  *)
(* is looked up and inserted.                                              *)
WriteBatch(a, t) ==
  /\ Due(a, t)
  /\ \/ /\ Works /\ rows[t][att[a].work.at] > 0
        /\ att' = [att EXCEPT ![a].work.write[t] = "stored"] /\ UNCHANGED inserts
     \/ Works /\ rows[t][att[a].work.at] = 0 /\ Send(a, t)
     \/ Fault /\ att' = [att EXCEPT ![a].work.write[t] = "failed"] /\ UNCHANGED inserts
  /\ UNCHANGED <<mode, lease, mark, done, size, rows, history>>

(* ClickHouse takes an insert.                                             *)
Stored(w) == rows' = [rows EXCEPT ![w.table][w.batch] = @ + 1]

(* An insert ends for the attempt that waits for it: acknowledged, or      *)
(* failed, with the rows stored, not stored, or still on their way.        *)
InsertEnds(w) ==
  /\ Awaited(w)
  /\ \/ /\ Works /\ Stored(w) /\ inserts' = inserts \ {w}
        /\ att' = [att EXCEPT ![w.attempt].work.write[w.table] = "stored"]
        /\ UNCHANGED abandoned
     \/ /\ Fault /\ inserts' = inserts \ {w}
        /\ att' = [att EXCEPT ![w.attempt].work.write[w.table] = "failed"]
        /\ Stored(w) \/ UNCHANGED rows
        /\ UNCHANGED abandoned
     \/ /\ Fault /\ UNCHANGED <<rows, inserts>>
        /\ att' = [att EXCEPT ![w.attempt].work.write[w.table] = "failed"]
        /\ abandoned' = abandoned \cup {<<w.table, w.batch>>}
  /\ UNCHANGED <<mode, lease, mark, done, size, lost>>

(* An insert nobody waits for takes effect, or is skipped by the writer.   *)
LateInsert(w) ==
  /\ ~Awaited(w)
  /\ Stored(w) \/ UNCHANGED rows
  /\ inserts' = inserts \ {w}
  /\ UNCHANGED <<mode, att, lease, mark, done, size, faults, history>>

Ended(a) == \A t \in Table : att[a].work.write[t] \in {"stored", "failed"}
Failed(a) == \E t \in Table : att[a].work.write[t] = "failed"

AfterBatch(a) ==
  /\ IF Failed(a) THEN Leave(a, "failed")
     ELSE att' = [att EXCEPT ![a].work = [att[a].work EXCEPT !.at = @ + 1, !.write = Blank]]
  /\ UNCHANGED <<mode, lease, mark, done, clickhouse, faults, history>>

(* Mistake: the first failure ends the batch while the other write goes on. *)
NextBatchAtOnce(a) == att[a].stage = "write" /\ (Ended(a) \/ Failed(a)) /\ AfterBatch(a)

(* Both writes of a batch have ended, well or not.                         *)
NextBatch(a) == att[a].stage = "write" /\ Ended(a) /\ AfterBatch(a)

AtEnd(a) ==
  att[a].stage = "write" /\ att[a].work.write = Blank /\ att[a].work.at > att[a].work.upto

(* Mistake: the number of events is not compared.                          *)
EndUncounted(a) ==
  /\ AtEnd(a) /\ Enter(a, "commit")
  /\ UNCHANGED <<mode, lease, mark, done, clickhouse, faults, history>>

(* The response has ended: as many events as were counted, or it fails.    *)
EndOfSlice(a) ==
  /\ AtEnd(a)
  /\ IF att[a].work.upto = att[a].work.total THEN Enter(a, "commit") ELSE Leave(a, "failed")
  /\ UNCHANGED <<mode, lease, mark, done, clickhouse, faults, history>>

(* The renewal finds the lease gone or fails, or the node aborts: the work *)
(* is dropped where it stands.                                             *)
StopWork(a) ==
  /\ att[a].stage \in {"read", "write"}
  /\ \/ Works /\ (lease # a \/ mode[att[a].home] = "aborting")
     \/ Fault
  /\ Leave(a, "failed")
  /\ Abandon({a})
  /\ UNCHANGED <<mode, lease, mark, done, clickhouse, lost>>

-----------------------------------------------------------------------------
(* complete_attempt: the done key first, then mark and lease together.     *)
Commit(a) ==
  /\ att[a].stage = "commit"
  /\ \/ /\ Works /\ done' = done \cup {att[a].task}
        /\ att' = [att EXCEPT ![a].stage = "end", ![a].left = {"mark", "lease"},
                              ![a].verdict = "completed",
                              ![a].work = [NoWork EXCEPT !.total = att[a].work.total]]
     \/ Fault /\ done' \in {done, done \cup {att[a].task}} /\ Leave(a, "failed")
  /\ UNCHANGED <<mode, lease, mark, clickhouse, history>>

ClearMark(a) ==
  /\ att[a].stage = "end" /\ "mark" \in att[a].left
  /\ \/ /\ Works /\ mark' = FALSE
        /\ att' = [att EXCEPT ![a].left = @ \ {"mark"}]
     \/ /\ Fault /\ mark' \in {mark, FALSE}
        /\ att' = [att EXCEPT ![a].left = @ \ {"mark"}, ![a].verdict = "failed"]
  /\ UNCHANGED <<mode, lease, done, clickhouse, history>>

(* Mistake: DEL without looking at the owner.                              *)
ReleaseAnyLease(a) ==
  /\ att[a].stage = "end" /\ "lease" \in att[a].left
  /\ att' = [att EXCEPT ![a].left = @ \ {"lease"}]
  /\ Works /\ lease' = NoAttempt
  /\ UNCHANGED <<mode, mark, done, clickhouse, history>>

(* The script deletes the lease only if the attempt owns it.               *)
ReleaseLease(a) ==
  /\ att[a].stage = "end" /\ "lease" \in att[a].left
  /\ att' = [att EXCEPT ![a].left = @ \ {"lease"}]
  /\ LET released == IF lease = a THEN NoAttempt ELSE lease IN
     \/ Works /\ lease' = released
     \/ Fault /\ lease' \in {lease, released}
  /\ UNCHANGED <<mode, mark, done, clickhouse, history>>

(* The permit is dropped, the result kept and reported.                    *)
Settle(a) ==
  /\ att[a].stage = "end" /\ att[a].left = {}
  /\ Enter(a, "settled")
  /\ UNCHANGED <<mode, lease, mark, done, clickhouse, faults, history>>

-----------------------------------------------------------------------------
(* The stages in which an attempt relies on its lease.                     *)
Holding(a) ==
  \/ att[a].stage = "begin" /\ att[a].work.got = "yes"
  \/ att[a].stage \in {"mark", "replay", "read", "write", "commit"}

(* The lease runs out: nobody renews it any more, or its holder stalls.    *)
Expire ==
  /\ lease # NoAttempt
  /\ lease' = NoAttempt
  /\ IF Executing(lease)
     THEN Fault /\ lost' = lost \cup {a \in {lease} : Holding(a)}
     ELSE UNCHANGED <<faults, lost>>
  /\ UNCHANGED <<mode, att, mark, done, clickhouse, abandoned>>

(* The process ends and starts again; what it was doing is gone.           *)
Restart(n) ==
  /\ mode' = [mode EXCEPT ![n] = "up"]
  /\ att' = [a \in Attempt |-> IF att[a].home = n THEN Nobody("gone") ELSE att[a]]
  /\ Abandon({a \in Attempt : att[a].home = n})
  /\ UNCHANGED <<lease, mark, done, clickhouse, lost>>

Crash(n) == Fault /\ Restart(n)

BeginShutdown(n) ==
  /\ mode[n] = "up" /\ Fault
  /\ mode' = [mode EXCEPT ![n] = "stopping"]
  /\ UNCHANGED <<att, lease, mark, done, clickhouse, history>>

(* The tasks did not end within the timeout of drain.                      *)
DrainTimeout(n) ==
  /\ mode[n] = "stopping" /\ Active(n) # {}
  /\ mode' = [mode EXCEPT ![n] = "aborting"]
  /\ UNCHANGED <<att, lease, mark, done, clickhouse, faults, history>>

Exit(n) ==
  /\ \/ mode[n] = "stopping" /\ Active(n) = {}
     \/ mode[n] = "aborting"
  /\ Restart(n) /\ UNCHANGED faults

(* An event of the slice reaches event_log late.                           *)
LateEvent ==
  /\ size < MaxSize
  /\ size' = size + 1
  /\ UNCHANGED <<mode, att, lease, mark, done, rows, inserts, faults, history>>

(* What an attempt does of itself, save the loop for the lease.            *)
AttemptStep(a) ==
  \/ Acquire(a) \/ LookUpDone(a)
  \/ MarkIncomplete(a) \/ Replay(a)
  \/ CountSlice(a) \/ ReadSlice(a) \/ StartWriting(a)
  \/ \E t \in Table : WriteBatch(a, t)
  \/ NextBatch(a) \/ EndOfSlice(a)
  \/ Commit(a) \/ ClearMark(a) \/ ReleaseLease(a) \/ Settle(a)

Next ==
  \/ \E a \in Attempt : AttemptStep(a) \/ Begun(a) \/ GiveUp(a) \/ StopWork(a)
  \/ \E a \in Attempt, n \in Node, t \in Task : Submit(a, n, t)
  \/ \E w \in inserts : InsertEnds(w) \/ LateInsert(w)
  \/ Expire \/ LateEvent
  \/ \E n \in Node : Crash(n) \/ BeginShutdown(n) \/ DrainTimeout(n) \/ Exit(n)

Spec == Init /\ [][Next]_vars

-----------------------------------------------------------------------------
(* An attempt at work owns the lease unless it has expired: acquiring,     *)
(* renewing and releasing by others, late or failed ones included, never   *)
(* takes it from its holder, so two attempts work on the slice at the same *)
(* time only after an expiry.                                              *)
LeaseIsExclusive == \A a \in Attempt : Holding(a) => a \in lost \/ lease = a

(* A batch is twice in a table only if an insert of it went on after its   *)
(* attempt had stopped waiting, or a lease has expired: looking up and     *)
(* inserting what is missing is otherwise enough, whatever fails.          *)
DuplicateNeedsAbandonedInsert ==
  \A t \in Table, b \in Batch : rows[t][b] > 1 => <<t, b>> \in abandoned \/ lost # {}

Whole == \A t \in Table : \A b \in 1..size : rows[t][b] > 0
Started == \E t \in Table : \E b \in Batch : rows[t][b] > 0

(* A slice of which a part is stored carries the incomplete mark that makes*)
(* the scheduler look at it again, through every failure, expiry and crash.*)
(* (Events that arrive during or after a cleaning are another matter.)     *)
MarkCoversGap == size = FirstSize /\ Started /\ ~Whole => mark

(* A task reported completed has everything it counted in both tables.     *)
CompletedIsStored ==
  \A a \in Attempt : att[a].verdict = "completed" =>
    \A t \in Table : \A b \in 1..FirstSize \cup 1..att[a].work.total : rows[t][b] > 0
=============================================================================
