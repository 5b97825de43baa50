---------------------------- MODULE EventIngestion ----------------------------
(***************************************************************************)
(* The consumer of the preliminary processing service (KafkaConsumerService*)
(* ): events are completed and buffered, the buffer is flushed to event_log*)
(* behind a de-duplication key per event, and the offset committed is the  *)
(* end of the prefix of completed offsets.                                 *)
(*                                                                         *)
(* handleEvent runs for one message at a time, as kafkajs calls it, but    *)
(* interleaves with flushes the timer has started.  Redis, ClickHouse and  *)
(* Kafka may fail with or without having done what was asked, the process  *)
(* may crash or be stopped, and the partition may be fetched again.        *)
(***************************************************************************)
EXTENDS EventTopic

CONSTANT FlushSize   \* FLUSH_BATCH_SIZE

ASSUME IngestionAssumption == FlushSize \in Nat \ {0}

VARIABLES
  \* Kafka, Redis and ClickHouse
  groupOffset,  \* committed by the group: the next offset to consume, 0: none
  keys,         \* dedup:event:<$event_id>
  rows,         \* of event_log
  \* the process
  service,      \* up, stopping, closing (its last flush has begun), down
  position,     \* the next offset to fetch
  from,         \* where the fetching began
  handler,      \* handleEvent: its offset and what it waits for
  buffer,       \* eventBuffer
  flush,        \* pendingFlush
  progress,     \* partitionProgress: completed, nextOffset (0: none), committed
  commits,      \* commitOffsets calls under way, oldest first
  \* history
  unsure,       \* events whose insert was reported failed but took effect
  stale,        \* events whose key outlived a flush that did not store them
  dirty,        \* offsets completed as dirty data
  began,        \* dirty offsets that were taken for the start of the prefix
  missed        \* offsets jumped over because nothing had been committed

store == <<groupOffset, keys, rows>>
memory == <<position, from, handler, buffer, flush, progress, commits>>
history == <<unsure, stale, dirty, began, missed>>
ingestionVars == <<store, service, memory, history>>

Committable == 0..MaxLog + 1

Handler == [offset : 0..MaxLog, stage : {"idle", "flush", "log", "commit"}]
FlushStage == {"none", "keys", "insert", "commit", "retryable", "unretryable"}
FlushRecord == [stage : FlushStage, batch : Seq(Offset), at : Nat \ {0}, fresh : SUBSET Event]
Progress == [completed : SUBSET Offset, next : Committable, committed : Committable]
Commit == [by : {"flush", "handler"}, offset : Committable]

NoHandler == [offset |-> 0, stage |-> "idle"]
NoFlush == [stage |-> "none", batch |-> <<>>, at |-> 1, fresh |-> {}]
NoProgress == [completed |-> {}, next |-> 0, committed |-> 0]

IngestionTypeOK ==
  /\ groupOffset \in Committable
  /\ keys \subseteq Event /\ rows \in [Event -> Nat]
  /\ service \in {"up", "stopping", "closing", "down"}
  /\ position \in 1..MaxLog + 1 /\ from \in 1..MaxLog + 1
  /\ handler \in Handler /\ buffer \in Seq(Offset) /\ flush \in FlushRecord
  /\ progress \in Progress /\ commits \in Seq(Commit)
  /\ unsure \subseteq Event /\ stale \subseteq Event
  /\ dirty \subseteq Offset /\ began \subseteq Offset /\ missed \subseteq Offset

IngestionInit ==
  /\ groupOffset = 0 /\ keys = {} /\ rows = [e \in Event |-> 0]
  /\ service = "up" /\ position = 1 /\ from = 1
  /\ handler = NoHandler /\ buffer = <<>> /\ flush = NoFlush
  /\ progress = NoProgress /\ commits = <<>>
  /\ unsure = {} /\ stale = {} /\ dirty = {} /\ began = {} /\ missed = {}

-----------------------------------------------------------------------------
(* Where a consumer that joins the group begins: at the committed offset;  *)
(* without one at the end of the log, as subscribe.fromBeginning is unset. *)
Resume == IF groupOffset = 0 THEN Len(log) + 1 ELSE groupOffset

(* flushEventLog on the buffer b: the flush under way, or a new one.       *)
StartFlush(b) ==
  IF flush.stage # "none" \/ b = <<>> THEN buffer' = b /\ UNCHANGED flush
  ELSE buffer' = <<>> /\ flush' = [NoFlush EXCEPT !.stage = "keys", !.batch = b]

(* Mutant: the last completed offset is taken for the end of the prefix.   *)
MarkLast(S, first) ==
  [progress EXCEPT !.next = CHOOSE n \in {o + 1 : o \in S} : \A o \in S : o < n]

(* The first offset from start on that is not completed.                   *)
PrefixEnd(done, start) ==
  CHOOSE n \in start..MaxLog + 1 : n \notin done /\ start..(n - 1) \subseteq done

(* markOffsetCompleted for the offsets S, of which first comes first: the  *)
(* end of the completed prefix moves over all that is completed.           *)
Mark(S, first) ==
  LET start == IF progress.next = 0 THEN first ELSE progress.next
      done == progress.completed \cup {o \in S : o >= start}
      next == PrefixEnd(done, start) IN
  [progress EXCEPT !.completed = {o \in done : o > next}, !.next = next]

(* commitProgress asks for the end of the prefix to be committed, unless   *)
(* it has been.                                                            *)
Wanted(p) == p.committed # p.next
Ask(p, by) == commits' = Append(commits, [by |-> by, offset |-> p.next])

(* An error that handleEvent throws on makes kafkajs deliver the message   *)
(* again, with others fetched before it, or start the consumer anew.       *)
Redeliver(o) ==
  \/ \E p \in from..o : position' = p /\ UNCHANGED <<from, missed>>
  \/ /\ position' = Resume /\ from' = Resume
     /\ missed' = missed \cup o..(Resume - 1)

-----------------------------------------------------------------------------
(* handleEvent: the event is completed and buffered.  A full buffer is     *)
(* flushed, and the handler waits for that flush or for the one under way. *)
Consume ==
  LET b == Append(buffer, position) IN
  /\ service = "up" /\ handler.stage = "idle" /\ position <= Len(log)
  /\ position' = position + 1
  /\ IF Len(b) >= FlushSize
     THEN StartFlush(b) /\ handler' = [offset |-> position, stage |-> "flush"]
     ELSE buffer' = b /\ UNCHANGED <<flush, handler>>
  /\ UNCHANGED <<log, faults, store, service, from, progress, commits, history>>

(* Completing the event fails on Redis or MySQL: the message will be       *)
(* delivered again.                                                        *)
CompletionFails ==
  /\ service = "up" /\ handler.stage = "idle" /\ position <= Len(log)
  /\ Fault
  /\ Redeliver(position)
  /\ UNCHANGED <<log, store, service, handler, buffer, flush, progress, commits, unsure, stale,
                 dirty, began>>

(* Completing it fails otherwise: it is dirty data.                        *)
CompletionRejects ==
  /\ service = "up" /\ handler.stage = "idle" /\ position <= Len(log)
  /\ Fault
  /\ position' = position + 1
  /\ handler' = [offset |-> position, stage |-> "log"]
  /\ UNCHANGED <<log, store, service, from, buffer, flush, progress, commits, history>>

(* The event is in error_log, or the attempt was; its offset is completed. *)
LogDirty ==
  LET o == handler.offset
      p == Mark({o}, o) IN
  /\ handler.stage = "log"
  /\ progress' = p
  /\ IF p.next > progress.next /\ Wanted(p)
     THEN Ask(p, "handler") /\ handler' = [handler EXCEPT !.stage = "commit"]
     ELSE handler' = NoHandler /\ UNCHANGED commits
  /\ dirty' = dirty \cup {o}
  /\ began' = began \cup (IF progress.next = 0 THEN {o} ELSE {})
  /\ UNCHANGED <<log, faults, store, service, position, from, buffer, flush, unsure, stale, missed>>

TimerFlush ==
  /\ service = "up" /\ flush.stage = "none" /\ buffer # <<>>
  /\ StartFlush(buffer)
  /\ UNCHANGED <<log, faults, store, service, position, from, handler, progress, commits, history>>

-----------------------------------------------------------------------------
Claimed == log[flush.batch[flush.at]]

(* All offsets of a stored batch are completed, and what is gained is      *)
(* committed; a handler that waits goes on after that.                     *)
Stored ==
  LET p == Mark(Members(flush.batch), flush.batch[1]) IN
  /\ progress' = p
  /\ IF Wanted(p)
     THEN Ask(p, "flush") /\ flush' = [flush EXCEPT !.stage = "commit"] /\ UNCHANGED handler
     ELSE /\ flush' = NoFlush /\ UNCHANGED commits
          /\ handler' = IF handler.stage = "flush" THEN NoHandler ELSE handler

(* Mutants: the answer of SET NX is not looked at; the new events of a     *)
(* batch are not gathered.                                                 *)
ClaimAnyKey ==
  /\ flush.stage = "keys" /\ flush.at <= Len(flush.batch)
  /\ keys' = keys \cup {Claimed}
  /\ flush' = [flush EXCEPT !.at = @ + 1, !.fresh = @ \cup {Claimed}]
  /\ UNCHANGED <<log, faults, groupOffset, rows, service, position, from, handler, buffer, progress,
                 commits, history>>

ClaimLastKey ==
  LET new == IF Claimed \in keys THEN {} ELSE {Claimed} IN
  /\ flush.stage = "keys" /\ flush.at <= Len(flush.batch)
  /\ keys' = keys \cup new
  /\ flush' = [flush EXCEPT !.at = @ + 1, !.fresh = new]
  /\ UNCHANGED <<log, faults, groupOffset, rows, service, position, from, handler, buffer, progress,
                 commits, history>>

(* SET NX: the event is new, or a duplicate that is left out.              *)
ClaimKey ==
  LET new == IF Claimed \in keys THEN {} ELSE {Claimed} IN
  /\ flush.stage = "keys" /\ flush.at <= Len(flush.batch)
  /\ keys' = keys \cup new
  /\ flush' = [flush EXCEPT !.at = @ + 1, !.fresh = @ \cup new]
  /\ UNCHANGED <<log, faults, groupOffset, rows, service, position, from, handler, buffer, progress,
                 commits, history>>

(* The insert of the new events, once all keys are asked for.              *)
InsertEvents ==
  /\ flush.stage = "keys" /\ flush.at > Len(flush.batch) /\ flush.fresh # {}
  /\ flush' = [flush EXCEPT !.stage = "insert"]
  /\ UNCHANGED <<log, faults, store, service, position, from, handler, buffer, progress, commits,
                 history>>

NothingNew ==
  /\ flush.stage = "keys" /\ flush.at > Len(flush.batch) /\ flush.fresh = {}
  /\ Stored
  /\ UNCHANGED <<log, faults, store, service, position, from, buffer, history>>

WithFresh == [e \in Event |-> rows[e] + (IF e \in flush.fresh THEN 1 ELSE 0)]

InsertDone ==
  /\ flush.stage = "insert"
  /\ rows' = WithFresh
  /\ Stored
  /\ UNCHANGED <<log, faults, groupOffset, keys, service, position, from, buffer, history>>

(* A command fails, with an error isRetryableError knows or another one;   *)
(* the answer lost, it may have been executed.                             *)
KeyFails ==
  /\ flush.stage = "keys" /\ flush.at <= Len(flush.batch)
  /\ Fault
  /\ \/ UNCHANGED <<keys, stale>>
     \/ /\ Claimed \notin keys
        /\ keys' = keys \cup {Claimed} /\ stale' = stale \cup {Claimed}
  /\ \E kind \in {"retryable", "unretryable"} : flush' = [flush EXCEPT !.stage = kind]
  /\ UNCHANGED <<log, groupOffset, rows, service, position, from, handler, buffer, progress, commits,
                 unsure, dirty, began, missed>>

InsertFails ==
  /\ flush.stage = "insert"
  /\ Fault
  /\ \/ UNCHANGED <<rows, unsure>>
     \/ rows' = WithFresh /\ unsure' = unsure \cup flush.fresh
  /\ \E kind \in {"retryable", "unretryable"} : flush' = [flush EXCEPT !.stage = kind]
  /\ UNCHANGED <<log, groupOffset, keys, service, position, from, handler, buffer, progress, commits,
                 stale, dirty, began, missed>>

(* The handler that waits for a failed flush rethrows, or takes its own    *)
(* message for dirty data.                                                 *)
FlushThrows ==
  \/ /\ handler.stage = "flush" /\ flush.stage = "retryable"
     /\ Redeliver(handler.offset)
     /\ handler' = NoHandler
  \/ /\ handler.stage = "flush" /\ flush.stage = "unretryable"
     /\ handler' = [handler EXCEPT !.stage = "log"]
     /\ UNCHANGED <<position, from, missed>>
  \/ /\ handler.stage # "flush"
     /\ UNCHANGED <<position, from, missed, handler>>

(* Mutants: the keys stay; the batch is not put back; pendingFlush is not  *)
(* reset.                                                                  *)
ReleaseNothing ==
  /\ flush.stage \in {"retryable", "unretryable"}
  /\ buffer' = flush.batch \o buffer /\ flush' = NoFlush
  /\ FlushThrows
  /\ UNCHANGED <<log, faults, store, service, progress, commits, unsure, stale, dirty, began>>

ReleaseAndForget ==
  /\ flush.stage \in {"retryable", "unretryable"}
  /\ keys' = keys \ flush.fresh
  /\ flush' = NoFlush
  /\ FlushThrows
  /\ UNCHANGED <<log, faults, groupOffset, rows, service, buffer, progress, commits, unsure, stale,
                 dirty, began>>

ReleaseStillPending ==
  /\ flush.stage \in {"retryable", "unretryable"}
  /\ keys' = keys \ flush.fresh
  /\ buffer' = flush.batch \o buffer
  /\ flush' = [NoFlush EXCEPT !.stage = "commit"]
  /\ FlushThrows
  /\ UNCHANGED <<log, faults, groupOffset, rows, service, progress, commits, unsure, stale, dirty,
                 began>>

(* The keys of the failed batch are released, those of left but for the    *)
(* error; the batch goes back to the head of the buffer.                   *)
ReleaseKeys ==
  \E left \in SUBSET flush.fresh :
    /\ flush.stage \in {"retryable", "unretryable"}
    /\ FaultIf(left # {})
    /\ keys' = keys \ (flush.fresh \ left)
    /\ stale' = stale \cup {e \in left : rows[e] = 0}
    /\ buffer' = flush.batch \o buffer
    /\ flush' = NoFlush
    /\ FlushThrows
    /\ UNCHANGED <<log, groupOffset, rows, service, progress, commits, unsure, dirty, began>>

(* The oldest commit is answered.  What is remembered as committed is the  *)
(* end of the prefix at that moment, not the offset that was sent.         *)
After(c) ==
  /\ commits' = Tail(commits)
  /\ IF c.by = "flush"
     THEN /\ flush' = NoFlush
          /\ handler' = IF handler.stage = "flush" THEN NoHandler ELSE handler
     ELSE handler' = NoHandler /\ UNCHANGED flush

Committed ==
  /\ commits # <<>>
  /\ groupOffset' = Head(commits).offset
  /\ progress' = [progress EXCEPT !.committed = progress.next]
  /\ After(Head(commits))
  /\ UNCHANGED <<log, faults, keys, rows, service, position, from, buffer, history>>

(* It fails; a process on its way down has left the group before.          *)
CommitFails ==
  /\ commits # <<>>
  /\ FaultIf(service = "up")
  /\ After(Head(commits))
  /\ UNCHANGED <<log, store, service, position, from, buffer, progress, history>>

-----------------------------------------------------------------------------
(* The group is rebalanced: what is not committed is fetched again, by a   *)
(* process that still has its buffer.                                      *)
Rejoin ==
  /\ service = "up" /\ Fault
  /\ position' = Resume /\ from' = Resume
  /\ missed' = missed \cup position..(Resume - 1)
  /\ UNCHANGED <<log, store, service, handler, buffer, flush, progress, commits, unsure, stale, dirty,
                 began>>

(* onModuleDestroy clears the timer and the consumer is closed.            *)
Shutdown ==
  /\ service = "up" /\ Fault
  /\ service' = "stopping"
  /\ UNCHANGED <<log, store, memory, history>>

(* onApplicationShutdown: the flush under way is waited for, then the rest *)
(* is flushed.                                                             *)
LastFlush ==
  /\ service = "stopping" /\ flush.stage = "none" /\ handler.stage = "idle"
  /\ service' = "closing"
  /\ StartFlush(buffer)
  /\ UNCHANGED <<log, faults, store, position, from, handler, progress, commits, history>>

Forget ==
  /\ service' = "down"
  /\ handler' = NoHandler /\ buffer' = <<>> /\ flush' = NoFlush
  /\ progress' = NoProgress /\ commits' = <<>>
  /\ UNCHANGED <<log, groupOffset, keys, position, from, dirty, began, missed>>

Exit ==
  /\ service = "closing" /\ flush.stage = "none"
  /\ Forget
  /\ UNCHANGED <<faults, rows, unsure, stale>>

(* The process dies.  A command under way has been executed or not.        *)
Crash ==
  /\ service # "down" /\ Fault
  /\ Forget
  /\ stale' = stale \cup {e \in flush.fresh : rows[e] = 0}
  /\ UNCHANGED <<rows, unsure>>

Restart ==
  /\ service = "down"
  /\ service' = "up"
  /\ position' = Resume /\ from' = Resume
  /\ missed' = missed \cup (IF groupOffset = 0 THEN 1..Len(log) ELSE {})
  /\ UNCHANGED <<log, faults, store, handler, buffer, flush, progress, commits, unsure, stale, dirty,
                 began>>

Handling == Consume \/ CompletionFails \/ CompletionRejects \/ LogDirty
Flushing == TimerFlush \/ ClaimKey \/ InsertEvents \/ NothingNew \/ InsertDone \/ KeyFails
              \/ InsertFails \/ ReleaseKeys \/ Committed \/ CommitFails
Stopping == Rejoin \/ Shutdown \/ LastFlush \/ Exit \/ Crash \/ Restart
IngestionNext == Handling \/ Flushing \/ Stopping

(* On its own: events arrive in any order and any number of times.         *)
Produce ==
  \E e \in Event : Append2Log(<<e>>) /\ UNCHANGED <<faults, ingestionVars>>

(* The timer of flushes runs, the process goes on when a command is        *)
(* answered, and one that is to stop stops.                                *)
IngestionFairness ==
  /\ WF_<<log, faults, ingestionVars>>(Flushing)
  /\ WF_<<log, faults, ingestionVars>>(LogDirty)
  /\ WF_<<log, faults, ingestionVars>>(LastFlush)
  /\ WF_<<log, faults, ingestionVars>>(Exit)

IngestionStart == IngestionInit /\ log = <<>> /\ faults = 0

IngestionSpec ==
  /\ IngestionStart
  /\ [][IngestionNext \/ Produce]_<<log, faults, ingestionVars>>

FairIngestionSpec == IngestionSpec /\ IngestionFairness

-----------------------------------------------------------------------------
(* However often an event is in the log and whatever fails between, it is  *)
(* stored once, unless ClickHouse stored a batch it reported as failed.    *)
StoredOnce == \A e \in Event : rows[e] > 1 => e \in unsure

(* A key stands for a stored event, or for one the flush under way will    *)
(* store or release; otherwise a flush ended without releasing it.         *)
KeyMeansStored ==
  \A e \in keys : rows[e] > 0 \/ e \in flush.fresh \/ e \in stale

(* What lies before the committed offset will not be delivered again: it   *)
(* is stored, or known to be given up: as dirty data, for a key left behind*)
(* , because the prefix was begun with dirty data after it, or because the *)
(* consumer had nothing committed when it began.                           *)
CommittedIsSettled ==
  \A o \in 1..groupOffset - 1 :
    \/ rows[log[o]] > 0
    \/ o \in dirty \cup missed \/ log[o] \in stale
    \/ \E d \in began : o < d

(* A buffered event leaves the process: it is flushed, however often the   *)
(* flush fails first, and no failure leaves a flush pending for ever.      *)
BufferSettles ==
  \A o \in Offset :
    LET held == Members(buffer) \cup Members(flush.batch) IN o \in held ~> o \notin held

(* The comment in handleEvent: an offset is committed only when its event  *)
(* is in event_log (or is dirty data), and a crash loses nothing.          *)
CommittedIsStored ==
  \A o \in 1..groupOffset - 1 : rows[log[o]] > 0 \/ o \in dirty
=============================================================================
