-------------------------- MODULE CleaningScheduler --------------------------
(***************************************************************************)
(* CleaningSchedulerService: the scans that find the slices still to be    *)
(* cleaned, the queue of tasks, their dispatch to nodes with room, retries *)
(* and the record of the day's run.  The fields of the service are the     *)
(* fields of mem; a handler is an operator from mem to the mems it may     *)
(* leave behind.                                                           *)
(*                                                                         *)
(* Of NodeRegistry only its records of active tasks are kept, by slice and *)
(* node: which nodes count as alive, which records are freed when a node   *)
(* is given up and which come back when it dials in again.  What the       *)
(* streams do to single frames is that module's subject.  Of the nodes     *)
(* only what the scans can see: a TypeScript node writes a slice at once,  *)
(* a Rust node in batches between setting and clearing the slice's         *)
(* incomplete marker.                                                      *)
(***************************************************************************)
EXTENDS Integers, Sequences, FiniteSets

CONSTANTS
  Slice,          \* the (date, session) pairs of event_log
  Date,           \* the day of a slice
  Rows,           \* event_log in its order: the slice of each row
  Node, RustNode,
  Slots,          \* task slots of each node
  MaxAttempts,    \* MAX_ATTEMPTS
  MaxDispatches,  \* MAX_DISPATCHES_PER_TURN
  MaxScans,       \* MAX_SCAN_RANGES
  PageSize,       \* scanPageSize
  MaxBuffered,    \* maxBufferedTasks
  LastDay,        \* bound: days
  MaxBoots,       \* bound: restarts of the service
  MaxAsks,        \* bound: calls of cleanNow
  MaxFaults       \* bound: failures of tasks, queries and saves, nodes gone

Day == 1..LastDay

ASSUME ScheduleAssumption ==
  /\ Date \in [Slice -> Day]
  /\ Rows \in Seq(Slice) /\ \A s \in Slice : \E i \in DOMAIN Rows : Rows[i] = s
  /\ RustNode \subseteq Node
  /\ Slots \in [Node -> Nat \ {0}]
  /\ {MaxDispatches, MaxScans, PageSize, MaxBuffered, LastDay} \subseteq Nat \ {0}
  /\ {MaxAttempts, MaxBoots, MaxAsks, MaxFaults} \subseteq Nat

Never == 0            \* instead of a day
All == 0              \* the key of the scan of everything up to yesterday
Key == {All} \cup Day \* of a scan; a day is the date asked for

(* clean:<run>:<slice>[:r<attempt>], and required_runtime = 'rust'.        *)
Task == [slice : Slice, run : Day, attempt : 0..MaxAttempts, rust : BOOLEAN]
Scan == [run : Day, cursor : 0..Len(Rows), failed : BOOLEAN, next : Day \cup {Never},
         waiting : BOOLEAN]
NoScan == [run |-> Never]

(* A page being read: still to be queried, the completed slices known, or  *)
(* ready to be taken over.                                                 *)
NotReading == [stage |-> "none"]
Reading ==
  {NotReading}
    \cup [stage : {"query"}, key : Key, limit : 1..PageSize]
    \cup [stage : {"marks"}, key : Key, limit : 1..PageSize, completed : SUBSET Slice]
    \cup [stage : {"ready"}, key : Key, limit : 1..PageSize,
          rows : SUBSET (Slice \X BOOLEAN)]

VARIABLES
  mem,      \* the service's memory, see Memory
  day,      \* today
  away,     \* what nodes execute that the service has no record of
  vacant,   \* records of the service that nothing is executed for
  answered, \* results Rust nodes keep, to list and send them when they dial in
  unheard,  \* those of them this service has not had
  orphans,  \* history: the slices whose execution this service lost track of
  adrift,   \* history: slices with a lost end or execution, not at rest since
  written,  \* slices with rows in final_event_log
  marked,   \* slices with the Rust incomplete marker in Redis
  lastRun,  \* clean:scheduler:last_run_date
  boots, asks, faults

nodeVars == <<away, vacant, answered, unheard>>
histVars == <<orphans, adrift>>
dataVars == <<written, marked>>
limitVars == <<boots, asks, faults>>
worldVars == <<day, nodeVars, histVars, dataVars, lastRun, limitVars>>
vars == <<mem, worldVars>>

Place == Slice \X Node

Memory ==
  [queue : SUBSET Task,                 \* queue
   out : SUBSET Task,                   \* inflight and dispatchedTasks
   attempts : [Slice -> [Day -> 0..MaxAttempts]],
   recent : [Slice -> Day \cup {Never}],  \* recentSlices
   loaded : [Day -> Nat],               \* loadedRuns
   scans : [Key -> Scan \cup {NoScan}],
   cont : BOOLEAN,                      \* scanContinuation is set
   turn : BOOLEAN,                      \* drainContinuation is set
   reading : Reading,                   \* scanInFlight and bufferedPage
   auto : Day \cup {Never},             \* automaticRunDate
   saving : Day \cup {Never},           \* savingDailyRun, with the date
   ticking : BOOLEAN,                   \* tick() awaits the configuration
   online : SUBSET Node,                \* the registry's nodes that are alive
   slots : SUBSET Place,                \* active tasks, with notifySettlement
   restored : SUBSET Place,             \* active tasks taken back, without
   lost : SUBSET Task]                  \* tasks the registry still has to settle

TypeOK ==
  /\ mem \in Memory
  /\ day \in Day
  /\ {away, vacant, answered, unheard} \subseteq SUBSET Place
  /\ orphans \in SUBSET Slice
  /\ adrift \in SUBSET orphans
  /\ written \in SUBSET Slice
  /\ marked \in SUBSET Slice
  /\ lastRun \in Day \cup {Never}
  /\ boots \in 0..MaxBoots
  /\ asks \in 0..MaxAsks
  /\ faults \in 0..MaxFaults

Booted ==
  [queue |-> {}, out |-> {},
   attempts |-> [s \in Slice |-> [d \in Day |-> 0]],
   recent |-> [s \in Slice |-> Never],
   loaded |-> [d \in Day |-> 0],
   scans |-> [k \in Key |-> NoScan],
   cont |-> FALSE, turn |-> FALSE, reading |-> NotReading,
   auto |-> Never, saving |-> Never, ticking |-> FALSE,
   online |-> {}, slots |-> {}, restored |-> {}, lost |-> {}]

Init ==
  /\ mem = Booted
  /\ day = 1
  /\ away = {} /\ vacant = {} /\ answered = {} /\ unheard = {}
  /\ orphans = {} /\ adrift = {} /\ written = {} /\ marked = {}
  /\ lastRun = Never
  /\ boots = 0 /\ asks = 0 /\ faults = 0

-----------------------------------------------------------------------------
(* What the handlers look at.                                              *)

SlicesOf(tasks) == {t.slice : t \in tasks}
Records(m) == m.slots \cup m.restored          \* activeTasks of the nodes
ActiveSlices(m) == {x[1] : x \in Records(m)}   \* hasActiveSlice
LoadedCount(m) == Cardinality(m.queue) + Cardinality(m.out)
Free(m, n) == Slots[n] - Cardinality({x \in Records(m) : x[2] = n})
Idle(m) == {n \in m.online : Free(m, n) > 0}   \* pickIdleNode

(* throughDate, exclusive of today when the run was asked for.             *)
Through(k, scan) == IF k = All THEN scan.run - 1 ELSE k

Scanned(m) == {k \in Key : m.scans[k] # NoScan}
(* The runs that have a scan or a loaded task.                             *)
Runs(m) ==
  {m.scans[k].run : k \in Scanned(m)} \cup {d \in Day : m.loaded[d] > 0}
(* Mistake: any scan may go on, also one of a newer run.                   *)
ReadyAny(m) ==
  {k \in Scanned(m) : ~m.scans[k].failed /\ ~m.scans[k].waiting}

(* nextReadyScan: only of the oldest run.                                  *)
Ready(m) ==
  {k \in Scanned(m) :
     /\ \A d \in Runs(m) : m.scans[k].run <= d
     /\ ~m.scans[k].failed
     /\ ~m.scans[k].waiting}

(* What the nodes execute: most of what the service has records of, and    *)
(* what they were given before it restarted or gave them up.               *)
Executing == (Records(mem) \ vacant) \cup away
OnNodes == {x[1] : x \in Executing}

-----------------------------------------------------------------------------
(* The operators of the service.                                           *)

(* Mistake: tasks in flight do not keep the day open.                      *)
FinishedDayEarly(m) ==
  IF m.saving = Never /\ m.auto # Never /\ Scanned(m) = {} /\ m.queue = {}
  THEN [m EXCEPT !.saving = m.auto]
  ELSE m

(* finishDailyRun: starts to record the day once nothing is left to do.    *)
FinishedDay(m) ==
  IF /\ m.saving = Never /\ m.auto # Never
     /\ Scanned(m) = {} /\ m.queue = {} /\ m.out = {}
  THEN [m EXCEPT !.saving = m.auto]
  ELSE m

(* A scan asked for again on a later day starts over once no task of the   *)
(* old round is left.                                                      *)
RolledOver(m) ==
  [m EXCEPT !.scans =
     [k \in Key |->
        IF @[k] # NoScan /\ @[k].waiting /\ @[k].next # Never
        THEN [run |-> @[k].next, cursor |-> 0, failed |-> @[k].failed, next |-> Never,
              waiting |-> FALSE]
        ELSE @[k]]]

(* requestScan *)
Requested(m) ==
  LET r == IF LoadedCount(m) = 0 THEN RolledOver(m) ELSE m
  IN IF m.reading # NotReading \/ m.cont THEN m
     ELSE IF Ready(r) = {} THEN FinishedDay(r)
     ELSE IF LoadedCount(r) < MaxBuffered /\ Idle(r) # {} THEN [r EXCEPT !.cont = TRUE]
     ELSE r

(* enqueueBacklog; the date asked for is covered by a full scan that       *)
(* reaches it.                                                             *)
BacklogKey(m, k) ==
  IF k # All /\ m.scans[All] # NoScan /\ m.scans[All].run > k THEN All ELSE k

Refused(m, k) ==
  BacklogKey(m, k) \notin Scanned(m) /\ Cardinality(Scanned(m)) >= MaxScans

AskedFor(m, k, today) ==
  LET key == BacklogKey(m, k)
      fresh == [run |-> today, cursor |-> 0, failed |-> FALSE, next |-> Never,
                waiting |-> FALSE]
      again == [m.scans[key] EXCEPT
                  !.next = IF m.scans[key].run # today THEN today ELSE @,
                  !.failed = FALSE]
  IN Requested([m EXCEPT !.scans[key] = IF @ # NoScan THEN again ELSE fresh])

(* enqueueTask, for tasks of different slices.                             *)
Enqueued(m, tasks) ==
  LET taken == {t \in tasks :
                  /\ t.slice \notin SlicesOf(m.queue \cup m.out) \cup ActiveSlices(m)
                  /\ m.recent[t.slice] # t.run}
  IN [m EXCEPT
        !.queue = @ \cup taken,
        !.loaded = [d \in Day |-> @[d] + Cardinality({t \in taken : t.run = d})]]

(* One turn of drain(): which queued tasks go to which node.  It ends at   *)
(* MaxDispatches, or when no task left has a node with room for it.        *)
Plans(m) ==
  LET waiting == {t \in m.queue : t.slice \notin ActiveSlices(m)}
      Fit(t, n) == n \in Idle(m) /\ (t.rust => n \in RustNode)
      Load(p, n) == Cardinality({t \in DOMAIN p : p[t] = n})
  IN {p \in UNION {[D -> Node] : D \in SUBSET waiting} :
        /\ Cardinality(DOMAIN p) <= MaxDispatches
        /\ \A t \in DOMAIN p : Fit(t, p[t])
        /\ \A n \in Node : Load(p, n) > 0 => Load(p, n) <= Free(m, n)
        /\ \/ Cardinality(DOMAIN p) = MaxDispatches
           \/ \A t \in waiting \ DOMAIN p, n \in Node : Fit(t, n) => Load(p, n) = Free(m, n)}

(* Mistake: a retry may go to any node.                                    *)
SentAnywhere(t, n) == t

(* A task handed to a Rust node may only be retried by one.                *)
Sent(t, n) == [t EXCEPT !.rust = @ \/ n \in RustNode]

Dispatched(m, p) ==
  LET left == m.queue \ DOMAIN p
  IN Requested(
       [m EXCEPT
          !.queue = left,
          !.out = @ \cup {Sent(t, p[t]) : t \in DOMAIN p},
          !.slots = @ \cup {<<t.slice, p[t]>> : t \in DOMAIN p},
          !.turn = Cardinality(DOMAIN p) = MaxDispatches /\ left # {}])

Drained(m) == {Dispatched(m, p) : p \in Plans(m)}

(* Mistake: a settled slice is not remembered.                             *)
SettledForgotten(m, t, failed) ==
  LET tries == m.attempts[t.slice][t.run] + 1
      retry == failed /\ tries <= MaxAttempts
      told == [m EXCEPT
                 !.out = @ \ {t},
                 !.loaded[t.run] = @ - 1,
                 !.attempts[t.slice][t.run] = IF retry THEN tries ELSE 0]
  IN IF retry THEN Enqueued(told, {[t EXCEPT !.attempt = tries]}) ELSE told

(* onTaskSettled, up to its drain().                                       *)
Settled(m, t, failed) ==
  LET tries == m.attempts[t.slice][t.run] + 1
      retry == failed /\ tries <= MaxAttempts
      told == [m EXCEPT
                 !.out = @ \ {t},
                 !.loaded[t.run] = @ - 1,
                 !.attempts[t.slice][t.run] = IF retry THEN tries ELSE 0,
                 !.recent[t.slice] = IF retry THEN @ ELSE t.run]
  IN IF retry THEN Enqueued(told, {[t EXCEPT !.attempt = tries]}) ELSE told

-----------------------------------------------------------------------------
(* Requests and timers.  Handlers run one at a time; one that settles      *)
(* several tasks is not done before the last.                              *)
Quiet == mem.lost = {}

(* cleanNow: for one date before today, or for everything up to yesterday. *)
CleanNow(k) ==
  /\ Quiet
  /\ k < day
  /\ ~Refused(mem, k)
  /\ asks < MaxAsks
  /\ asks' = asks + 1
  /\ mem' \in Drained(AskedFor(mem, k, day))
  /\ UNCHANGED <<day, nodeVars, histVars, dataVars, lastRun, boots, faults>>


(* tick() up to its first await: failed scans may go on (resumeScans).     *)
TickBegin ==
  /\ Quiet
  /\ ~mem.ticking
  /\ mem' = Requested([mem EXCEPT !.ticking = TRUE,
                         !.scans = [k \in Key |-> IF @[k] = NoScan THEN NoScan
                                                  ELSE [@[k] EXCEPT !.failed = FALSE]]])
  /\ UNCHANGED worldVars

(* due: automatic cleaning is enabled and its time of day has come.        *)
TickEnd(due) ==
  /\ Quiet
  /\ mem.ticking
  /\ LET m == [mem EXCEPT !.ticking = FALSE]
         starts == due /\ lastRun # day /\ m.auto # day
     IN IF ~starts THEN mem' \in Drained(m)
        ELSE IF Refused(m, All) THEN mem' = m
        ELSE mem' \in Drained([AskedFor(m, All, day) EXCEPT !.auto = day])
  /\ UNCHANGED worldVars

DrainTurn ==
  /\ Quiet
  /\ mem.turn
  /\ mem' \in Drained([mem EXCEPT !.turn = FALSE])
  /\ UNCHANGED worldVars

(* The record of the day's run reaches Redis, or does not.                 *)
SaveDay(ok) ==
  /\ Quiet
  /\ mem.saving # Never
  /\ mem' = [mem EXCEPT !.saving = Never,
                        !.auto = IF ok /\ @ = mem.saving THEN Never ELSE @]
  /\ lastRun' = IF ok THEN mem.saving ELSE lastRun
  /\ faults' = IF ok THEN faults ELSE faults + 1
  /\ faults' <= MaxFaults
  /\ UNCHANGED <<day, nodeVars, histVars, dataVars, boots, asks>>

-----------------------------------------------------------------------------
(* Reading the backlog, a page at a time.                                  *)

(* Mistake: tasks in flight take no room.                                  *)
LoadPageQueueOnly ==
  /\ Quiet
  /\ mem.cont
  /\ LET m == [mem EXCEPT !.cont = FALSE]
         room == MaxBuffered - Cardinality(m.queue)
     IN IF Idle(m) = {} \/ room <= 0 \/ Ready(m) = {}
        THEN mem' = m
        ELSE \E k \in Ready(m) :
               mem' = [m EXCEPT !.reading =
                         [stage |-> "query", key |-> k,
                          limit |-> IF room < PageSize THEN room ELSE PageSize]]
  /\ UNCHANGED worldVars

(* loadNextPage up to its query.  The page is no larger than the room for  *)
(* tasks, which only grows until the page is there.  A slice that is with  *)
(* nobody when a page begins is no longer adrift.                          *)
LoadPage ==
  /\ Quiet
  /\ mem.cont
  /\ LET m == [mem EXCEPT !.cont = FALSE]
         room == MaxBuffered - LoadedCount(m)
     IN IF Idle(m) = {} \/ room <= 0 \/ Ready(m) = {}
        THEN mem' = m
        ELSE \E k \in Ready(m) :
               mem' = [m EXCEPT !.reading =
                         [stage |-> "query", key |-> k,
                          limit |-> IF room < PageSize THEN room ELSE PageSize]]
  /\ adrift' = adrift \cap
                 (SlicesOf(mem.queue \cup mem.out) \cup ActiveSlices(mem) \cup OnNodes)
  /\ UNCHANGED <<day, nodeVars, orphans, dataVars, lastRun, limitVars>>

(* The rows of event_log the page of a scan covers: the first after its    *)
(* cursor, of the date asked for.                                          *)
InRange(k, scan) ==
  {i \in scan.cursor + 1..Len(Rows) :
     /\ Date[Rows[i]] <= Through(k, scan)
     /\ k # All => Date[Rows[i]] = k}
PageRows(k, scan, limit) ==
  LET range == InRange(k, scan)
  IN {i \in range : Cardinality({j \in range : j <= i}) <= limit}

(* Which slices of the page have rows in final_event_log already.          *)
QueryCompleted ==
  /\ mem.reading.stage = "query"
  /\ mem' = [mem EXCEPT !.reading =
               [stage |-> "marks", key |-> @.key, limit |-> @.limit,
                completed |-> written]]
  /\ UNCHANGED worldVars

(* Then which of them Rust left incomplete.                                *)
QueryMarks ==
  /\ mem.reading.stage = "marks"
  /\ LET r == mem.reading
         found == {Rows[i] : i \in PageRows(r.key, mem.scans[r.key], r.limit)}
     IN mem' = [mem EXCEPT !.reading =
                  [stage |-> "ready", key |-> r.key, limit |-> r.limit,
                   rows |-> {<<s, s \in marked>> :
                               s \in (found \ r.completed) \cup (found \cap marked)}]]
  /\ UNCHANGED worldVars

(* The page is taken over: its slices are queued, the cursor moves, and a  *)
(* scan at its end is dropped or waits for the round asked for since.      *)
PageArrives ==
  /\ Quiet
  /\ mem.reading.stage = "ready"
  /\ LET r == mem.reading
         scan == mem.scans[r.key]
         page == PageRows(r.key, scan, r.limit)
         tasks == {[slice |-> x[1], run |-> scan.run, attempt |-> 0, rust |-> x[2]] :
                     x \in r.rows}
         moved == [scan EXCEPT
                     !.cursor = IF page = {} THEN @
                                ELSE CHOOSE i \in page : \A j \in page : j <= i]
         ended == Cardinality(page) < r.limit
         m == [Enqueued(mem, tasks) EXCEPT
                 !.reading = NotReading,
                 !.scans[r.key] = IF ended /\ scan.next = Never THEN NoScan
                                  ELSE [moved EXCEPT !.waiting = ended]]
     IN mem' \in Drained(m)
  /\ UNCHANGED worldVars

(* A query fails; the scan keeps its cursor until the next tick.           *)
PageFails ==
  /\ Quiet
  /\ mem.reading # NotReading
  /\ faults < MaxFaults
  /\ faults' = faults + 1
  /\ mem' \in Drained([mem EXCEPT !.scans[mem.reading.key].failed = TRUE,
                                  !.reading = NotReading])
  /\ UNCHANGED <<day, nodeVars, histVars, dataVars, lastRun, boots, asks>>

-----------------------------------------------------------------------------
(* Nodes and tasks, by way of the registry.                                *)

(* applyProgress: the end of an active task frees its slot, the scheduler  *)
(* is told unless the task was taken back, and drains for the room.        *)
Reported(m, s, n, failed) ==
  LET freed == [m EXCEPT !.slots = @ \ {<<s, n>>}, !.restored = @ \ {<<s, n>>}]
      mine == {t \in m.out : t.slice = s /\ <<s, n>> \in m.slots}
      told == IF mine = {} THEN {freed}
              ELSE Drained(Settled(freed, CHOOSE t \in mine : TRUE, failed))
  IN UNION {Drained(x) : x \in told}

(* A result of node n is kept there for replay if it runs Rust.            *)
ResultKept(s, n) == IF n \in RustNode THEN {<<s, n>>} ELSE {}

(* An alive node reports the end of a task at once.                        *)
EndHeard(s, n, failed) ==
  /\ n \in mem.online
  /\ mem' \in Reported(mem, s, n, failed)
  /\ answered' = answered \cup ResultKept(s, n)
  /\ UNCHANGED <<away, vacant, unheard, histVars>>

(* The end of a task the service has no record of.                         *)
EndAway(s, n) ==
  /\ <<s, n>> \in away
  /\ away' = away \ {<<s, n>>}
  /\ answered' = answered \cup ResultKept(s, n)
  /\ unheard' = unheard \cup ResultKept(s, n)
  /\ UNCHANGED <<mem, vacant, histVars>>

(* A TypeScript node without a stream has nobody to tell the end to; its   *)
(* record stays behind.  A Rust node keeps it until it is back, and what   *)
(* the service still has a record of it may as well end then.              *)
EndMissed(s, n) ==
  /\ n \notin mem.online \cup RustNode
  /\ <<s, n>> \in Records(mem) \ vacant
  /\ vacant' = vacant \cup {<<s, n>>}
  /\ orphans' = orphans \cup {s}
  /\ adrift' = adrift \cup {s}
  /\ UNCHANGED <<mem, away, answered, unheard>>

Ends(s, n, failed) ==
  EndHeard(s, n, failed) \/ EndAway(s, n) \/ EndMissed(s, n)

TaskSucceeds(s, n) ==
  /\ Quiet
  /\ <<s, n>> \in Executing
  /\ written' = written \cup {s}
  /\ marked' = IF n \in RustNode THEN marked \ {s} ELSE marked
  /\ Ends(s, n, FALSE)
  /\ UNCHANGED <<day, lastRun, limitVars>>

TaskFails(s, n) ==
  /\ Quiet
  /\ <<s, n>> \in Executing
  /\ faults < MaxFaults
  /\ faults' = faults + 1
  /\ Ends(s, n, TRUE)
  /\ UNCHANGED <<day, dataVars, lastRun, boots, asks>>

(* A Rust node sets the marker of a slice before its first batch.          *)
RustMarks(s, n) ==
  /\ n \in RustNode /\ <<s, n>> \in Executing
  /\ marked' = marked \cup {s}
  /\ UNCHANGED <<mem, day, nodeVars, histVars, written, lastRun, limitVars>>

RustWrites(s, n) ==
  /\ n \in RustNode /\ <<s, n>> \in Executing
  /\ s \in marked
  /\ written' = written \cup {s}
  /\ UNCHANGED <<mem, day, nodeVars, histVars, marked, lastRun, limitVars>>

(* The stream of a node ends or its heartbeats stop: it is not alive, its  *)
(* records stay and what it executes goes on.                              *)
NodeGone(n) ==
  /\ Quiet
  /\ n \in mem.online
  /\ faults < MaxFaults
  /\ faults' = faults + 1
  /\ mem' = [mem EXCEPT !.online = @ \ {n}]
  /\ UNCHANGED <<day, nodeVars, histVars, dataVars, lastRun, boots, asks>>

OfNode(places, n) == {x \in places : x[2] = n}

(* It turns out to be killed: nothing of it goes on and no result is kept. *)
NodeDies(n) ==
  /\ n \notin mem.online
  /\ OfNode(Executing \cup answered, n) # {}
  /\ away' = away \ OfNode(away, n)
  /\ vacant' = vacant \cup OfNode(Records(mem), n)
  /\ answered' = answered \ OfNode(answered, n)
  /\ unheard' = unheard \ OfNode(unheard, n)
  /\ UNCHANGED <<mem, day, histVars, dataVars, lastRun, limitVars>>

(* The status timer gives the node up: its records are freed, and those of *)
(* the scheduler's tasks settled as failed.  The node is not told.         *)
SettleIfBusy(n) ==
  /\ Quiet
  /\ n \notin mem.online
  /\ LET gone == OfNode(Records(mem), n)
         working == gone \ vacant
     IN /\ gone # {}
        /\ mem' = [mem EXCEPT !.slots = @ \ gone,
                              !.restored = @ \ gone,
                              !.lost = {t \in mem.out : <<t.slice, n>> \in mem.slots}]
        /\ away' = away \cup working
        /\ vacant' = vacant \ gone
        /\ orphans' = orphans \cup {x[1] : x \in working}
        /\ adrift' = adrift \cup {x[1] : x \in working}
  /\ UNCHANGED <<day, answered, unheard, dataVars, lastRun, limitVars>>

NotifyLost(t) ==
  /\ t \in mem.lost
  /\ mem' \in Drained(Settled([mem EXCEPT !.lost = @ \ {t}], t, TRUE))
  /\ UNCHANGED worldVars

(* A node dials in, or its heartbeats return after a time-out, and it      *)
(* lists what it executes and the results it keeps.                        *)
(* Records it does not list are freed, and settled as failed if they are   *)
(* the scheduler's; what it lists beyond the records takes slots again.    *)
NodeJoins(n) ==
  /\ Quiet
  /\ n \notin mem.online
  /\ LET listed == OfNode(Executing \cup unheard, n)
         missing == OfNode(Records(mem), n) \ listed
         back == listed \ mem.slots
         lost == {t \in mem.out : <<t.slice, n>> \in mem.slots \cap missing}
         m == [mem EXCEPT !.online = @ \cup {n},
                          !.slots = @ \ missing,
                          !.restored = (@ \ missing) \cup back,
                          !.lost = lost]
     IN /\ mem' \in IF lost = {} /\ Free(m, n) > 0 THEN Drained(m) ELSE {m}
        /\ away' = away \ OfNode(away, n)
        /\ vacant' = (vacant \ OfNode(vacant, n)) \cup (listed \ Executing)
        /\ orphans' = orphans \cup {x[1] : x \in back}
        /\ adrift' = adrift \cup {x[1] : x \in back}
  /\ UNCHANGED <<day, answered, unheard, dataVars, lastRun, limitVars>>

(* A Rust node sends a result again that it listed: the slot is free.      *)
ResultReplayed(s, n) ==
  /\ Quiet
  /\ n \in mem.online
  /\ <<s, n>> \in mem.restored \cap vacant
  /\ mem' \in Reported(mem, s, n, FALSE)
  /\ vacant' = vacant \ {<<s, n>>}
  /\ unheard' = unheard \ {<<s, n>>}
  /\ UNCHANGED <<day, away, answered, histVars, dataVars, lastRun, limitVars>>

Restart ==
  /\ boots < MaxBoots
  /\ boots' = boots + 1
  /\ mem' = Booted
  /\ away' = Executing
  /\ vacant' = {}
  /\ unheard' = answered
  /\ orphans' = OnNodes
  /\ adrift' = OnNodes
  /\ UNCHANGED <<day, answered, dataVars, lastRun, asks, faults>>

NextDay ==
  /\ day < LastDay
  /\ day' = day + 1
  /\ UNCHANGED <<mem, nodeVars, histVars, dataVars, lastRun, limitVars>>

-----------------------------------------------------------------------------
Next ==
  \/ \E k \in Key : CleanNow(k)
  \/ TickBegin
  \/ \E due \in BOOLEAN : TickEnd(due)
  \/ DrainTurn
  \/ \E ok \in BOOLEAN : SaveDay(ok)
  \/ LoadPage
  \/ QueryCompleted
  \/ QueryMarks
  \/ PageArrives
  \/ PageFails
  \/ \E s \in Slice, n \in Node : TaskSucceeds(s, n)
  \/ \E s \in Slice, n \in Node : TaskFails(s, n)
  \/ \E s \in Slice, n \in Node : RustMarks(s, n)
  \/ \E s \in Slice, n \in Node : RustWrites(s, n)
  \/ \E n \in Node : NodeGone(n)
  \/ \E n \in Node : NodeDies(n)
  \/ \E n \in Node : SettleIfBusy(n)
  \/ \E t \in mem.lost : NotifyLost(t)
  \/ \E n \in Node : NodeJoins(n)
  \/ \E s \in Slice, n \in RustNode : ResultReplayed(s, n)
  \/ Restart
  \/ NextDay

Spec == Init /\ [][Next]_vars

(* Timers run and continuations fire, queries and saves return, nodes dial *)
(* in again and end their tasks.  Nobody has to ask for a cleaning.        *)
Fairness ==
  /\ WF_vars(TickBegin)
  /\ SF_vars(TickEnd(TRUE))
  /\ WF_vars(DrainTurn)
  /\ WF_vars(SaveDay(TRUE))
  /\ WF_vars(LoadPage)
  /\ WF_vars(QueryCompleted \/ QueryMarks \/ PageArrives)
  /\ WF_vars(\E t \in mem.lost : NotifyLost(t))
  /\ \A n \in Node :
       /\ WF_vars(NodeJoins(n))
       /\ \A s \in Slice : WF_vars(TaskSucceeds(s, n)) /\ WF_vars(ResultReplayed(s, n))

FairSpec == Spec /\ Fairness

-----------------------------------------------------------------------------
Clean(s) == s \in written /\ s \notin marked

(* A slice is cleaned by one node at a time, and never again once it is    *)
(* clean, however late the page that listed it arrives (backlogKey).       *)
CleanedOnceEver ==
  /\ \A x, y \in Executing : x[1] = y[1] => x = y
  /\ \A x \in Executing : ~Clean(x[1])

(* The same but for slices whose execution or end the service lost track   *)
(* of: kept by a node over a restart, given up by the status timer while   *)
(* the node worked on, ended unheard, or taken back when a node dialled    *)
(* in.  They are left out until they are with nobody when a page begins,   *)
(* since a page may have listed such a slice before its task ended.        *)
CleanedOnce ==
  /\ \A x, y \in Executing : x[1] = y[1] => x = y \/ x[1] \in adrift
  /\ \A x \in Executing : Clean(x[1]) => x[1] \in adrift

(* What Rust left incomplete is finished by Rust: TypeScript nodes would   *)
(* take the written part for the whole (required_runtime).                 *)
RustFinishesItsOwn ==
  \A x \in Executing : x[1] \in marked => x[2] \in RustNode \/ x[1] \in adrift

(* A newer run never overtakes tasks of an older one, and the counter that *)
(* enforces it agrees with the tasks loaded (loadedRuns).                  *)
OneRunAtATime ==
  /\ \A t, u \in mem.queue \cup mem.out : t.run = u.run
  /\ \A d \in Day :
       mem.loaded[d] = Cardinality({t \in mem.queue \cup mem.out : t.run = d})

(* The page being read still fits: the tasks loaded never exceed their     *)
(* limit, whatever is settled or retried while the query runs.             *)
BufferBounded ==
  LoadedCount(mem)
    + (IF mem.reading.stage = "ready" THEN Cardinality(mem.reading.rows)
       ELSE IF mem.reading # NotReading THEN mem.reading.limit ELSE 0) <= MaxBuffered

(* The day's run is recorded only when each slice due by then was cleaned, *)
(* given up in this very run, or is a later run's business                 *)
(* (finishDailyRun); else a restart would not look for it again today.     *)
(* But not one whose execution or end the service lost track of: while a   *)
(* task taken back has its slice active, the scan passes it by, its retry  *)
(* is refused (enqueueTask), and nobody retries it when it fails.          *)
DueHandled(d) ==
  \A s \in Slice : Date[s] < d => Clean(s) \/ mem.recent[s] >= d \/ s \in orphans

RecordedRunIsDone == [][lastRun' # lastRun => DueHandled(lastRun')]_vars

=============================================================================
