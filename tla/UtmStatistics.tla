---------------------------- MODULE UtmStatistics ----------------------------
(***************************************************************************)
(* The statistics of UTM values (UtmService): how often each value occurs  *)
(* in the event log, summed up day by day into a table behind a cursor.    *)
(*                                                                         *)
(* Runs - the daily job, and three kinds somebody asks for - exclude each  *)
(* other with a key in Redis that expires and that every run deletes when  *)
(* it ends, whoever set it.  A run is one step per await.  It may fail at  *)
(* any of them, and the process may die, which leaves the key.             *)
(*                                                                         *)
(* The events of a value on a day are one: what matters is how often the   *)
(* total of the value contains them.  The dates of first and last sight    *)
(* are those of the days a total contains.                                 *)
(***************************************************************************)
EXTENDS Naturals, FiniteSets

CONSTANTS
  Runs,        \* bound: runs at one time
  Values,      \* bound: values 1..Values, in the order of the aggregate
  Days,        \* bound: days
  ChunkSize,   \* UTM_STAT_CHUNK_SIZE
  MaxAsked,    \* bound: runs somebody asks for
  MaxEdits,    \* bound: deletions
  MaxFaults,   \* bound: failures, crashes, and expiries under a run
  MaxOverlaps, \* bound: runs started while another is under way
  MaxPairs     \* bound: values times days with events

ASSUME UtmAssumption ==
  /\ Runs \in Nat \ {0} /\ Values \in Nat \ {0}
  /\ Days \in Nat \ (0..1) /\ ChunkSize \in Nat \ {0}
  /\ MaxAsked \in Nat /\ MaxEdits \in Nat /\ MaxFaults \in Nat
  /\ MaxOverlaps \in Nat /\ MaxPairs \in Nat

Proc == 1..Runs
Value == 1..Values
Day == 1..Days
Pair == Value \X Day

VARIABLES
  today,
  log,          \* event_log: the values and days it has events of
  known,        \* utm_item: the values with a row
  deleted,      \* the rows marked deleted
  count,        \* per row and day, how often its total contains the events
  cursor,       \* sync_cursor: the last day counted; 0: no row
  lock,         \* UTM_STAT_LOCK_KEY is set
  run,          \* per process, the run under way and what it has read
  \* history
  asked, edits, faults,
  expired,      \* the key has expired under a run
  overlaps,     \* runs started while another was under way
  again,        \* runs that count days the cursor has passed, or recounts
                \* of days it has not
  covered,      \* the days of the runs that have ended well
  passed,       \* the days the cursor went past for a full sync from a later date
  lost          \* what a run has left out: late, deleted, or recounted away

blame == <<faults, expired, overlaps, again>>
table == <<known, deleted, count, cursor>>
history == <<asked, edits, blame, covered, passed, lost>>
vars == <<today, log, table, lock, run, history>>

(* A full sync with a start date asked for is one "from" that date.        *)
Full == {"full", "from"}
Kind == {"daily", "increment", "recalc"} \cup Full
At == {"idle", "target", "cursor", "aggregate", "deleted", "chunks", "getCursor", "insertCursor",
       "setCursor", "release"}
NoRun == [at |-> "idle", kind |-> "daily", value |-> 1, from |-> 0, to |-> 0, rows |-> {}]

TypeOK ==
  /\ today \in Day /\ log \subseteq Pair
  /\ deleted \subseteq known /\ known \subseteq Value
  /\ count \in [Pair -> Nat] /\ cursor \in 0..Days /\ lock \in BOOLEAN
  /\ run \in [Proc -> [at : At, kind : Kind, value : Value, from : 0..(Days + 1), to : 0..Days,
                       rows : SUBSET Pair]]
  /\ asked \in 0..MaxAsked /\ edits \in 0..MaxEdits /\ faults \in 0..MaxFaults
  /\ expired \in BOOLEAN /\ overlaps \in 0..MaxOverlaps /\ again \in Nat
  /\ covered \subseteq 0..(Days + 1) /\ passed \subseteq Day /\ lost \subseteq Pair

Init ==
  /\ today = 2 /\ log = {} /\ known = {} /\ deleted = {} /\ count = [p \in Pair |-> 0]
  /\ cursor = 0 /\ lock = FALSE /\ run = [p \in Proc |-> NoRun]
  /\ asked = 0 /\ edits = 0 /\ faults = 0 /\ expired = FALSE /\ overlaps = 0 /\ again = 0
  /\ covered = {} /\ passed = {} /\ lost = {}

Running == {p \in Proc : run[p].at # "idle"}
Fault == faults < MaxFaults /\ faults' = faults + 1

(* resolveTargetDate with the default offset, and minEventDate.            *)
Yesterday == today - 1
DaysOf(rows) == {r[2] : r \in rows}
FirstDay(default) ==
  IF log = {} THEN default ELSE CHOOSE d \in DaysOf(log) : \A e \in DaysOf(log) : d <= e

-----------------------------------------------------------------------------
(* Events of today arrive, and of yesterday that have been waiting.  Too   *)
(* late: the cursor has reached their day, or a run has counted or read it *)
(* or, in search of the first day of the log, has begun behind it.         *)
TooLate(d) ==
  \/ d <= cursor \/ d \in covered
  \/ \E p \in Running :
       \/ d < run[p].from /\ run[p].kind \notin {"from", "recalc"}
       \/ /\ run[p].from <= d /\ d <= run[p].to /\ run[p].kind # "recalc"
          /\ run[p].at \in {"deleted", "chunks", "getCursor", "insertCursor", "setCursor"}

Arrives(v, d) ==
  /\ d \in {today, today - 1} /\ <<v, d>> \notin log /\ Cardinality(log) < MaxPairs
  /\ log' = log \cup {<<v, d>>}
  /\ lost' = IF TooLate(d) THEN lost \cup {<<v, d>>} ELSE lost
  /\ UNCHANGED <<today, table, lock, run, asked, edits, blame, covered, passed>>

Midnight ==
  /\ today < Days
  /\ today' = today + 1
  /\ UNCHANGED <<log, table, lock, run, history>>

(* remove, restore.                                                        *)
Remove(v) ==
  /\ v \in known \ deleted /\ edits < MaxEdits
  /\ deleted' = deleted \cup {v} /\ edits' = edits + 1
  /\ UNCHANGED <<today, log, known, count, cursor, lock, run, asked, blame, covered, passed, lost>>

Restore(v) ==
  /\ v \in deleted
  /\ deleted' = deleted \ {v}
  /\ UNCHANGED <<today, log, known, count, cursor, lock, run, history>>

-----------------------------------------------------------------------------
(* A run takes the first place that is free.                               *)
Begin(p, r) ==
  /\ run[p].at = "idle" /\ \A q \in Proc : q < p => run[q].at # "idle"
  /\ run' = [run EXCEPT ![p] = r]
  /\ Running = {} \/ overlaps < MaxOverlaps
  /\ overlaps' = IF Running = {} THEN overlaps ELSE overlaps + 1

(* Mutant: a run starts without the key.                                   *)
TakeAnyway(p, r) == lock' = TRUE /\ Begin(p, r)

(* withLock, the key is set; when it was set already, nothing happens.     *)
TakeLock(p, r) == ~lock /\ lock' = TRUE /\ Begin(p, r)

(* The daily job.                                                          *)
StartDaily(p) ==
  /\ TakeLock(p, [NoRun EXCEPT !.at = "target", !.kind = "daily"])
  /\ UNCHANGED <<today, log, table, asked, edits, faults, expired, again, covered, passed, lost>>

(* fullSync, incrementalSync, with the dates asked for (0: none), recalcOne*)
Ask(p, kind, at, value, from, to) ==
  /\ asked < MaxAsked /\ asked' = asked + 1
  /\ TakeLock(p, [at |-> at, kind |-> kind, value |-> value, from |-> from, to |-> to, rows |-> {}])
  /\ UNCHANGED <<today, log, table, edits, faults, expired, again, covered, passed, lost>>

StartFull(p) ==
  \E from, to \in 0..Days : Ask(p, IF from = 0 THEN "full" ELSE "from", "target", 1, from, to)
StartIncrement(p) == \E to \in 0..Days : Ask(p, "increment", "cursor", 1, 0, to)
StartRecalc(p) == \E v \in known : Ask(p, "recalc", "target", v, 0, 0)

-----------------------------------------------------------------------------
(* A step of a run: where it stands after it, and what it has read.        *)
Goes(p, r) == run' = [run EXCEPT ![p] = r]
Over == [NoRun EXCEPT !.at = "release"]

(* Where a run is to begin; an empty range is left as it is.               *)
Ranged(r, from) ==
  IF from > r.to /\ r.kind # "recalc"
  THEN Over
  ELSE [r EXCEPT !.from = from, !.at = IF from > r.to THEN "chunks" ELSE "aggregate"]

(* The end of the range; with it, where no cursor is asked, its begin.     *)
ReadTarget(p) ==
  LET r == [run[p] EXCEPT !.to = IF run[p].to = 0 THEN Yesterday ELSE run[p].to] IN
  /\ run[p].at = "target"
  /\ Goes(p, IF r.kind = "daily" THEN [r EXCEPT !.at = "cursor"]
             ELSE Ranged(r, IF r.from # 0 THEN r.from ELSE FirstDay(r.to)))
  /\ UNCHANGED <<today, log, table, lock, history>>

(* Mutant: the day of the cursor is counted again.                         *)
ReadCursorSameDay(p) ==
  LET r == run[p] IN
  /\ r.at = "cursor"
  /\ Goes(p, IF r.kind = "increment"
             THEN IF cursor = 0 THEN Over ELSE [r EXCEPT !.from = cursor, !.at = "target"]
             ELSE Ranged(r, IF cursor # 0 THEN cursor ELSE FirstDay(r.to)))
  /\ UNCHANGED <<today, log, table, lock, history>>

ReadCursor(p) ==
  LET r == run[p] IN
  /\ r.at = "cursor"
  /\ Goes(p, IF r.kind = "increment"
             THEN IF cursor = 0 THEN Over ELSE [r EXCEPT !.from = cursor + 1, !.at = "target"]
             ELSE Ranged(r, IF cursor # 0 THEN cursor + 1 ELSE FirstDay(r.to)))
  /\ UNCHANGED <<today, log, table, lock, history>>

(* aggregateUtmFromClickHouse.  A full run counts again what the cursor has*)
(* passed.                                                                 *)
Aggregate(p) ==
  LET r == run[p]
      rows == {e \in log : r.from <= e[2] /\ e[2] <= r.to} IN
  /\ r.at = "aggregate"
  /\ IF r.kind = "recalc"
     THEN Goes(p, [r EXCEPT !.at = "chunks", !.rows = {e \in rows : e[1] = r.value}])
     ELSE Goes(p, [r EXCEPT !.at = IF rows = {} THEN "getCursor" ELSE "deleted", !.rows = rows])
  /\ again' = IF r.kind \in Full /\ r.from <= cursor THEN again + 1 ELSE again
  /\ UNCHANGED <<today, log, table, lock, asked, edits, faults, expired, overlaps, covered, passed, lost>>

(* persistStats: the rows of the values deleted by now are left out.       *)
ReadDeleted(p) ==
  LET r == run[p]
      skipped == {e \in r.rows : e[1] \in deleted} IN
  /\ r.at = "deleted"
  /\ Goes(p, [r EXCEPT !.at = IF r.rows = skipped THEN "getCursor" ELSE "chunks",
                       !.rows = @ \ skipped])
  /\ lost' = lost \cup skipped
  /\ UNCHANGED <<today, log, table, lock, asked, edits, blame, covered, passed>>

(* The next chunk: the first values of those left.                         *)
Chunk(rows) ==
  {e \in rows : Cardinality({v \in {f[1] : f \in rows} : v < e[1]}) < ChunkSize}

(* Mutant: one chunk is all that is written.                               *)
WriteOneChunk(p) ==
  LET r == run[p]
      chunk == Chunk(r.rows) IN
  /\ r.at = "chunks" /\ r.kind # "recalc"
  /\ known' = known \cup {e[1] : e \in chunk}
  /\ count' = [e \in Pair |-> IF e \in chunk THEN count[e] + 1 ELSE count[e]]
  /\ Goes(p, [r EXCEPT !.at = "getCursor", !.rows = {}])
  /\ UNCHANGED <<today, log, deleted, cursor, lock, history>>

WriteChunk(p) ==
  LET r == run[p]
      chunk == Chunk(r.rows) IN
  /\ r.at = "chunks" /\ r.kind # "recalc"
  /\ known' = known \cup {e[1] : e \in chunk}
  /\ count' = [e \in Pair |-> IF e \in chunk THEN count[e] + 1 ELSE count[e]]
  /\ Goes(p, [r EXCEPT !.at = IF r.rows = chunk THEN "getCursor" ELSE "chunks", !.rows = @ \ chunk])
  /\ UNCHANGED <<today, log, deleted, cursor, lock, history>>

(* recalcOne: the total is replaced.                                       *)
WriteRecalc(p) ==
  LET r == run[p]
      mine == {e \in Pair : e[1] = r.value} IN
  /\ r.at = "chunks" /\ r.kind = "recalc"
  /\ count' = [e \in Pair |-> IF e \in mine THEN (IF e \in r.rows THEN 1 ELSE 0) ELSE count[e]]
  /\ lost' = lost \cup {e \in mine \ r.rows : count[e] > 0}
  /\ again' = IF \E e \in r.rows : e[2] > cursor THEN again + 1 ELSE again
  /\ Goes(p, Over)
  /\ UNCHANGED <<today, log, known, deleted, cursor, lock, asked, edits, faults, expired, overlaps, covered, passed>>

-----------------------------------------------------------------------------
(* Mutant: the cursor is set without a look at it.                         *)
GetNoCursor(p) ==
  LET r == run[p] IN
  /\ r.at = "getCursor"
  /\ Goes(p, [r EXCEPT !.at = "setCursor"])
  /\ UNCHANGED <<today, log, table, lock, history>>

(* setCursor: forward only, from where the cursor is read to be.           *)
GetCursor(p) ==
  LET r == run[p] IN
  /\ r.at = "getCursor"
  /\ IF cursor >= r.to
     THEN Goes(p, Over) /\ covered' = covered \cup (r.from..r.to)
     ELSE /\ Goes(p, [r EXCEPT !.at = IF cursor = 0 THEN "insertCursor" ELSE "setCursor"])
          /\ UNCHANGED covered
  /\ UNCHANGED <<today, log, table, lock, asked, edits, blame, passed, lost>>

(* A second row for the cursor is refused, and the run fails.  What lies   *)
(* between the cursor and a start date asked for is not counted any more.  *)
SetCursor(p) ==
  LET r == run[p]
      refused == r.at = "insertCursor" /\ cursor # 0 IN
  /\ r.at \in {"insertCursor", "setCursor"}
  /\ cursor' = IF refused THEN cursor ELSE r.to
  /\ covered' = IF refused THEN covered ELSE covered \cup (r.from..r.to)
  /\ passed' = IF refused \/ r.kind # "from" THEN passed
               ELSE passed \cup {d \in Day : cursor < d /\ d < r.from}
  /\ Goes(p, Over)
  /\ UNCHANGED <<today, log, known, deleted, count, lock, asked, edits, blame, lost>>

(* The key is deleted, whosever it is by now.                              *)
Release(p) ==
  /\ run[p].at = "release"
  /\ lock' = FALSE /\ Goes(p, NoRun)
  /\ UNCHANGED <<today, log, table, history>>

-----------------------------------------------------------------------------
(* A query fails; the process dies; the key expires.                       *)
Fails(p) ==
  /\ run[p].at \notin {"idle", "release"} /\ Fault
  /\ Goes(p, Over)
  /\ UNCHANGED <<today, log, table, lock, asked, edits, expired, overlaps, again, covered, passed, lost>>

Dies(p) ==
  /\ run[p].at # "idle" /\ Fault
  /\ Goes(p, NoRun)
  /\ UNCHANGED <<today, log, table, lock, asked, edits, expired, overlaps, again, covered, passed, lost>>

(* Mutant: the key is set without an expiry.                               *)
LockStays == FALSE /\ UNCHANGED vars

LockExpires ==
  /\ lock
  /\ IF Running = {} THEN UNCHANGED <<faults, expired>> ELSE Fault /\ expired' = TRUE
  /\ lock' = FALSE
  /\ UNCHANGED <<today, log, table, run, asked, edits, overlaps, again, covered, passed, lost>>

Read(p) == ReadTarget(p) \/ ReadCursor(p) \/ Aggregate(p) \/ ReadDeleted(p) \/ GetCursor(p)
Write(p) == WriteChunk(p) \/ WriteRecalc(p) \/ SetCursor(p) \/ Release(p)
Start(p) == StartDaily(p) \/ StartFull(p) \/ StartIncrement(p) \/ StartRecalc(p)

Next ==
  \/ Midnight \/ LockExpires
  \/ \E v \in Value : Remove(v) \/ Restore(v) \/ \E d \in Day : Arrives(v, d)
  \/ \E p \in Proc : Start(p) \/ Read(p) \/ Write(p) \/ Fails(p) \/ Dies(p)

Spec == Init /\ [][Next]_vars

(* A run goes on, a key that is left expires, days pass, and the daily job *)
(* is started again and again, by some process.                            *)
Fairness ==
  /\ WF_vars(Midnight) /\ WF_vars(LockExpires)
  /\ \A p \in Proc : WF_vars(Read(p) \/ Write(p))
  /\ SF_vars(\E p \in Proc : StartDaily(p))

FairSpec == Spec /\ Fairness

-----------------------------------------------------------------------------
(* Runs exclude each other until the key expires under one that goes on.   *)
(* From then on they need not: that run deletes the key of the next.  A run*)
(* that fails, or dies, lets no two in.                                    *)
RunsExclude == Cardinality(Running) > 1 => expired

(* A value's events of a day are in its total twice only when a run has    *)
(* stopped halfway, has overlapped with another, or has counted a day on   *)
(* the other side of the cursor.                                           *)
DoubleNeedsCause == \A e \in Pair : count[e] <= 1 + faults + overlaps + again

(* Whatever stops halfway or overlaps, every event of a day the cursor has *)
(* reached is in its total, but what came late, was deleted or recounted   *)
(* away, and the days a full sync from a later date made the cursor pass.  *)
(* Nor is anything left out of a day that a run which ended well counted.  *)
NothingMissed ==
  \A e \in log \ lost :
    (e[2] <= cursor /\ e[2] \notin passed) \/ e[2] \in covered => count[e] > 0

(* No day is missed at all (utm.processor.ts), whoever asks for what.      *)
NoDayPassed == \A e \in log \ lost : e[2] <= cursor => count[e] > 0

(* The cursor goes forward, as long as runs exclude each other.            *)
CursorForward == [][overlaps = 0 => cursor' >= cursor]_vars

(* Once there is a day to count, the daily job catches up to yesterday,    *)
(* whatever has failed.                                                    *)
CatchesUp == (\E e \in log : e[2] < Days) ~> cursor >= Days - 1
=============================================================================
