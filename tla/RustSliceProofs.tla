--------------------------- MODULE RustSliceProofs ---------------------------
(***************************************************************************)
(* Proofs about RustSlice, for every set of nodes and tasks and all bounds.*)
(***************************************************************************)
EXTENDS RustSlice, TLAPS

(* Counters and names are of one world: a lease is never one of the        *)
(* placeholders.                                                           *)
LEMMA AttemptsAreNumbers == Attempt \subseteq Nat /\ MaxSize \in Nat /\ MaxFaults \in Nat
  BY RustAssumption DEF RustAssumption, Attempt

-----------------------------------------------------------------------------
(* The first events of the slice are in both tables.                       *)
FirstStored == \A t \in Table : \A b \in 1..FirstSize : rows[t][b] > 0
StoredTo(n) == \A t \in Table : \A b \in 1..n : rows[t][b] > 0

(* An attempt that executes has a task and a node.                         *)
Placed(r) == r.stage \notin {"unused", "settled", "gone"} => r.task \in Task /\ r.home \in Node

(* Batches are written in order, one at a time, and only while writing.    *)
InOrder(r) ==
  /\ r.stage # "write" => r.work.write = Blank
  /\ \A t \in Table : r.work.write[t] # "idle" => r.work.at <= r.work.upto
  /\ r.stage \in {"begin", "mark", "read"} => r.work.at = 1
  /\ r.stage \in {"begin", "mark"} => r.work.total = 0
  /\ r.stage = "read" => r.work.total \in {0} \cup FirstSize..MaxSize

(* What is behind an attempt is stored.                                    *)
Behind(r) ==
  /\ r.stage = "write" =>
       /\ r.work.total >= FirstSize
       /\ StoredTo(r.work.at - 1)
       /\ \A t \in Table : r.work.write[t] = "stored" => rows[t][r.work.at] > 0
  /\ r.stage = "commit" => r.work.total >= FirstSize /\ StoredTo(r.work.total)
  /\ r.work.was = "done" \/ r.stage = "replay" \/ "mark" \in r.left => FirstStored
  /\ r.verdict = "completed" =>
       r.stage \in {"end", "settled"} /\ FirstStored /\ StoredTo(r.work.total)

Sound(a) == Placed(att[a]) /\ InOrder(att[a]) /\ Behind(att[a])

DoneIsStored == done # {} => FirstStored

(* Whoever may write, or has written, has left the mark, until all is there. *)
Writing == \E a \in Attempt : att[a].stage \in {"read", "write"}
Marked == Writing \/ inserts # {} \/ Started => mark \/ FirstStored

IInv == TypeOK /\ (\A a \in Attempt : Sound(a)) /\ DoneIsStored /\ Marked

-----------------------------------------------------------------------------
LEMMA TypeInit == Init => TypeOK
<1> SUFFICES ASSUME Init PROVE TypeOK
  OBVIOUS
<1>1. att \in [Attempt -> AttemptRecord]
  BY RustAssumption DEF RustAssumption, Init, Nobody, AttemptRecord, Stage, Work, NoWork, Blank, Table
<1>2. size \in FirstSize..MaxSize /\ faults \in 0..MaxFaults
  BY RustAssumption DEF RustAssumption, Init
<1>3. rows \in [Table -> [Batch -> Nat]]
  BY DEF Init
<1> QED
  BY <1>1, <1>2, <1>3 DEF Init, TypeOK

(* What the attempt does to itself keeps it a record.                      *)
LEMMA LeaveTyped ==
  ASSUME TypeOK, NEW a \in Attempt, NEW v \in {"completed", "failed"}, Leave(a, v)
  PROVE  att' \in [Attempt -> AttemptRecord]
<1> DEFINE r == [att[a] EXCEPT !.stage = "end", !.left = {"lease"}, !.verdict = v,
                              !.work = NoWork]
<1>1. NoWork \in Work
  BY RustAssumption DEF RustAssumption, Work, NoWork, Blank, Table
<1>2. att[a] \in AttemptRecord
  BY DEF TypeOK
<1>3. r \in AttemptRecord
  BY <1>1, <1>2 DEF AttemptRecord, Stage
<1>4. att' = [att EXCEPT ![a] = r]
  BY DEF TypeOK, Leave
<1> QED
  BY <1>3, <1>4 DEF TypeOK

LEMMA EnterTyped ==
  ASSUME TypeOK, NEW a \in Attempt, NEW s \in Stage, Enter(a, s)
  PROVE  att' \in [Attempt -> AttemptRecord]
  BY SMTT(30) DEF TypeOK, Enter, AttemptRecord

LEMMA FaultTyped ==
  ASSUME TypeOK, Works \/ Fault
  PROVE  faults' \in 0..MaxFaults
  BY RustAssumption DEF RustAssumption, TypeOK, Works, Fault

LEMMA AbandonTyped ==
  ASSUME TypeOK, NEW A, Abandon(A)
  PROVE  abandoned' \in SUBSET (Table \X Batch)
  BY DEF TypeOK, Abandon, Insert
LEMMA WorkTyped ==
  ASSUME TypeOK, NEW a \in Attempt, NEW w \in Work, att' = [att EXCEPT ![a].work = w]
  PROVE  att' \in [Attempt -> AttemptRecord]
<1> DEFINE r == [att[a] EXCEPT !.work = w]
<1>1. r \in AttemptRecord
  BY DEF TypeOK, AttemptRecord
<1>2. att' = [att EXCEPT ![a] = r]
  BY DEF TypeOK
<1> QED
  BY <1>1, <1>2 DEF TypeOK

LEMMA NoWorkTyped == NoWork \in Work
  BY RustAssumption DEF RustAssumption, Work, NoWork, Blank, Table

LEMMA WorkOf == ASSUME TypeOK, NEW a \in Attempt PROVE att[a] \in AttemptRecord /\ att[a].work \in Work
  BY DEF TypeOK, AttemptRecord

LEMMA StoredTyped ==
  ASSUME TypeOK, NEW w \in inserts, Stored(w)
  PROVE  rows' \in [Table -> [Batch -> Nat]]
<1> DEFINE t == w.table
           f == [rows[t] EXCEPT ![w.batch] = @ + 1]
<1>1. t \in Table /\ w.batch \in Batch
  BY DEF TypeOK, Insert
<1>2. f \in [Batch -> Nat]
  BY <1>1 DEF TypeOK
<1>3. rows' = [rows EXCEPT ![t] = f]
  BY DEF Stored
<1> QED
  BY <1>1, <1>2, <1>3 DEF TypeOK

LEMMA WriteTyped ==
  ASSUME TypeOK, NEW a \in Attempt, NEW t \in Table,
         NEW x \in {"idle", "sent", "stored", "failed"},
         att' = [att EXCEPT ![a].work.write[t] = x]
  PROVE  att' \in [Attempt -> AttemptRecord]
<1> DEFINE f == [att[a].work.write EXCEPT ![t] = x]
           w == [att[a].work EXCEPT !.write = f]
<1>1. f \in [Table -> {"idle", "sent", "stored", "failed"}]
  BY WorkOf DEF Work
<1>2. w \in Work
  BY <1>1, WorkOf DEF Work
<1>3. att' = [att EXCEPT ![a].work = w]
  BY DEF TypeOK
<1> QED
  BY <1>2, <1>3, WorkTyped

-----------------------------------------------------------------------------
LEMMA TypeBegin ==
  ASSUME TypeOK, NEW a \in Attempt, Acquire(a) \/ LookUpDone(a) \/ Begun(a) \/ GiveUp(a)
  PROVE  TypeOK'
<1>1. CASE Acquire(a)
  <2> DEFINE w(x) == [att[a].work EXCEPT !.got = x]
  <2>1. PICK x \in {"yes", "no", "error"} : att' = [att EXCEPT ![a].work = w(x)]
    BY <1>1 DEF Acquire, TypeOK
  <2>2. w(x) \in Work
    BY <2>1, WorkOf DEF Work
  <2>3. att' \in [Attempt -> AttemptRecord]
    BY <2>1, <2>2, WorkTyped
  <2>4. lease' \in Attempt \cup {NoAttempt} /\ faults' \in 0..MaxFaults
    BY <1>1, FaultTyped DEF Acquire, TypeOK
  <2> QED
    BY <1>1, <2>3, <2>4 DEF Acquire, TypeOK, clickhouse, history
<1>2. CASE LookUpDone(a)
  <2> DEFINE w(x) == [att[a].work EXCEPT !.was = x]
  <2>1. PICK x \in {"done", "open", "error"} : att' = [att EXCEPT ![a].work = w(x)]
    BY <1>2 DEF LookUpDone, TypeOK
  <2>2. w(x) \in Work
    BY <2>1, WorkOf DEF Work
  <2>3. att' \in [Attempt -> AttemptRecord]
    BY <2>1, <2>2, WorkTyped
  <2>4. faults' \in 0..MaxFaults
    BY <1>2, FaultTyped DEF LookUpDone
  <2> QED
    BY <1>2, <2>3, <2>4 DEF LookUpDone, TypeOK, clickhouse, history
<1>3. CASE Begun(a)
  <2>1. \/ Leave(a, "failed")
        \/ Enter(a, "replay") \/ Enter(a, "mark")
        \/ att' = [att EXCEPT ![a].work = NoWork]
    BY <1>3 DEF Begun
  <2>2. att' \in [Attempt -> AttemptRecord]
    BY <2>1, LeaveTyped, EnterTyped, WorkTyped, NoWorkTyped DEF Stage
  <2> QED
    BY <1>3, <2>2 DEF Begun, TypeOK, clickhouse, history
<1>4. CASE GiveUp(a)
  <2> DEFINE r == [att[a] EXCEPT !.stage = "settled", !.verdict = "failed", !.work = NoWork]
  <2>1. r \in AttemptRecord
    BY WorkOf, NoWorkTyped DEF AttemptRecord, Stage
  <2>2. att' = [att EXCEPT ![a] = r]
    BY <1>4 DEF TypeOK, GiveUp
  <2> QED
    BY <1>4, <2>1, <2>2 DEF GiveUp, TypeOK, clickhouse, history
<1> QED
  BY <1>1, <1>2, <1>3, <1>4
LEMMA TypeMarks ==
  ASSUME TypeOK, NEW a \in Attempt, MarkIncomplete(a) \/ Replay(a)
  PROVE  TypeOK'
<1>1. att' \in [Attempt -> AttemptRecord]
  <2>1. \/ Enter(a, "read") \/ Leave(a, "failed") \/ Leave(a, "completed")
    BY DEF MarkIncomplete, Replay
  <2> QED
    BY <2>1, EnterTyped, LeaveTyped DEF Stage
<1>2. faults' \in 0..MaxFaults
  BY FaultTyped DEF MarkIncomplete, Replay
<1>3. mark' \in BOOLEAN
  BY DEF MarkIncomplete, Replay, TypeOK
<1> QED
  BY <1>1, <1>2, <1>3 DEF MarkIncomplete, Replay, TypeOK, clickhouse, history

LEMMA TypeReads ==
  ASSUME TypeOK, NEW a \in Attempt,
         CountSlice(a) \/ ReadSlice(a) \/ StartWriting(a) \/ EndOfSlice(a)
  PROVE  TypeOK'
<1>0. size \in 0..MaxSize
  BY RustAssumption DEF RustAssumption, TypeOK
<1>1. CASE CountSlice(a)
  <2> DEFINE w == [att[a].work EXCEPT !.total = size]
  <2>1. att' = [att EXCEPT ![a].work = w] \/ Leave(a, "failed")
    BY <1>1 DEF CountSlice, TypeOK
  <2>2. w \in Work
    BY <1>0, WorkOf DEF Work
  <2>3. att' \in [Attempt -> AttemptRecord]
    BY <2>1, <2>2, WorkTyped, LeaveTyped
  <2>4. faults' \in 0..MaxFaults
    BY <1>1, FaultTyped DEF CountSlice
  <2> QED
    BY <1>1, <2>3, <2>4 DEF CountSlice, TypeOK, clickhouse, history
<1>2. CASE ReadSlice(a)
  <2> DEFINE w == [att[a].work EXCEPT !.upto = size]
  <2>1. att' = [att EXCEPT ![a].work = w] \/ Leave(a, "failed")
    BY <1>2 DEF ReadSlice, TypeOK
  <2>2. w \in Work
    BY <1>0, WorkOf DEF Work
  <2>3. att' \in [Attempt -> AttemptRecord]
    BY <2>1, <2>2, WorkTyped, LeaveTyped
  <2>4. faults' \in 0..MaxFaults
    BY <1>2, FaultTyped DEF ReadSlice
  <2> QED
    BY <1>2, <2>3, <2>4 DEF ReadSlice, TypeOK, clickhouse, history
<1>3. CASE StartWriting(a)
  <2>1. att' \in [Attempt -> AttemptRecord]
    BY <1>3, EnterTyped DEF StartWriting, Stage
  <2> QED
    BY <1>3, <2>1 DEF StartWriting, TypeOK, clickhouse, history
<1>4. CASE EndOfSlice(a)
  <2>1. att' \in [Attempt -> AttemptRecord]
    BY <1>4, EnterTyped, LeaveTyped DEF EndOfSlice, Stage
  <2> QED
    BY <1>4, <2>1 DEF EndOfSlice, TypeOK, clickhouse, history
<1> QED
  BY <1>1, <1>2, <1>3, <1>4

LEMMA TypeWrites ==
  ASSUME TypeOK, NEW a \in Attempt, Sound(a), NEW t \in Table,
         WriteBatch(a, t) \/ NextBatch(a)
  PROVE  TypeOK'
<1>1. CASE WriteBatch(a, t)
  <2> DEFINE i == [attempt |-> a, table |-> t, batch |-> att[a].work.at]
  <2>1. PICK x \in {"stored", "sent", "failed"} : att' = [att EXCEPT ![a].work.write[t] = x]
    BY <1>1 DEF WriteBatch, Send
  <2>2. att' \in [Attempt -> AttemptRecord]
    BY <2>1, WriteTyped
  <2>3. att[a].work.at \in Batch
    BY <1>1, WorkOf, AttemptsAreNumbers DEF WriteBatch, Due, Work, Batch
  <2>4. i \in Insert
    BY <2>3 DEF Insert
  <2>5. inserts' = inserts \/ inserts' = inserts \cup {i}
    BY <1>1 DEF WriteBatch, Send
  <2>6. inserts' \in SUBSET Insert
    BY <2>4, <2>5 DEF TypeOK
  <2>7. faults' \in 0..MaxFaults
    BY <1>1, FaultTyped DEF WriteBatch
  <2> QED
    BY <1>1, <2>2, <2>6, <2>7 DEF WriteBatch, TypeOK, history
<1>2. CASE NextBatch(a)
  <2> DEFINE w == [att[a].work EXCEPT !.at = @ + 1, !.write = Blank]
  <2>1. Leave(a, "failed") \/ att' = [att EXCEPT ![a].work = w]
    BY <1>2 DEF NextBatch, AfterBatch
  <2>2. att[a].work.at + 1 \in 1..MaxSize + 1
    BY <1>2, WorkOf, AttemptsAreNumbers DEF NextBatch, Ended, Sound, InOrder, Work, Table
  <2>3. w \in Work
    BY <2>2, WorkOf, NoWorkTyped DEF Work, NoWork
  <2>4. att' \in [Attempt -> AttemptRecord]
    BY <2>1, <2>3, LeaveTyped, WorkTyped
  <2> QED
    BY <1>2, <2>4 DEF NextBatch, AfterBatch, TypeOK, clickhouse, history
<1> QED
  BY <1>1, <1>2

LEMMA TypeInserts ==
  ASSUME TypeOK, NEW w \in inserts, InsertEnds(w) \/ LateInsert(w)
  PROVE  TypeOK'
<1>0. w.attempt \in Attempt /\ w.table \in Table /\ w.batch \in Batch
  BY DEF TypeOK, Insert
<1>1. rows' \in [Table -> [Batch -> Nat]]
  <2>1. Stored(w) \/ UNCHANGED rows
    BY DEF InsertEnds, LateInsert
  <2> QED
    BY <2>1, StoredTyped DEF TypeOK
<1>2. att' \in [Attempt -> AttemptRecord]
  <2>1. \/ UNCHANGED att
        \/ att' = [att EXCEPT ![w.attempt].work.write[w.table] = "stored"]
        \/ att' = [att EXCEPT ![w.attempt].work.write[w.table] = "failed"]
    BY DEF InsertEnds, LateInsert
  <2> QED
    BY <1>0, <2>1, WriteTyped DEF TypeOK
<1>3. faults' \in 0..MaxFaults
  BY FaultTyped DEF InsertEnds, LateInsert, TypeOK
<1>4. inserts' \in SUBSET Insert /\ abandoned' \in SUBSET (Table \X Batch)
  BY <1>0 DEF InsertEnds, LateInsert, TypeOK, history
<1> QED
  BY <1>1, <1>2, <1>3, <1>4 DEF InsertEnds, LateInsert, TypeOK, history

LEMMA TypeEnd ==
  ASSUME TypeOK, NEW a \in Attempt, Sound(a),
         Commit(a) \/ ClearMark(a) \/ ReleaseLease(a) \/ Settle(a) \/ StopWork(a)
  PROVE  TypeOK'
<1>1. CASE Commit(a)
  <2> DEFINE w == [NoWork EXCEPT !.total = att[a].work.total]
             r == [att[a] EXCEPT !.stage = "end", !.left = {"mark", "lease"},
                                 !.verdict = "completed", !.work = w]
  <2>1. w \in Work
    BY NoWorkTyped, WorkOf DEF Work
  <2>2. r \in AttemptRecord
    BY <2>1, WorkOf DEF AttemptRecord, Stage
  <2>3. att' = [att EXCEPT ![a] = r] \/ Leave(a, "failed")
    BY <1>1 DEF Commit, TypeOK
  <2>4. att' \in [Attempt -> AttemptRecord]
    BY <2>2, <2>3, LeaveTyped DEF TypeOK
  <2>5. done' \in SUBSET Task
    <3>1. att[a].task \in Task
      BY <1>1 DEF Commit, Sound, Placed
    <3> QED
      BY <1>1, <3>1 DEF Commit, TypeOK
  <2>6. faults' \in 0..MaxFaults
    BY <1>1, FaultTyped DEF Commit
  <2> QED
    BY <1>1, <2>4, <2>5, <2>6 DEF Commit, TypeOK, clickhouse, history
<1>2. CASE ClearMark(a)
  <2> DEFINE left == att[a].left \ {"mark"}
             r(v) == [att[a] EXCEPT !.left = left, !.verdict = v]
  <2>1. PICK v \in {"none", "completed", "failed"} : att' = [att EXCEPT ![a] = r(v)]
    <3>1. att[a].verdict \in {"none", "completed", "failed"}
      BY WorkOf DEF AttemptRecord
    <3>2. att' = [att EXCEPT ![a].left = left] => att' = [att EXCEPT ![a] = r(att[a].verdict)]
      BY WorkOf DEF TypeOK, AttemptRecord
    <3>3. att' = [att EXCEPT ![a].left = left] \/ att' = [att EXCEPT ![a] = r("failed")]
      BY <1>2 DEF ClearMark, TypeOK
    <3> QED
      BY <3>1, <3>2, <3>3
  <2>2. r(v) \in AttemptRecord
    BY WorkOf DEF AttemptRecord
  <2>3. mark' \in BOOLEAN /\ faults' \in 0..MaxFaults
    BY <1>2, FaultTyped DEF ClearMark, TypeOK
  <2> QED
    BY <1>2, <2>1, <2>2, <2>3 DEF ClearMark, TypeOK, clickhouse, history
<1>3. CASE ReleaseLease(a)
  <2> DEFINE r == [att[a] EXCEPT !.left = @ \ {"lease"}]
  <2>1. r \in AttemptRecord
    BY WorkOf DEF AttemptRecord
  <2>2. att' = [att EXCEPT ![a] = r]
    BY <1>3 DEF ReleaseLease, TypeOK
  <2>3. lease' \in Attempt \cup {NoAttempt} /\ faults' \in 0..MaxFaults
    BY <1>3, FaultTyped DEF ReleaseLease, TypeOK
  <2> QED
    BY <1>3, <2>1, <2>2, <2>3 DEF ReleaseLease, TypeOK, clickhouse, history
<1>4. CASE Settle(a)
  <2>1. att' \in [Attempt -> AttemptRecord]
    BY <1>4, EnterTyped DEF Settle, Stage
  <2> QED
    BY <1>4, <2>1 DEF Settle, TypeOK, clickhouse, history
<1>5. CASE StopWork(a)
  <2>1. att' \in [Attempt -> AttemptRecord]
    BY <1>5, LeaveTyped DEF StopWork
  <2>2. abandoned' \in SUBSET (Table \X Batch)
    BY <1>5, AbandonTyped DEF StopWork
  <2>3. faults' \in 0..MaxFaults
    BY <1>5, FaultTyped DEF StopWork
  <2> QED
    BY <1>5, <2>1, <2>2, <2>3 DEF StopWork, TypeOK, clickhouse
<1> QED
  BY <1>1, <1>2, <1>3, <1>4, <1>5
LEMMA TypeSubmit ==
  ASSUME TypeOK, NEW a \in Attempt, NEW n \in Node, NEW t \in Task, Submit(a, n, t)
  PROVE  TypeOK'
<1> DEFINE new == [Nobody("begin") EXCEPT !.home = n, !.task = t]
           no == [new EXCEPT !.stage = "settled", !.verdict = "failed"]
<1>1. Nobody("begin") \in AttemptRecord
  BY NoWorkTyped DEF Nobody, AttemptRecord, Stage
<1>2. new \in AttemptRecord
  BY <1>1 DEF AttemptRecord
<1>3. no \in AttemptRecord
  BY <1>2 DEF AttemptRecord, Stage
<1>4. att' \in [Attempt -> AttemptRecord]
  <2> HIDE DEF new, no
  <2>1. att' = [att EXCEPT ![a] = new] \/ att' = [att EXCEPT ![a] = no]
    BY DEF Submit, new, no
  <2> QED
    BY <2>1, <1>2, <1>3 DEF TypeOK
<1> QED
  BY <1>4 DEF Submit, TypeOK, clickhouse, history

LEMMA RestartTyped ==
  ASSUME TypeOK, NEW n \in Node, Restart(n), faults' \in 0..MaxFaults
  PROVE  TypeOK'
<1>1. Nobody("gone") \in AttemptRecord
  BY NoWorkTyped DEF Nobody, AttemptRecord, Stage
<1>2. att' \in [Attempt -> AttemptRecord]
  BY <1>1 DEF Restart, TypeOK
<1>3. abandoned' \in SUBSET (Table \X Batch)
  BY AbandonTyped DEF Restart
<1> QED
  BY <1>2, <1>3 DEF Restart, TypeOK, clickhouse

LEMMA TypeNodes ==
  ASSUME TypeOK, NEW n \in Node,
         Crash(n) \/ BeginShutdown(n) \/ DrainTimeout(n) \/ Exit(n)
  PROVE  TypeOK'
<1>1. faults' \in 0..MaxFaults
  BY FaultTyped DEF Crash, BeginShutdown, DrainTimeout, Exit, TypeOK
<1>2. CASE Crash(n) \/ Exit(n)
  BY <1>1, <1>2, RestartTyped DEF Crash, Exit
<1>3. CASE BeginShutdown(n) \/ DrainTimeout(n)
  BY <1>1, <1>3 DEF BeginShutdown, DrainTimeout, TypeOK, clickhouse, history
<1> QED
  BY <1>2, <1>3

LEMMA TypeWorld ==
  ASSUME TypeOK, Expire \/ LateEvent
  PROVE  TypeOK'
<1>1. CASE Expire
  <2>1. faults' \in 0..MaxFaults
    BY <1>1, FaultTyped DEF Expire, TypeOK
  <2> QED
    BY <1>1, <2>1 DEF Expire, TypeOK, clickhouse
<1>2. CASE LateEvent
  BY <1>2, RustAssumption DEF RustAssumption, LateEvent, TypeOK, history
<1> QED
  BY <1>1, <1>2

-----------------------------------------------------------------------------
(* Rows are only added, so what was stored stays stored.                   *)
Grows == \A t \in Table : \A b \in Batch : rows'[t][b] >= rows[t][b]

LEMMA StaysStored ==
  ASSUME TypeOK, TypeOK', Grows
  PROVE  /\ \A n \in 0..MaxSize : StoredTo(n) => StoredTo(n)'
         /\ FirstStored => FirstStored'
         /\ \A t \in Table : \A b \in Batch : rows[t][b] > 0 => rows'[t][b] > 0
<1>1. \A t \in Table : \A b \in Batch : rows[t][b] > 0 => rows'[t][b] > 0
  BY DEF Grows, TypeOK
<1>2. \A n \in 0..MaxSize : 1..n \subseteq Batch
  BY AttemptsAreNumbers DEF Batch
<1>3. FirstSize \in 0..MaxSize
  BY RustAssumption DEF RustAssumption
<1> QED
  BY <1>1, <1>2, <1>3 DEF StoredTo, FirstStored

LEMMA StaysSound ==
  ASSUME TypeOK, TypeOK', Grows, NEW a \in Attempt, Sound(a), att'[a] = att[a]
  PROVE  Sound(a)'
<1> DEFINE r == att[a]
<1>1. r \in AttemptRecord /\ r.work \in Work
  BY WorkOf
<1>2. r.work.at - 1 \in 0..MaxSize /\ r.work.total \in 0..MaxSize
  BY <1>1, AttemptsAreNumbers DEF Work
<1>3. Placed(r) /\ InOrder(r) /\ Behind(r)
  BY DEF Sound
<1>4. r.stage = "write" => \A t \in Table : r.work.write[t] = "stored" => r.work.at \in Batch
  BY <1>1, <1>3, AttemptsAreNumbers DEF InOrder, Work, Batch
<1>5. Behind(r)'
  <2> HIDE DEF r
  <2> SUFFICES ASSUME r' = r PROVE Behind(r)'
    BY DEF r
  <2> QED
    BY <1>2, <1>3, <1>4, StaysStored DEF Behind
<1>6. Placed(r)' /\ InOrder(r)'
  BY <1>3 DEF Placed, InOrder
<1> QED
  BY <1>5, <1>6 DEF Sound
(* A step of one attempt leaves the others sound.                          *)
LEMMA OthersSound ==
  ASSUME IInv, TypeOK', Grows, NEW a \in Attempt, Sound(a)',
         \A b \in Attempt \ {a} : att'[b] = att[b]
  PROVE  \A b \in Attempt : Sound(b)'
  BY StaysSound DEF IInv

(* Leaving the work.                                                       *)
LEMMA LeaveSound ==
  ASSUME TypeOK, TypeOK', NEW a \in Attempt, Sound(a), Executing(a),
         NEW v \in {"completed", "failed"}, Leave(a, v), UNCHANGED rows,
         v = "completed" => FirstStored
  PROVE  Sound(a)' /\ \A b \in Attempt \ {a} : att'[b] = att[b]
<1>1. /\ att'[a].stage = "end" /\ att'[a].left = {"lease"} /\ att'[a].work = NoWork
      /\ att'[a].verdict = v /\ att'[a].task = att[a].task /\ att'[a].home = att[a].home
      /\ \A b \in Attempt \ {a} : att'[b] = att[b]
  BY DEF Leave, TypeOK, AttemptRecord
<1>2. att[a].task \in Task /\ att[a].home \in Node
  BY DEF Executing, Sound, Placed
<1>4. InOrder(att'[a])
  BY <1>1 DEF InOrder, NoWork, Blank
<1>5. Behind(att[a])'
  <2>1. FirstStored => FirstStored'
    BY DEF FirstStored
  <2>2. StoredTo(0)'
    BY DEF StoredTo
  <2> QED
    BY <1>1, <2>1, <2>2 DEF Behind, NoWork
<1> QED
  BY <1>1, <1>2, <1>4, <1>5 DEF Sound, Placed
(* Going on to the next stage, when what that stage relies on holds.       *)
LEMMA EnterSound ==
  ASSUME TypeOK, TypeOK', NEW a \in Attempt, Sound(a), Executing(a), UNCHANGED rows,
         NEW s \in Stage, Enter(a, s), s \in {"mark", "read"} => att[a].work.total = 0,
         s \in {"mark", "read"} => att[a].stage \in {"begin", "mark"},
         s = "write" => /\ att[a].work.total >= FirstSize /\ att[a].work.at = 1
                        /\ att[a].work.write = Blank,
         s # "write" => att[a].work.write = Blank,
         s = "commit" => att[a].work.total >= FirstSize /\ StoredTo(att[a].work.total),
         s = "replay" => FirstStored,
         s # "begin",
         att[a].verdict = "completed" => s = "settled"
  PROVE  Sound(a)' /\ \A b \in Attempt \ {a} : att'[b] = att[b]
<1>1. /\ att'[a].stage = s /\ att'[a].left = att[a].left /\ att'[a].work = att[a].work
      /\ att'[a].verdict = att[a].verdict
      /\ att'[a].task = att[a].task /\ att'[a].home = att[a].home
      /\ \A b \in Attempt \ {a} : att'[b] = att[b]
  BY DEF Enter, TypeOK, AttemptRecord
<1>2. Placed(att'[a])
  BY <1>1 DEF Executing, Sound, Placed
<1>3. InOrder(att'[a])
  BY <1>1 DEF Sound, InOrder, Stage
<1>4. Behind(att[a])'
  <2>1. \A n : StoredTo(n) => StoredTo(n)'
    BY DEF StoredTo
  <2>2. FirstStored => FirstStored'
    BY DEF FirstStored
  <2>3. StoredTo(0)
    BY DEF StoredTo
  <2>4. \A t \in Table : Blank[t] # "stored"
    BY DEF Blank
  <2> QED
    BY <1>1, <2>1, <2>2, <2>3, <2>4 DEF Sound, Behind
<1> QED
  BY <1>1, <1>2, <1>3, <1>4 DEF Sound

(* Learning something while nothing is written yet.                        *)
LEMMA LearnSound ==
  ASSUME TypeOK, TypeOK', NEW a \in Attempt, Sound(a), att[a].stage \in {"begin", "read"},
         UNCHANGED rows, NEW w \in Work, att' = [att EXCEPT ![a].work = w],
         w.at = 1, w.write = Blank, w.was = "done" => FirstStored,
         att[a].stage = "begin" => w.total = 0,
         att[a].stage = "read" => w.total \in {0} \cup FirstSize..MaxSize
  PROVE  Sound(a)' /\ \A b \in Attempt \ {a} : att'[b] = att[b]
<1>1. /\ att'[a].stage = att[a].stage /\ att'[a].left = att[a].left /\ att'[a].work = w
      /\ att'[a].verdict = att[a].verdict
      /\ att'[a].task = att[a].task /\ att'[a].home = att[a].home
      /\ \A b \in Attempt \ {a} : att'[b] = att[b]
  BY DEF TypeOK, AttemptRecord
<1>2. Placed(att'[a])
  BY <1>1 DEF Sound, Placed
<1>3. InOrder(att'[a])
  BY <1>1 DEF InOrder, Blank
<1>4. Behind(att[a])'
  <2>1. FirstStored => FirstStored'
    BY DEF FirstStored
  <2> QED
    BY <1>1, <2>1 DEF Sound, Behind
<1> QED
  BY <1>1, <1>2, <1>3, <1>4 DEF Sound

(* A step of one attempt that stores nothing.                              *)
LEMMA QuietStep ==
  ASSUME IInv, TypeOK', NEW a \in Attempt, UNCHANGED rows,
         Sound(a)', \A b \in Attempt \ {a} : att'[b] = att[b],
         done' = done \/ FirstStored,
         mark' \/ (~mark /\ ~mark') \/ FirstStored,
         att'[a].stage \in {"read", "write"} => mark' \/ att[a].stage \in {"read", "write"},
         inserts' = inserts \/ att[a].stage \in {"read", "write"}
  PROVE  IInv'
<1>1. Grows
  BY DEF Grows, IInv, TypeOK
<1>2. \A b \in Attempt : Sound(b)'
  BY <1>1, OthersSound
<1>3. FirstStored => FirstStored'
  BY DEF FirstStored
<1>4. DoneIsStored'
  BY <1>3 DEF IInv, DoneIsStored
<1>5. Writing' => mark' \/ Writing
  BY DEF Writing
<1>6. Started' => Started
  BY DEF Started
<1>7. inserts' # {} => inserts # {} \/ Writing
  BY DEF Writing
<1>8. Marked'
  BY <1>3, <1>5, <1>6, <1>7 DEF IInv, Marked
<1> QED
  BY <1>2, <1>4, <1>8 DEF IInv

LEMMA SoundBegin ==
  ASSUME IInv, TypeOK', NEW a \in Attempt,
         Acquire(a) \/ LookUpDone(a) \/ Begun(a) \/ GiveUp(a)
  PROVE  IInv'
<1>0. /\ UNCHANGED <<mark, done, rows, inserts>> /\ att[a].stage = "begin" /\ TypeOK
      /\ Sound(a)
  BY DEF Acquire, LookUpDone, Begun, GiveUp, Answered, clickhouse, IInv
<1>a. att[a] \in AttemptRecord /\ att[a].work \in Work
  BY <1>0, WorkOf
<1>b. att[a].work.at = 1 /\ att[a].work.total = 0 /\ att[a].work.write = Blank /\ Executing(a)
      /\ att[a].verdict # "completed" /\ (att[a].work.was = "done" => FirstStored)
  BY <1>0 DEF Sound, InOrder, Behind, Executing
<1>c. mark' \/ (~mark /\ ~mark')
  BY <1>0 DEF TypeOK
<1>1. CASE Acquire(a)
  <2> DEFINE w(x) == [att[a].work EXCEPT !.got = x]
  <2>1. PICK x \in {"yes", "no", "error"} : att' = [att EXCEPT ![a].work = w(x)]
    BY <1>0, <1>1 DEF Acquire, TypeOK
  <2>2. /\ w(x) \in Work /\ w(x).at = 1 /\ w(x).total = 0 /\ w(x).write = Blank
        /\ w(x).was = att[a].work.was
    BY <2>1, <1>a, <1>b DEF Work
  <2> HIDE DEF w
  <2>3. Sound(a)' /\ \A b \in Attempt \ {a} : att'[b] = att[b]
    BY <1>0, <1>b, <2>1, <2>2, LearnSound
  <2>4. att'[a].stage = "begin"
    BY <1>0, <1>a, <2>1 DEF TypeOK, AttemptRecord
  <2> QED
    BY <1>0, <1>c, <2>3, <2>4, QuietStep
<1>2. CASE LookUpDone(a)
  <2> DEFINE w(x) == [att[a].work EXCEPT !.was = x]
  <2>1. PICK x \in {"done", "open", "error"} :
          att' = [att EXCEPT ![a].work = w(x)] /\ (x = "done" => done # {})
    BY <1>0, <1>2 DEF LookUpDone, TypeOK
  <2>2. w(x) \in Work /\ w(x).at = 1 /\ w(x).total = 0 /\ w(x).write = Blank /\ w(x).was = x
    BY <2>1, <1>a, <1>b DEF Work
  <2>3. w(x).was = "done" => FirstStored
    BY <2>1, <2>2 DEF IInv, DoneIsStored
  <2> HIDE DEF w
  <2>4. Sound(a)' /\ \A b \in Attempt \ {a} : att'[b] = att[b]
    BY <1>0, <1>b, <2>1, <2>2, <2>3, LearnSound
  <2>5. att'[a].stage = "begin"
    BY <1>0, <1>a, <2>1 DEF TypeOK, AttemptRecord
  <2> QED
    BY <1>0, <1>c, <2>4, <2>5, QuietStep
<1>3. CASE Begun(a)
  <2>1. CASE Leave(a, "failed")
    <3>1. att'[a].stage = "end"
      BY <1>0, <1>a, <2>1 DEF Leave, TypeOK, AttemptRecord
    <3> QED
      BY <1>0, <1>b, <1>c, <2>1, <3>1, LeaveSound, QuietStep
  <2>2. CASE att[a].work.was = "done" /\ Enter(a, "replay")
    <3>1. att'[a].stage = "replay"
      BY <1>0, <1>a, <2>2 DEF Enter, TypeOK, AttemptRecord
    <3>2. Sound(a)' /\ \A b \in Attempt \ {a} : att'[b] = att[b]
      BY <1>0, <1>b, <2>2, EnterSound DEF Stage
    <3> QED
      BY <1>0, <1>c, <3>1, <3>2, QuietStep
  <2>3. CASE Enter(a, "mark")
    <3>1. att'[a].stage = "mark"
      BY <1>0, <1>a, <2>3 DEF Enter, TypeOK, AttemptRecord
    <3>2. Sound(a)' /\ \A b \in Attempt \ {a} : att'[b] = att[b]
      BY <1>0, <1>b, <2>3, EnterSound DEF Stage
    <3> QED
      BY <1>0, <1>c, <3>1, <3>2, QuietStep
  <2>4. CASE att' = [att EXCEPT ![a].work = NoWork]
    <3>1. NoWork.at = 1 /\ NoWork.total = 0 /\ NoWork.write = Blank /\ NoWork.was # "done"
      BY DEF NoWork
    <3>2. Sound(a)' /\ \A b \in Attempt \ {a} : att'[b] = att[b]
      BY <1>0, <2>4, <3>1, NoWorkTyped, LearnSound
    <3>3. att'[a].stage = "begin"
      BY <1>0, <1>a, <2>4 DEF TypeOK, AttemptRecord
    <3> QED
      BY <1>0, <1>c, <3>2, <3>3, QuietStep
  <2> QED
    BY <1>3, <2>1, <2>2, <2>3, <2>4 DEF Begun
<1>4. CASE GiveUp(a)
  <2>1. /\ att'[a].stage = "settled" /\ att'[a].verdict = "failed" /\ att'[a].work = NoWork
        /\ att'[a].left = att[a].left /\ \A b \in Attempt \ {a} : att'[b] = att[b]
    BY <1>0, <1>a, <1>4 DEF GiveUp, TypeOK, AttemptRecord
  <2>2. FirstStored => FirstStored'
    BY <1>0 DEF FirstStored
  <2>3. Sound(a)'
    BY <1>0, <2>1, <2>2 DEF Sound, Placed, InOrder, Behind, NoWork, Blank
  <2> QED
    BY <1>0, <1>c, <2>1, <2>3, QuietStep
<1> QED
  BY <1>1, <1>2, <1>3, <1>4
LEMMA SoundMarks ==
  ASSUME IInv, TypeOK', NEW a \in Attempt, MarkIncomplete(a) \/ Replay(a)
  PROVE  IInv'
<1>0. /\ UNCHANGED <<done, rows, inserts>> /\ att[a].stage \in {"mark", "replay"} /\ TypeOK
      /\ Sound(a) /\ Executing(a)
  BY DEF MarkIncomplete, Replay, clickhouse, IInv, Executing
<1>a. att[a] \in AttemptRecord /\ att[a].work \in Work
  BY <1>0, WorkOf
<1>1. CASE Enter(a, "read") /\ MarkIncomplete(a) /\ mark' = TRUE
  <2>1. att'[a].stage = "read" /\ mark'
    BY <1>0, <1>a, <1>1 DEF Enter, TypeOK, AttemptRecord
  <2>2. Sound(a)' /\ \A b \in Attempt \ {a} : att'[b] = att[b]
    <3>1. /\ att[a].stage = "mark" /\ att[a].work.total = 0 /\ att[a].work.write = Blank
          /\ att[a].verdict # "completed"
      BY <1>0, <1>1 DEF MarkIncomplete, Sound, InOrder, Behind
    <3> QED
      BY <1>0, <1>1, <3>1, EnterSound DEF Stage
  <2> QED
    BY <1>0, <2>1, <2>2, QuietStep
<1>2. CASE Leave(a, "failed") \/ (Replay(a) /\ Leave(a, "completed"))
  <2>1. Replay(a) => FirstStored
    BY <1>0 DEF Replay, Sound, Behind
  <2>2. Sound(a)' /\ \A b \in Attempt \ {a} : att'[b] = att[b]
    BY <1>0, <1>2, <2>1, LeaveSound
  <2>3. att'[a].stage = "end"
    BY <1>0, <1>a, <1>2 DEF Leave, TypeOK, AttemptRecord
  <2>4. mark' \/ (~mark /\ ~mark') \/ FirstStored
    BY <1>0, <2>1 DEF TypeOK, MarkIncomplete, Replay
  <2> QED
    BY <1>0, <2>2, <2>3, <2>4, QuietStep
<1> QED
  BY <1>1, <1>2 DEF MarkIncomplete, Replay

LEMMA SoundReads ==
  ASSUME IInv, TypeOK', NEW a \in Attempt,
         CountSlice(a) \/ ReadSlice(a) \/ StartWriting(a) \/ EndOfSlice(a)
  PROVE  IInv'
<1>0. /\ UNCHANGED <<mark, done, rows, inserts>> /\ att[a].stage \in {"read", "write"}
      /\ TypeOK /\ Sound(a) /\ Executing(a)
  BY DEF CountSlice, ReadSlice, StartWriting, EndOfSlice, AtEnd, clickhouse, IInv, Executing
<1>a. att[a] \in AttemptRecord /\ att[a].work \in Work
  BY <1>0, WorkOf
<1>b. mark' \/ (~mark /\ ~mark')
  BY <1>0 DEF TypeOK
<1>c. att[a].verdict # "completed"
  BY <1>0 DEF Sound, Behind
<1>d. att[a].stage = "read" => /\ att[a].work.at = 1 /\ att[a].work.write = Blank
                              /\ att[a].work.total \in {0} \cup FirstSize..MaxSize
                              /\ (att[a].work.was = "done" => FirstStored)
  BY <1>0 DEF Sound, InOrder, Behind
<1>1. CASE Leave(a, "failed")
  BY <1>0, <1>b, <1>1, LeaveSound, QuietStep
<1>2. CASE CountSlice(a) /\ ~Leave(a, "failed")
  <2> DEFINE w == [att[a].work EXCEPT !.total = size]
  <2>1. att' = [att EXCEPT ![a].work = w] /\ att[a].stage = "read"
    BY <1>0, <1>2 DEF CountSlice, TypeOK
  <2>2. /\ w.total \in FirstSize..MaxSize /\ w \in Work /\ w.at = 1 /\ w.write = Blank
        /\ w.was = att[a].work.was
    <3>1. size \in FirstSize..MaxSize /\ size \in 0..MaxSize
      BY <1>0, RustAssumption DEF RustAssumption, TypeOK
    <3>2. w.total = size /\ w.at = att[a].work.at /\ w.write = att[a].work.write
          /\ w.was = att[a].work.was
      BY <1>a DEF Work
    <3>3. w \in Work
      BY <1>a, <3>1 DEF Work
    <3> QED
      BY <1>d, <2>1, <3>1, <3>2, <3>3
  <2> HIDE DEF w
  <2>3. Sound(a)' /\ \A b \in Attempt \ {a} : att'[b] = att[b]
    BY <1>0, <1>d, <2>1, <2>2, LearnSound
  <2> QED
    BY <1>0, <1>b, <2>3, QuietStep
<1>3. CASE ReadSlice(a) /\ ~Leave(a, "failed")
  <2> DEFINE w == [att[a].work EXCEPT !.upto = size]
  <2>1. att' = [att EXCEPT ![a].work = w] /\ att[a].stage = "read"
    BY <1>0, <1>3 DEF ReadSlice, TypeOK
  <2>2. /\ w.total = att[a].work.total /\ w \in Work /\ w.at = 1 /\ w.write = Blank
        /\ w.was = att[a].work.was
    <3>1. size \in 0..MaxSize
      BY <1>0, RustAssumption DEF RustAssumption, TypeOK
    <3>2. w.total = att[a].work.total /\ w.at = att[a].work.at
          /\ w.write = att[a].work.write /\ w.was = att[a].work.was
      BY <1>a DEF Work
    <3>3. w \in Work
      BY <1>a, <3>1 DEF Work
    <3> QED
      BY <1>d, <2>1, <3>2, <3>3
  <2> HIDE DEF w
  <2>3. Sound(a)' /\ \A b \in Attempt \ {a} : att'[b] = att[b]
    BY <1>0, <1>d, <2>1, <2>2, LearnSound
  <2> QED
    BY <1>0, <1>b, <2>3, QuietStep
<1>4. CASE StartWriting(a)
  <2>1. Enter(a, "write") /\ att[a].stage = "read" /\ att[a].work.total >= FirstSize
    BY <1>0, <1>d, <1>4, RustAssumption DEF RustAssumption, StartWriting, TypeOK
  <2>2. Sound(a)' /\ \A b \in Attempt \ {a} : att'[b] = att[b]
    BY <1>0, <1>c, <1>d, <2>1, EnterSound DEF Stage
  <2> QED
    BY <1>0, <1>b, <2>2, QuietStep
<1>5. CASE EndOfSlice(a) /\ ~Leave(a, "failed")
  <2>1. /\ Enter(a, "commit") /\ att[a].work.write = Blank
        /\ att[a].work.at > att[a].work.total /\ att[a].stage = "write"
    BY <1>0, <1>5 DEF EndOfSlice, AtEnd
  <2>2. att[a].work.total >= FirstSize /\ StoredTo(att[a].work.at - 1)
    BY <1>0, <2>1 DEF Sound, Behind
  <2>3. 1..att[a].work.total \subseteq 1..att[a].work.at - 1
    BY <1>a, <2>1, AttemptsAreNumbers DEF Work
  <2>4. StoredTo(att[a].work.total)
    BY <2>2, <2>3 DEF StoredTo
  <2>5. Sound(a)' /\ \A b \in Attempt \ {a} : att'[b] = att[b]
    BY <1>0, <1>c, <2>1, <2>2, <2>4, EnterSound DEF Stage
  <2> QED
    BY <1>0, <1>b, <2>5, QuietStep
<1> QED
  BY <1>1, <1>2, <1>3, <1>4, <1>5
Wrote(a, t, x) == att' = [att EXCEPT ![a].work.write[t] = x]

LEMMA WriteKeeps ==
  ASSUME TypeOK, NEW a \in Attempt, NEW t \in Table, NEW x, Wrote(a, t, x)
  PROVE  /\ att'[a].stage = att[a].stage /\ att'[a].left = att[a].left
         /\ att'[a].verdict = att[a].verdict
         /\ att'[a].task = att[a].task /\ att'[a].home = att[a].home
         /\ att'[a].work.was = att[a].work.was /\ att'[a].work.total = att[a].work.total
         /\ att'[a].work.upto = att[a].work.upto /\ att'[a].work.at = att[a].work.at
         /\ att'[a].work.write[t] = x
         /\ \A u \in Table \ {t} : att'[a].work.write[u] = att[a].work.write[u]
         /\ \A b \in Attempt \ {a} : att'[b] = att[b]
<1>1. att[a] \in AttemptRecord /\ att[a].work \in Work
  BY WorkOf
<1> QED
  BY <1>1 DEF Wrote, TypeOK, AttemptRecord, Work

LEMMA SoundWrites ==
  ASSUME IInv, TypeOK', NEW a \in Attempt, NEW t \in Table, WriteBatch(a, t) \/ NextBatch(a)
  PROVE  IInv'
<1>0. /\ UNCHANGED <<mark, done, rows>> /\ att[a].stage = "write"
      /\ TypeOK /\ Sound(a) /\ Executing(a)
  BY DEF WriteBatch, Due, NextBatch, AfterBatch, clickhouse, IInv, Executing
<1>a. att[a] \in AttemptRecord /\ att[a].work \in Work
  BY <1>0, WorkOf
<1>b. mark' \/ (~mark /\ ~mark')
  BY <1>0 DEF TypeOK
<1>c. att[a].verdict # "completed" /\ (FirstStored => FirstStored')
  BY <1>0 DEF Sound, Behind, FirstStored
<1>1. CASE WriteBatch(a, t)
  <2>1. PICK x \in {"stored", "sent", "failed"} :
          /\ Wrote(a, t, x)
          /\ x = "stored" => rows[t][att[a].work.at] > 0
    BY <1>1 DEF WriteBatch, Send, Wrote
  <2>2. /\ att'[a].stage = "write" /\ att'[a].left = att[a].left
        /\ att'[a].verdict = att[a].verdict
        /\ att'[a].task = att[a].task /\ att'[a].home = att[a].home
        /\ \A b \in Attempt \ {a} : att'[b] = att[b]
    BY <1>0, <2>1, WriteKeeps
  <2>3. /\ att'[a].work.was = att[a].work.was
        /\ att'[a].work.total = att[a].work.total
        /\ att'[a].work.upto = att[a].work.upto
        /\ att'[a].work.at = att[a].work.at
    BY <1>0, <2>1, WriteKeeps
  <2>9. /\ att'[a].work.write[t] = x
        /\ \A u \in Table \ {t} : att'[a].work.write[u] = att[a].work.write[u]
    BY <1>0, <2>1, WriteKeeps
  <2>4. att[a].work.at <= att[a].work.upto
    BY <1>1 DEF WriteBatch, Due
  <2>5. Placed(att'[a]) /\ InOrder(att'[a])
    BY <1>0, <1>a, <2>2, <2>3, <2>4, <2>9 DEF Sound, Placed, InOrder, Work
  <2>6. Behind(att[a])'
    <3>1. \A n : StoredTo(n) => StoredTo(n)'
      BY <1>0 DEF StoredTo
    <3>2. \A u \in Table : att'[a].work.write[u] = "stored" => rows[u][att[a].work.at] > 0
      BY <1>0, <1>a, <2>1, <2>3, <2>9 DEF Sound, Behind, Work
    <3>3. att[a].work.total >= FirstSize /\ StoredTo(att[a].work.at - 1)
      BY <1>0 DEF Sound, Behind
    <3>4. att[a].work.was = "done" \/ "mark" \in att[a].left => FirstStored
      BY <1>0 DEF Sound, Behind
    <3> QED
      BY <1>0, <1>c, <2>2, <2>3, <3>1, <3>2, <3>3, <3>4 DEF Behind
  <2>7. Sound(a)'
    BY <2>5, <2>6 DEF Sound
  <2> QED
    BY <1>0, <1>b, <2>2, <2>7, QuietStep
<1>2. CASE NextBatch(a) /\ Failed(a)
  <2>1. Leave(a, "failed") /\ inserts' = inserts
    BY <1>2 DEF NextBatch, AfterBatch, clickhouse
  <2> QED
    BY <1>0, <1>b, <2>1, LeaveSound, QuietStep
<1>3. CASE NextBatch(a) /\ ~Failed(a)
  <2> DEFINE w == [att[a].work EXCEPT !.at = @ + 1, !.write = Blank]
  <2>1. att' = [att EXCEPT ![a].work = w] /\ inserts' = inserts
    BY <1>3 DEF NextBatch, AfterBatch, clickhouse
  <2>2. /\ att'[a].stage = "write" /\ att'[a].left = att[a].left
        /\ att'[a].verdict = att[a].verdict /\ att'[a].work = w
        /\ att'[a].task = att[a].task /\ att'[a].home = att[a].home
        /\ \A b \in Attempt \ {a} : att'[b] = att[b]
    BY <1>0, <1>a, <2>1 DEF TypeOK, AttemptRecord
  <2>3. /\ w.was = att[a].work.was /\ w.total = att[a].work.total
        /\ w.at = att[a].work.at + 1 /\ w.write = Blank
    BY <1>a DEF Work
  <2> HIDE DEF w
  <2>4. \A u \in Table : att[a].work.write[u] = "stored"
    BY <1>3 DEF NextBatch, Ended, Failed
  <2>5. StoredTo(w.at - 1)
    <3>1. /\ StoredTo(att[a].work.at - 1)
          /\ \A u \in Table : rows[u][att[a].work.at] > 0
      BY <1>0, <2>4 DEF Sound, Behind
    <3>2. att[a].work.at \in Nat /\ w.at - 1 = att[a].work.at
      BY <1>a, <2>3, AttemptsAreNumbers DEF Work
    <3>3. \A b \in 1..w.at - 1 : b \in 1..att[a].work.at - 1 \/ b = att[a].work.at
      BY <3>2
    <3> QED
      BY <3>1, <3>2, <3>3 DEF StoredTo
  <2>6. Placed(att'[a]) /\ InOrder(att'[a])
    BY <1>0, <2>2, <2>3 DEF Sound, Placed, InOrder, Blank
  <2>7. Behind(att[a])'
    <3>1. \A n : StoredTo(n) => StoredTo(n)'
      BY <1>0 DEF StoredTo
    <3>2. att[a].work.total >= FirstSize
      BY <1>0 DEF Sound, Behind
    <3>3. att[a].work.was = "done" \/ "mark" \in att[a].left => FirstStored
      BY <1>0 DEF Sound, Behind
    <3>4. \A u \in Table : Blank[u] # "stored"
      BY DEF Blank
    <3> QED
      BY <1>0, <1>c, <2>2, <2>3, <2>5, <3>1, <3>2, <3>3, <3>4 DEF Behind
  <2>8. Sound(a)'
    BY <2>6, <2>7 DEF Sound
  <2> QED
    BY <1>0, <1>b, <2>1, <2>2, <2>8, QuietStep
<1> QED
  BY <1>1, <1>2, <1>3
LEMMA SoundInserts ==
  ASSUME IInv, TypeOK', NEW i \in inserts, InsertEnds(i) \/ LateInsert(i)
  PROVE  IInv'
<1> DEFINE a == i.attempt
<1>0. /\ UNCHANGED <<mark, done>> /\ TypeOK /\ inserts' \subseteq inserts
      /\ a \in Attempt /\ i.table \in Table /\ i.batch \in Batch /\ Sound(a)
  BY DEF InsertEnds, LateInsert, IInv, TypeOK, Insert
<1>1. Grows /\ (Stored(i) => rows'[i.table][i.batch] > 0)
  <2>1. CASE Stored(i)
    BY <1>0, <2>1 DEF Stored, Grows, TypeOK
  <2>2. CASE UNCHANGED rows
    <3>1. Grows
      BY <1>0, <2>2 DEF Grows, TypeOK
    <3>2. Stored(i) => rows'[i.table][i.batch] = rows[i.table][i.batch] + 1
      BY <1>0 DEF Stored, TypeOK
    <3> QED
      BY <1>0, <3>1, <3>2 DEF TypeOK
  <2> QED
    BY <2>1, <2>2 DEF InsertEnds, LateInsert
<1>2. \A b \in Attempt : Sound(b)'
  <2>1. CASE LateInsert(i)
    BY <1>0, <1>1, <2>1, StaysSound DEF LateInsert, IInv
  <2>2. CASE InsertEnds(i)
    <3>0. /\ att[a].stage = "write" /\ att[a].work.at = i.batch
          /\ att[a].work.write[i.table] = "sent"
          /\ att[a] \in AttemptRecord /\ att[a].work \in Work
      BY <1>0, <2>2, WorkOf DEF InsertEnds, Awaited
    <3>1. PICK x \in {"stored", "failed"} :
            /\ Wrote(a, i.table, x)
            /\ x = "stored" => Stored(i)
      BY <2>2 DEF InsertEnds, Wrote
    <3>2. /\ att'[a].stage = "write" /\ att'[a].left = att[a].left
          /\ att'[a].verdict = att[a].verdict
          /\ att'[a].task = att[a].task /\ att'[a].home = att[a].home
          /\ \A b \in Attempt \ {a} : att'[b] = att[b]
      BY <1>0, <3>0, <3>1, WriteKeeps
    <3>3. /\ att'[a].work.was = att[a].work.was
          /\ att'[a].work.total = att[a].work.total
          /\ att'[a].work.upto = att[a].work.upto
          /\ att'[a].work.at = att[a].work.at
      BY <1>0, <3>1, WriteKeeps
    <3>9. /\ att'[a].work.write[i.table] = x
          /\ \A u \in Table \ {i.table} : att'[a].work.write[u] = att[a].work.write[u]
      BY <1>0, <3>1, WriteKeeps
    <3>4. att[a].work.at <= att[a].work.upto
      BY <1>0, <3>0 DEF Sound, InOrder
    <3>5. Placed(att'[a]) /\ InOrder(att'[a])
      BY <1>0, <3>0, <3>2, <3>3, <3>4, <3>9 DEF Sound, Placed, InOrder, Work
    <3>6. Behind(att[a])'
      <4>1. /\ \A n \in 0..MaxSize : StoredTo(n) => StoredTo(n)'
            /\ FirstStored => FirstStored'
            /\ \A t \in Table : \A b \in Batch : rows[t][b] > 0 => rows'[t][b] > 0
        BY <1>0, <1>1, StaysStored
      <4>2. /\ att[a].work.total >= FirstSize /\ StoredTo(att[a].work.at - 1)
            /\ \A t \in Table : att[a].work.write[t] = "stored" => rows[t][att[a].work.at] > 0
            /\ att[a].work.was = "done" \/ "mark" \in att[a].left => FirstStored
            /\ att[a].verdict # "completed"
        BY <1>0, <3>0 DEF Sound, Behind
      <4>3. att[a].work.at - 1 \in 0..MaxSize
        BY <3>0, AttemptsAreNumbers DEF Work
      <4>4. \A u \in Table : att'[a].work.write[u] = "stored" => rows'[u][att[a].work.at] > 0
        BY <1>0, <1>1, <3>0, <3>1, <3>3, <3>9, <4>1, <4>2 DEF Work
      <4> QED
        BY <3>2, <3>3, <4>1, <4>2, <4>3, <4>4 DEF Behind
    <3>7. Sound(a)'
      BY <3>5, <3>6 DEF Sound
    <3> QED
      BY <1>0, <1>1, <3>2, <3>7, OthersSound
  <2> QED
    BY <2>1, <2>2
<1>3. FirstStored => FirstStored'
  BY <1>0, <1>1, StaysStored
<1>4. DoneIsStored'
  BY <1>0, <1>3 DEF IInv, DoneIsStored
<1>5. inserts # {}
  OBVIOUS
<1>6. Marked'
  BY <1>0, <1>3, <1>5 DEF IInv, Marked
<1> QED
  BY <1>2, <1>4, <1>6 DEF IInv

LEMMA EndKeeps ==
  ASSUME TypeOK, NEW a \in Attempt, ClearMark(a) \/ ReleaseLease(a)
  PROVE  /\ att'[a].stage = "end" /\ att'[a].left \subseteq att[a].left
         /\ att'[a].verdict \in {att[a].verdict, "failed"} /\ att'[a].work = att[a].work
         /\ att'[a].task = att[a].task /\ att'[a].home = att[a].home
         /\ \A b \in Attempt \ {a} : att'[b] = att[b]
<1>1. att[a] \in AttemptRecord /\ att[a].stage = "end"
  BY WorkOf DEF ClearMark, ReleaseLease
<1>2. CASE att' = [att EXCEPT ![a].left = @ \ {"mark"}]
  BY <1>1, <1>2 DEF TypeOK, AttemptRecord
<1>3. CASE att' = [att EXCEPT ![a].left = @ \ {"mark"}, ![a].verdict = "failed"]
  BY <1>1, <1>3 DEF TypeOK, AttemptRecord
<1>4. CASE att' = [att EXCEPT ![a].left = @ \ {"lease"}]
  BY <1>1, <1>4 DEF TypeOK, AttemptRecord
<1> QED
  BY <1>2, <1>3, <1>4 DEF ClearMark, ReleaseLease

LEMMA SoundEnd ==
  ASSUME IInv, TypeOK', NEW a \in Attempt,
         Commit(a) \/ ClearMark(a) \/ ReleaseLease(a) \/ Settle(a) \/ StopWork(a)
  PROVE  IInv'
<1>0. /\ UNCHANGED <<rows, inserts>> /\ TypeOK /\ Sound(a) /\ Executing(a)
      /\ att[a].stage \in {"commit", "end", "read", "write"}
  BY DEF Commit, ClearMark, ReleaseLease, Settle, StopWork, clickhouse, IInv, Executing
<1>a. att[a] \in AttemptRecord /\ att[a].work \in Work
  BY <1>0, WorkOf
<1>b. mark' = mark => mark' \/ (~mark /\ ~mark')
  BY <1>0 DEF TypeOK
<1>c. /\ FirstStored => FirstStored'
      /\ \A n : StoredTo(n) => StoredTo(n)'
  BY <1>0 DEF FirstStored, StoredTo
<1>1. CASE Leave(a, "failed") /\ (StopWork(a) \/ Commit(a))
  <2>1. Commit(a) => FirstStored
    <3>1. Commit(a) => att[a].work.total >= FirstSize /\ StoredTo(att[a].work.total)
      BY <1>0 DEF Commit, Sound, Behind
    <3>2. att[a].work.total \in Nat /\ FirstSize \in Nat
      BY <1>a, RustAssumption DEF RustAssumption, Work
    <3>3. att[a].work.total >= FirstSize => 1..FirstSize \subseteq 1..att[a].work.total
      BY <3>2
    <3> QED
      BY <3>1, <3>3 DEF StoredTo, FirstStored
  <2>2. mark' = mark /\ (done' = done \/ FirstStored)
    BY <1>1, <2>1 DEF StopWork, Commit
  <2>3. Sound(a)' /\ \A b \in Attempt \ {a} : att'[b] = att[b]
    BY <1>0, <1>1, LeaveSound
  <2>4. att'[a].stage = "end"
    BY <1>0, <1>a, <1>1 DEF Leave, TypeOK, AttemptRecord
  <2> QED
    BY <1>0, <1>b, <2>2, <2>3, <2>4, QuietStep
<1>2. CASE Commit(a) /\ ~Leave(a, "failed")
  <2> DEFINE w == [NoWork EXCEPT !.total = att[a].work.total]
             r == [att[a] EXCEPT !.stage = "end", !.left = {"mark", "lease"},
                                 !.verdict = "completed", !.work = w]
  <2>1. att' = [att EXCEPT ![a] = r] /\ mark' = mark
    BY <1>0, <1>2 DEF Commit, TypeOK
  <2>2. /\ w.total = att[a].work.total /\ w.write = Blank /\ w.was = "none" /\ w.at = 1
    BY NoWorkTyped DEF Work, NoWork
  <2> HIDE DEF w
  <2>3. /\ att'[a].stage = "end" /\ att'[a].left = {"mark", "lease"} /\ att'[a].work = w
        /\ att'[a].verdict = "completed"
        /\ att'[a].task = att[a].task /\ att'[a].home = att[a].home
        /\ \A b \in Attempt \ {a} : att'[b] = att[b]
    BY <1>0, <1>a, <2>1 DEF TypeOK, AttemptRecord
  <2>4. FirstStored /\ StoredTo(att[a].work.total)
    <3>1. att[a].work.total >= FirstSize /\ StoredTo(att[a].work.total)
      BY <1>0, <1>2 DEF Commit, Sound, Behind
    <3>2. att[a].work.total \in Nat /\ FirstSize \in Nat
      BY <1>a, RustAssumption DEF RustAssumption, Work
    <3>3. 1..FirstSize \subseteq 1..att[a].work.total
      BY <3>1, <3>2
    <3> QED
      BY <3>1, <3>3 DEF StoredTo, FirstStored
  <2>5. Placed(att'[a]) /\ InOrder(att'[a])
    BY <1>0, <2>2, <2>3 DEF Sound, Placed, InOrder, Executing, Blank
  <2>6. Behind(att[a])'
    BY <1>c, <2>2, <2>3, <2>4 DEF Behind
  <2>7. Sound(a)'
    BY <2>5, <2>6 DEF Sound
  <2> QED
    BY <1>0, <1>b, <2>1, <2>3, <2>4, <2>7, QuietStep
<1>3. CASE ClearMark(a) \/ ReleaseLease(a)
  <2>2. /\ att'[a].stage = "end" /\ att'[a].left \subseteq att[a].left
        /\ att'[a].verdict \in {att[a].verdict, "failed"} /\ att'[a].work = att[a].work
        /\ att'[a].task = att[a].task /\ att'[a].home = att[a].home
        /\ \A b \in Attempt \ {a} : att'[b] = att[b]
    BY <1>0, <1>3, EndKeeps
  <2>3. /\ done' = done /\ (mark' = mark \/ FirstStored)
    BY <1>0, <1>3 DEF ClearMark, ReleaseLease, Sound, Behind
  <2>4. Placed(att'[a]) /\ InOrder(att'[a])
    BY <1>0, <1>3, <2>2 DEF Sound, Placed, InOrder, ClearMark, ReleaseLease
  <2>5. Behind(att[a])'
    BY <1>0, <1>3, <1>c, <2>2 DEF Sound, Behind, ClearMark, ReleaseLease
  <2>6. Sound(a)'
    BY <2>4, <2>5 DEF Sound
  <2> QED
    BY <1>0, <1>b, <2>2, <2>3, <2>6, QuietStep
<1>4. CASE Settle(a)
  <2>1. Enter(a, "settled") /\ mark' = mark /\ done' = done /\ att[a].stage = "end"
    BY <1>4 DEF Settle
  <2>2. att[a].work.write = Blank
    BY <1>0, <2>1 DEF Sound, InOrder
  <2>3. Sound(a)' /\ \A b \in Attempt \ {a} : att'[b] = att[b]
    BY <1>0, <2>1, <2>2, EnterSound DEF Stage
  <2>4. att'[a].stage = "settled"
    BY <1>0, <1>a, <2>1 DEF Enter, TypeOK, AttemptRecord
  <2> QED
    BY <1>0, <1>b, <2>1, <2>3, <2>4, QuietStep
<1> QED
  BY <1>1, <1>2, <1>3, <1>4 DEF StopWork, Commit
LEMMA SubmitMakes ==
  ASSUME TypeOK, NEW a \in Attempt, NEW n \in Node, NEW t \in Task, Submit(a, n, t)
  PROVE  /\ att'[a].stage \in {"begin", "settled"} /\ att'[a].home = n /\ att'[a].task = t
         /\ att'[a].work = NoWork /\ att'[a].left = {} /\ att'[a].verdict # "completed"
         /\ \A b \in Attempt \ {a} : att'[b] = att[b]
<1> DEFINE new == [Nobody("begin") EXCEPT !.home = n, !.task = t]
           no == [new EXCEPT !.stage = "settled", !.verdict = "failed"]
<1>1. Nobody("begin") \in AttemptRecord
  BY NoWorkTyped DEF Nobody, AttemptRecord, Stage
<1>2. /\ new.stage = "begin" /\ new.home = n /\ new.task = t /\ new.work = NoWork
      /\ new.left = {} /\ new.verdict = "none" /\ new \in AttemptRecord
  BY <1>1 DEF Nobody, AttemptRecord
<1>3. /\ no.stage = "settled" /\ no.home = n /\ no.task = t /\ no.work = NoWork
      /\ no.left = {} /\ no.verdict = "failed"
  BY <1>2 DEF AttemptRecord
<1> HIDE DEF new, no
<1>4. att' = [att EXCEPT ![a] = new] \/ att' = [att EXCEPT ![a] = no]
  BY DEF Submit, new, no
<1> QED
  BY <1>2, <1>3, <1>4 DEF TypeOK

LEMMA SoundSubmit ==
  ASSUME IInv, TypeOK', NEW a \in Attempt, NEW n \in Node, NEW t \in Task, Submit(a, n, t)
  PROVE  IInv'
<1>1. UNCHANGED <<mark, done, rows, inserts>> /\ TypeOK
  BY DEF Submit, clickhouse, IInv
<1>2. /\ att'[a].stage \in {"begin", "settled"} /\ att'[a].home = n /\ att'[a].task = t
      /\ att'[a].work = NoWork /\ att'[a].left = {} /\ att'[a].verdict # "completed"
      /\ \A b \in Attempt \ {a} : att'[b] = att[b]
  BY <1>1, SubmitMakes
<1>3. Sound(a)'
  BY <1>2 DEF Sound, Placed, InOrder, Behind, NoWork, Blank
<1>4. mark' \/ (~mark /\ ~mark')
  BY <1>1 DEF TypeOK
<1> QED
  BY <1>1, <1>2, <1>3, <1>4, QuietStep

(* Steps of nodes and of the world leave what attempts have learnt alone,  *)
(* or forget it.                                                           *)
LEMMA StepOfWorld ==
  ASSUME IInv, TypeOK', UNCHANGED <<mark, done, rows, inserts>>,
         \A a \in Attempt : att'[a] = att[a] \/ att'[a] = Nobody("gone")
  PROVE  IInv'
<1>0. TypeOK /\ Grows
  BY DEF IInv, Grows, TypeOK
<1>2. ASSUME NEW a \in Attempt PROVE Sound(a)'
  <2>1. CASE att'[a] = att[a]
    BY <1>0, <2>1, StaysSound DEF IInv
  <2>2. CASE att'[a] = Nobody("gone")
    BY <2>2 DEF Sound, Placed, InOrder, Behind, Nobody, NoWork, Blank
  <2> QED
    BY <2>1, <2>2
<1>3. FirstStored => FirstStored'
  BY DEF FirstStored
<1>4. Writing' => Writing
  BY DEF Writing, Nobody
<1>5. Started' => Started
  BY DEF Started
<1>6. DoneIsStored' /\ Marked'
  BY <1>3, <1>4, <1>5 DEF IInv, DoneIsStored, Marked
<1> QED
  BY <1>2, <1>6 DEF IInv

LEMMA SoundNodes ==
  ASSUME IInv, TypeOK', NEW n \in Node,
         Crash(n) \/ BeginShutdown(n) \/ DrainTimeout(n) \/ Exit(n)
  PROVE  IInv'
<1>1. UNCHANGED <<mark, done, rows, inserts>>
  BY DEF Crash, BeginShutdown, DrainTimeout, Exit, Restart, clickhouse
<1>2. \A a \in Attempt : att'[a] = att[a] \/ att'[a] = Nobody("gone")
  BY DEF Crash, BeginShutdown, DrainTimeout, Exit, Restart
<1> QED
  BY <1>1, <1>2, StepOfWorld

LEMMA SoundWorld ==
  ASSUME IInv, TypeOK', Expire \/ LateEvent
  PROVE  IInv'
  BY StepOfWorld DEF Expire, LateEvent, clickhouse

LEMMA Inductive == IInv /\ [Next]_vars => IInv'
<1> SUFFICES ASSUME IInv, [Next]_vars PROVE IInv'
  OBVIOUS
<1>0. TypeOK /\ \A a \in Attempt : Sound(a)
  BY DEF IInv
<1>1. ASSUME NEW a \in Attempt, AttemptStep(a) \/ Begun(a) \/ GiveUp(a) \/ StopWork(a)
      PROVE  IInv'
  <2>1. CASE Acquire(a) \/ LookUpDone(a) \/ Begun(a) \/ GiveUp(a)
    BY <1>0, <2>1, TypeBegin, SoundBegin
  <2>2. CASE MarkIncomplete(a) \/ Replay(a)
    BY <1>0, <2>2, TypeMarks, SoundMarks
  <2>3. CASE CountSlice(a) \/ ReadSlice(a) \/ StartWriting(a) \/ EndOfSlice(a)
    BY <1>0, <2>3, TypeReads, SoundReads
  <2>4. CASE (\E t \in Table : WriteBatch(a, t)) \/ NextBatch(a)
    <3>1. PICK t \in Table : WriteBatch(a, t) \/ NextBatch(a)
      BY <2>4 DEF Table
    <3> QED
      BY <1>0, <3>1, TypeWrites, SoundWrites
  <2>5. CASE Commit(a) \/ ClearMark(a) \/ ReleaseLease(a) \/ Settle(a) \/ StopWork(a)
    BY <1>0, <2>5, TypeEnd, SoundEnd
  <2> QED
    BY <1>1, <2>1, <2>2, <2>3, <2>4, <2>5 DEF AttemptStep
<1>2. ASSUME NEW a \in Attempt, NEW n \in Node, NEW t \in Task, Submit(a, n, t)
      PROVE  IInv'
  BY <1>0, <1>2, TypeSubmit, SoundSubmit
<1>3. ASSUME NEW w \in inserts, InsertEnds(w) \/ LateInsert(w)
      PROVE  IInv'
  BY <1>0, <1>3, TypeInserts, SoundInserts
<1>4. ASSUME NEW n \in Node, Crash(n) \/ BeginShutdown(n) \/ DrainTimeout(n) \/ Exit(n)
      PROVE  IInv'
  BY <1>0, <1>4, TypeNodes, SoundNodes
<1>5. CASE Expire \/ LateEvent
  <2>1. TypeOK'
    BY <1>0, <1>5, TypeWorld
  <2> QED
    BY <1>5, <2>1, SoundWorld
<1>6. CASE UNCHANGED vars
  BY <1>6 DEF vars, clickhouse, history, IInv, TypeOK, Sound, Placed, InOrder, Behind,
              FirstStored, StoredTo, DoneIsStored, Marked, Writing, Started
<1> QED
  BY <1>1, <1>2, <1>3, <1>4, <1>5, <1>6 DEF Next
LEMMA InvInit == Init => IInv
<1> SUFFICES ASSUME Init PROVE IInv
  OBVIOUS
<1>1. TypeOK
  BY TypeInit
<1>2. ASSUME NEW a \in Attempt PROVE Sound(a)
  BY DEF Init, Sound, Placed, InOrder, Behind, Nobody, NoWork, Blank
<1>3. ~Writing /\ ~Started
  <2>1. ~Writing
    BY DEF Init, Writing, Nobody
  <2>2. \A t \in Table, b \in Batch : rows[t][b] = 0
    BY DEF Init
  <2> QED
    BY <2>1, <2>2 DEF Started
<1> QED
  BY <1>1, <1>2, <1>3 DEF Init, IInv, DoneIsStored, Marked

LEMMA InvImplies == IInv => MarkCoversGap /\ CompletedIsStored
<1> SUFFICES ASSUME IInv PROVE MarkCoversGap /\ CompletedIsStored
  OBVIOUS
<1>1. MarkCoversGap
  <2>1. FirstStored /\ size = FirstSize => Whole
    BY DEF FirstStored, Whole
  <2> QED
    BY <2>1 DEF IInv, Marked, MarkCoversGap
<1>2. CompletedIsStored
  BY DEF IInv, Sound, Behind, FirstStored, StoredTo, CompletedIsStored
<1> QED
  BY <1>1, <1>2

-----------------------------------------------------------------------------
(* The lease of an attempt that does not hold it any more is another's.    *)
LEMMA LeaseStep == TypeOK /\ LeaseIsExclusive /\ [Next]_vars => LeaseIsExclusive'
<1> SUFFICES ASSUME TypeOK, LeaseIsExclusive, [Next]_vars PROVE LeaseIsExclusive'
  OBVIOUS
<1>0. NoAttempt \notin Attempt
  BY RustAssumption DEF RustAssumption
(* Nobody else's lease is touched, and whoever holds did so before.        *)
<1>a. ASSUME lost' = lost, lease' = lease, \A b \in Attempt : Holding(b)' => Holding(b)
      PROVE  LeaseIsExclusive'
  BY <1>a DEF LeaseIsExclusive
<1>1. ASSUME NEW a \in Attempt, Acquire(a) PROVE LeaseIsExclusive'
  <2>1. lost' = lost /\ (lease' = lease \/ (lease = NoAttempt /\ lease' = a))
    BY <1>1 DEF Acquire, history
  <2>2. \A b \in Attempt \ {a} : att'[b] = att[b]
    BY <1>1 DEF Acquire, TypeOK
  <2>3. Holding(a)' => lease' = a
    <3>1. att[a] \in AttemptRecord /\ att[a].work \in Work
      BY WorkOf
    <3>2. att'[a].stage = "begin"
      BY <1>1, <3>1 DEF Acquire, TypeOK, AttemptRecord
    <3>3. att'[a].work.got = "yes" => lease' = a
      BY <1>1, <3>1 DEF Acquire, TypeOK, AttemptRecord, Work
    <3> QED
      BY <3>2, <3>3 DEF Holding
  <2>4. \A b \in Attempt \ {a} : Holding(b)' => Holding(b)
    BY <2>2 DEF Holding
  <2> QED
    BY <1>0, <2>1, <2>3, <2>4 DEF LeaseIsExclusive
<1>2. ASSUME NEW a \in Attempt, LookUpDone(a) PROVE LeaseIsExclusive'
  <2>1. att[a] \in AttemptRecord /\ att[a].work \in Work
    BY WorkOf
  <2>2. /\ att'[a].stage = att[a].stage /\ att'[a].work.got = att[a].work.got
        /\ \A b \in Attempt \ {a} : att'[b] = att[b]
    BY <1>2, <2>1 DEF LookUpDone, TypeOK, AttemptRecord, Work
  <2> QED
    BY <1>2, <1>a, <2>2 DEF LookUpDone, Holding, history
<1>3. ASSUME NEW a \in Attempt, Begun(a) PROVE LeaseIsExclusive'
  <2>1. att[a] \in AttemptRecord /\ att[a].work \in Work
    BY WorkOf
  <2>2. \A b \in Attempt \ {a} : att'[b] = att[b]
    BY <1>3 DEF Begun, Leave, Enter, TypeOK
  <2>3. Holding(a)' => Holding(a)
    <3>1. CASE att[a].work.got = "yes"
      BY <1>3, <3>1 DEF Begun, Answered, Holding
    <3>2. CASE Leave(a, "failed")
      <4>1. att'[a].stage = "end"
        BY <2>1, <3>2 DEF Leave, TypeOK, AttemptRecord
      <4> QED
        BY <4>1 DEF Holding
    <3>3. CASE att' = [att EXCEPT ![a].work = NoWork] /\ att[a].stage = "begin"
      <4>1. att'[a].stage = "begin" /\ att'[a].work.got = "none"
        BY <2>1, <3>3 DEF TypeOK, AttemptRecord, NoWork
      <4> QED
        BY <4>1 DEF Holding
    <3> QED
      BY <1>3, <3>1, <3>2, <3>3 DEF Begun, Answered
  <2> QED
    BY <1>3, <1>a, <2>2, <2>3 DEF Begun, Holding, history
(* The steps of an attempt at work keep it there or end it.                *)
<1>4. ASSUME NEW a \in Attempt, Holding(a), lost' = lost, lease' = lease,
             \A b \in Attempt \ {a} : att'[b] = att[b]
      PROVE  LeaseIsExclusive'
  BY <1>4 DEF LeaseIsExclusive, Holding
<1>5. ASSUME NEW a \in Attempt,
             \/ MarkIncomplete(a) \/ Replay(a) \/ CountSlice(a) \/ ReadSlice(a)
             \/ StartWriting(a) \/ (\E t \in Table : WriteBatch(a, t)) \/ NextBatch(a)
             \/ EndOfSlice(a) \/ Commit(a) \/ StopWork(a)
      PROVE  LeaseIsExclusive'
  <2>1. Holding(a) /\ lost' = lost /\ lease' = lease
    BY <1>5 DEF MarkIncomplete, Replay, CountSlice, ReadSlice, StartWriting, WriteBatch, Due,
                NextBatch, AfterBatch, EndOfSlice, AtEnd, Commit, StopWork, Holding, history
  <2>2. \A b \in Attempt \ {a} : att'[b] = att[b]
    BY <1>5 DEF MarkIncomplete, Replay, CountSlice, ReadSlice, StartWriting, WriteBatch, Send,
                NextBatch, AfterBatch, EndOfSlice, Commit, StopWork, Leave, Enter, TypeOK
  <2> QED
    BY <1>4, <2>1, <2>2
<1>6. ASSUME NEW a \in Attempt, GiveUp(a) \/ ClearMark(a) \/ Settle(a) \/ ReleaseLease(a)
      PROVE  LeaseIsExclusive'
  <2>1. att[a] \in AttemptRecord
    BY WorkOf
  <2>2. ~Holding(a)' /\ \A b \in Attempt \ {a} : att'[b] = att[b]
    <3>1. \A b \in Attempt \ {a} : att'[b] = att[b]
      BY <1>6 DEF GiveUp, ClearMark, Settle, ReleaseLease, Enter, TypeOK
    <3>2. att'[a].stage \in {"end", "settled"}
      <4>1. CASE GiveUp(a)
        BY <2>1, <4>1 DEF GiveUp, TypeOK, AttemptRecord
      <4>2. CASE ClearMark(a) \/ ReleaseLease(a)
        BY <4>2, EndKeeps
      <4>3. CASE Settle(a)
        BY <2>1, <4>3 DEF Settle, Enter, TypeOK, AttemptRecord
      <4> QED
        BY <1>6, <4>1, <4>2, <4>3
    <3> QED
      BY <3>1, <3>2 DEF Holding
  <2>3. lost' = lost /\ (lease' = lease \/ lease = a)
    BY <1>6 DEF GiveUp, ClearMark, Settle, ReleaseLease, history
  <2> QED
    BY <2>2, <2>3 DEF LeaseIsExclusive, Holding
<1>7. ASSUME NEW a \in Attempt, NEW n \in Node, NEW t \in Task, Submit(a, n, t)
      PROVE  LeaseIsExclusive'
  <2>1. \A b \in Attempt \ {a} : att'[b] = att[b]
    BY <1>7, SubmitMakes
  <2>2. ~Holding(a)'
    <3>1. att'[a].stage \in {"begin", "settled"} /\ att'[a].work = NoWork
      BY <1>7, SubmitMakes
    <3> QED
      BY <3>1 DEF Holding, NoWork
  <2> QED
    BY <1>7, <1>a, <2>1, <2>2 DEF Submit, Holding, history
<1>8. ASSUME NEW w \in inserts, InsertEnds(w) \/ LateInsert(w) PROVE LeaseIsExclusive'
  <2>1. lost' = lost /\ lease' = lease
    BY <1>8 DEF InsertEnds, LateInsert, history
  <2>2. CASE UNCHANGED att
    BY <1>a, <2>1, <2>2 DEF Holding
  <2>3. CASE Awaited(w) /\ \E t, x : att' = [att EXCEPT ![w.attempt].work.write[t] = x]
    <3>1. w.attempt \in Attempt /\ (Awaited(w) => Holding(w.attempt))
      BY DEF TypeOK, Insert, Awaited, Holding
    <3> QED
      BY <1>4, <2>1, <2>3, <3>1 DEF TypeOK
  <2> QED
    BY <1>8, <2>2, <2>3 DEF InsertEnds, LateInsert
<1>9. CASE Expire
  <2>1. \A b \in Attempt : Holding(b)' <=> Holding(b)
    BY <1>9 DEF Expire, Holding
  <2>2. ASSUME NEW b \in Attempt, Holding(b) PROVE b \in lost'
    <3>1. lost \subseteq lost'
      BY <1>9 DEF Expire
    <3>2. b = lease => Executing(lease) /\ b \in lost'
      BY <1>9, <2>2 DEF Expire, Executing, Holding
    <3> QED
      BY <2>2, <3>1, <3>2 DEF LeaseIsExclusive
  <2> QED
    BY <2>1, <2>2 DEF LeaseIsExclusive
<1>10. ASSUME NEW n \in Node, Crash(n) \/ BeginShutdown(n) \/ DrainTimeout(n) \/ Exit(n)
       PROVE  LeaseIsExclusive'
  <2>1. lost' = lost /\ lease' = lease
    BY <1>10 DEF Crash, BeginShutdown, DrainTimeout, Exit, Restart, history
  <2>2. \A a \in Attempt : att'[a] = att[a] \/ att'[a] = Nobody("gone")
    BY <1>10 DEF Crash, BeginShutdown, DrainTimeout, Exit, Restart
  <2> QED
    BY <1>a, <2>1, <2>2 DEF Holding, Nobody
<1>11. CASE LateEvent \/ UNCHANGED vars
  BY <1>a, <1>11 DEF LateEvent, vars, history, Holding
<1> QED
  BY <1>1, <1>2, <1>3, <1>5, <1>6, <1>7, <1>8, <1>9, <1>10, <1>11 DEF Next, AttemptStep

-----------------------------------------------------------------------------
(* As long as no lease has expired: an insert under way that nobody has    *)
(* abandoned is awaited by its attempt and adds what is not stored; and    *)
(* only a batch with an abandoned insert is stored twice.                  *)
Left(w) == <<w.table, w.batch>> \in abandoned
Followed == \A w \in inserts : ~Left(w) => Awaited(w) /\ rows[w.table][w.batch] = 0
StoredOnce == \A t \in Table, b \in Batch : rows[t][b] > 1 => <<t, b>> \in abandoned
NoSecondInsert == lost # {} \/ (Followed /\ StoredOnce)

LEMMA InsertOf ==
  ASSUME TypeOK, NEW w \in inserts
  PROVE  w \in Insert /\ w.attempt \in Attempt /\ w.table \in Table /\ w.batch \in Batch
  BY DEF TypeOK, Insert

(* While no lease has expired, only one attempt awaits inserts.            *)
LEMMA OneWaits ==
  ASSUME TypeOK, LeaseIsExclusive, lost = {}, NEW v \in inserts, NEW w \in inserts,
         Awaited(v), Awaited(w), v.table = w.table
  PROVE  v = w
<1>1. Holding(v.attempt) /\ Holding(w.attempt)
  BY DEF Awaited, Holding
<1>2. v.attempt = w.attempt
  BY <1>1, InsertOf DEF LeaseIsExclusive
<1>3. v.batch = w.batch
  BY <1>2 DEF Awaited
<1> QED
  BY <1>2, <1>3, InsertOf DEF Insert

(* A step that stores and sends nothing: awaited inserts stay awaited, or  *)
(* are abandoned.                                                          *)
LEMMA WaitsOn ==
  ASSUME NoSecondInsert, lost \subseteq lost', UNCHANGED <<rows, inserts>>,
         abandoned \subseteq abandoned',
         \A w \in inserts : Awaited(w) => Awaited(w)' \/ Left(w)'
  PROVE  NoSecondInsert'
  BY DEF NoSecondInsert, Followed, StoredOnce, Left

(* The attempt awaits no insert, and nobody else moves.                    *)
LEMMA NotWaiting ==
  ASSUME TypeOK, NoSecondInsert, NEW a \in Attempt,
         att[a].stage # "write" \/ \A t \in Table : att[a].work.write[t] # "sent",
         \A b \in Attempt \ {a} : att'[b] = att[b],
         UNCHANGED <<rows, inserts, lost, abandoned>>
  PROVE  NoSecondInsert'
<1>1. \A w \in inserts : Awaited(w) => w.attempt # a
  BY InsertOf DEF Awaited
<1>2. \A w \in inserts : Awaited(w) => Awaited(w)'
  BY <1>1, InsertOf DEF Awaited
<1> QED
  BY <1>2, WaitsOn

LEMMA OnceQuiet ==
  ASSUME TypeOK, NoSecondInsert, NEW a \in Attempt,
         \/ Acquire(a) \/ LookUpDone(a) \/ Begun(a) \/ GiveUp(a) \/ MarkIncomplete(a) \/ Replay(a)
         \/ CountSlice(a) \/ ReadSlice(a) \/ StartWriting(a) \/ NextBatch(a) \/ EndOfSlice(a)
         \/ Commit(a) \/ ClearMark(a) \/ ReleaseLease(a) \/ Settle(a)
         \/ \E n \in Node, t \in Task : Submit(a, n, t)
  PROVE  NoSecondInsert'
<1>1. att[a].stage # "write" \/ \A t \in Table : att[a].work.write[t] # "sent"
  <2>1. CASE NextBatch(a)
    BY <2>1 DEF NextBatch, Ended
  <2>2. CASE EndOfSlice(a)
    BY <2>2 DEF EndOfSlice, AtEnd, Blank
  <2> QED
    BY <2>1, <2>2 DEF Acquire, LookUpDone, Begun, Answered, GiveUp, MarkIncomplete, Replay,
       CountSlice, ReadSlice, StartWriting, Commit, ClearMark, ReleaseLease, Settle, Submit
<1>2. \A b \in Attempt \ {a} : att'[b] = att[b]
  <2>1. CASE \E n \in Node, t \in Task : Submit(a, n, t)
    BY <2>1, SubmitMakes
  <2> QED
    BY <2>1 DEF Acquire, LookUpDone, Begun, GiveUp, MarkIncomplete, Replay, CountSlice, ReadSlice,
       StartWriting, NextBatch, AfterBatch, EndOfSlice, Commit, ClearMark, ReleaseLease, Settle,
       Leave, Enter, TypeOK
<1>3. UNCHANGED <<rows, inserts, lost, abandoned>>
  BY DEF Acquire, LookUpDone, Begun, GiveUp, MarkIncomplete, Replay, CountSlice, ReadSlice,
     StartWriting, NextBatch, AfterBatch, EndOfSlice, Commit, ClearMark, ReleaseLease, Settle,
     Submit, clickhouse, history
<1> QED
  BY <1>1, <1>2, <1>3, NotWaiting

LEMMA OnceWrites ==
  ASSUME TypeOK, NoSecondInsert, NEW a \in Attempt, NEW t \in Table, WriteBatch(a, t)
  PROVE  NoSecondInsert'
<1> DEFINE at == att[a].work.at
           new == [attempt |-> a, table |-> t, batch |-> at]
<1>1. /\ att[a].stage = "write" /\ att[a].work.write[t] = "idle" /\ at <= att[a].work.upto
      /\ UNCHANGED <<rows, lost, abandoned>>
  BY DEF WriteBatch, Due, history
<1>2. \E x \in {"idle", "sent", "stored", "failed"} : Wrote(a, t, x)
  BY DEF WriteBatch, Send, Wrote
<1>3. /\ \A b \in Attempt \ {a} : att'[b] = att[b]
      /\ att'[a].stage = "write" /\ att'[a].work.at = at
      /\ \A u \in Table \ {t} : att'[a].work.write[u] = att[a].work.write[u]
  BY <1>1, <1>2, WriteKeeps
<1>4. ASSUME NEW w \in inserts, Awaited(w) PROVE Awaited(w)'
  <2>1. w.attempt # a \/ w.table # t
    BY <1>1, <1>4 DEF Awaited
  <2> QED
    BY <1>1, <1>3, <1>4, <2>1, InsertOf DEF Awaited
<1>5. CASE UNCHANGED inserts
  BY <1>1, <1>4, <1>5, WaitsOn
<1>6. CASE rows[t][at] = 0 /\ Send(a, t)
  <2>1. PICK n \in {new} : inserts' = inserts \cup {n}
    BY <1>6 DEF Send
  <2>2. att'[a].work.write[t] = "sent"
    BY <1>6, WorkOf DEF Send, TypeOK, AttemptRecord, Work
  <2>3. n.attempt = a /\ n.table = t /\ n.batch = at /\ Awaited(n)'
    <3>1. n.attempt = a /\ n.table = t /\ n.batch = at
      OBVIOUS
    <3> QED
      BY <1>3, <2>2, <3>1 DEF Awaited
  <2>4. rows' = rows /\ abandoned' = abandoned /\ lost' = lost
    BY <1>1
  <2>5. StoredOnce => StoredOnce'
    BY <2>4 DEF StoredOnce
  <2>6. ASSUME Followed PROVE Followed'
    <3>1. ASSUME NEW w \in inserts', ~Left(w)'
          PROVE  Awaited(w)' /\ rows'[w.table][w.batch] = 0
      <4>1. CASE w = n
        BY <1>6, <2>3, <2>4, <4>1
      <4>2. CASE w \in inserts
        BY <1>4, <2>4, <2>6, <3>1, <4>2 DEF Followed, Left
      <4> QED
        BY <2>1, <4>1, <4>2
    <3> QED
      BY <3>1 DEF Followed
  <2> QED
    BY <2>4, <2>5, <2>6 DEF NoSecondInsert
<1> QED
  BY <1>5, <1>6 DEF WriteBatch

LEMMA OnceInserts ==
  ASSUME TypeOK, LeaseIsExclusive, NoSecondInsert, NEW w \in inserts, InsertEnds(w) \/ LateInsert(w)
  PROVE  NoSecondInsert'
<1> DEFINE t == w.table
           b == w.batch
<1>1. lost' = lost /\ abandoned \subseteq abandoned' /\ inserts' \subseteq inserts
  BY DEF InsertEnds, LateInsert, history
<1> SUFFICES ASSUME lost = {} PROVE Followed' /\ StoredOnce'
  BY <1>1 DEF NoSecondInsert
<1>2. Followed /\ StoredOnce /\ t \in Table /\ b \in Batch
  BY InsertOf DEF NoSecondInsert
<1>3. \/ rows' = rows
      \/ /\ inserts' = inserts \ {w}
         /\ rows'[t][b] = rows[t][b] + 1
         /\ \A u \in Table, c \in Batch : u # t \/ c # b => rows'[u][c] = rows[u][c]
  <2>1. CASE Stored(w)
    <3>1. inserts' = inserts \ {w} \/ rows' = rows
      BY <2>1 DEF InsertEnds, LateInsert
    <3> QED
      BY <1>2, <2>1, <3>1 DEF Stored, TypeOK
  <2> QED
    BY <2>1 DEF InsertEnds, LateInsert
<1>4. rows[t][b] \in Nat /\ (Left(w) \/ (Awaited(w) /\ rows[t][b] = 0))
  BY <1>2 DEF Followed, TypeOK
<1>5. StoredOnce'
  <2> SUFFICES ASSUME NEW u \in Table, NEW c \in Batch, rows'[u][c] > 1 PROVE <<u, c>> \in abandoned
    BY <1>1 DEF StoredOnce
  <2>1. CASE u = t /\ c = b /\ rows' # rows
    BY <1>3, <1>4, <2>1 DEF Left
  <2> QED
    BY <1>2, <1>3, <2>1 DEF StoredOnce
(* The other inserts of the table are abandoned, or nobody's.              *)
<1>6. ASSUME NEW v \in inserts', ~Left(v)' PROVE Awaited(v)' /\ rows'[v.table][v.batch] = 0
  <2>1. v \in inserts /\ ~Left(v) /\ Awaited(v) /\ rows[v.table][v.batch] = 0
    BY <1>1, <1>2, <1>6 DEF Followed, Left
  <2>2. CASE v = w
    <3>1. InsertEnds(w) /\ inserts' = inserts
      BY <1>6, <2>1, <2>2 DEF InsertEnds, LateInsert
    <3>2. Left(w)'
      BY <2>2, <3>1 DEF InsertEnds, Left
    <3> QED
      BY <1>6, <2>2, <3>2
  <2>3. CASE v # w
    <3>1. ~Awaited(w) \/ v.table # t
      BY <2>1, <2>3, OneWaits
    <3>2. rows'[v.table][v.batch] = 0
      <4>1. v.table # t \/ v.batch # b \/ rows' = rows
        BY <1>4, <2>1, <3>1 DEF Left
      <4> QED
        BY <1>3, <2>1, <4>1, InsertOf
    <3>3. Awaited(v)'
      <4>1. CASE UNCHANGED att
        BY <2>1, <4>1 DEF Awaited
      <4>2. CASE \E x \in {"idle", "sent", "stored", "failed"} : Wrote(w.attempt, t, x) /\ Awaited(w)
        <5>1. att[w.attempt].stage = "write" /\ w.attempt \in Attempt
          BY <4>2, InsertOf DEF Awaited
        <5>2. /\ \A a \in Attempt \ {w.attempt} : att'[a] = att[a]
              /\ att'[w.attempt].stage = "write"
              /\ att'[w.attempt].work.at = att[w.attempt].work.at
              /\ \A u \in Table \ {t} : att'[w.attempt].work.write[u] = att[w.attempt].work.write[u]
          BY <1>2, <4>2, <5>1, WriteKeeps
        <5> QED
          BY <2>1, <3>1, <4>2, <5>2, InsertOf DEF Awaited
      <4> QED
        BY <4>1, <4>2 DEF InsertEnds, LateInsert, Wrote
    <3> QED
      BY <3>2, <3>3
  <2> QED
    BY <2>2, <2>3
<1> QED
  BY <1>5, <1>6 DEF Followed

(* Whoever stops waiting has its inserts abandoned.                        *)
LEMMA OnceAbandons ==
  ASSUME TypeOK, NoSecondInsert, NEW A, Abandon(A), UNCHANGED <<rows, inserts, lost>>,
         \A b \in Attempt \ A : att'[b] = att[b]
  PROVE  NoSecondInsert'
<1>1. \A w \in inserts : Awaited(w) => Awaited(w)' \/ Left(w)'
  <2> SUFFICES ASSUME NEW w \in inserts, Awaited(w) PROVE Awaited(w)' \/ Left(w)'
    OBVIOUS
  <2>1. CASE w.attempt \in A
    BY <2>1 DEF Abandon, Left
  <2>2. CASE w.attempt \notin A
    BY <2>2, InsertOf DEF Awaited
  <2> QED
    BY <2>1, <2>2
<1> QED
  BY <1>1, WaitsOn DEF Abandon

LEMMA OnceStep == TypeOK /\ LeaseIsExclusive /\ NoSecondInsert /\ [Next]_vars => NoSecondInsert'
<1> SUFFICES ASSUME TypeOK, LeaseIsExclusive, NoSecondInsert, [Next]_vars PROVE NoSecondInsert'
  OBVIOUS
<1>1. ASSUME NEW a \in Attempt, StopWork(a) PROVE NoSecondInsert'
  <2>1. Abandon({a}) /\ UNCHANGED <<rows, inserts, lost>> /\ \A b \in Attempt \ {a} : att'[b] = att[b]
    BY <1>1 DEF StopWork, Leave, TypeOK, clickhouse
  <2> QED
    BY <2>1, OnceAbandons
<1>2. ASSUME NEW n \in Node, Restart(n) PROVE NoSecondInsert'
  <2> DEFINE A == {a \in Attempt : att[a].home = n}
  <2>1. Abandon(A) /\ UNCHANGED <<rows, inserts, lost>>
    BY <1>2 DEF Restart, clickhouse
  <2>2. \A b \in Attempt \ A : att'[b] = att[b]
    BY <1>2 DEF Restart
  <2> HIDE DEF A
  <2> QED
    BY <2>1, <2>2, OnceAbandons
<1>3. CASE Expire \/ LateEvent \/ UNCHANGED vars
           \/ \E n \in Node : BeginShutdown(n) \/ DrainTimeout(n)
  <2>1. UNCHANGED <<att, rows, inserts, abandoned>> /\ lost \subseteq lost'
    BY <1>3 DEF Expire, LateEvent, vars, BeginShutdown, DrainTimeout, clickhouse, history
  <2> QED
    BY <2>1, WaitsOn DEF Awaited
<1> QED
  BY <1>1, <1>2, <1>3, OnceQuiet, OnceWrites, OnceInserts DEF Next, AttemptStep, Crash, Exit

-----------------------------------------------------------------------------
LEMMA Invariant == Spec => []IInv
  BY InvInit, Inductive, PTL DEF Spec

(* Types: every state of the model has the shape it is declared with.      *)
THEOREM TypeCorrect == Spec => []TypeOK
<1>1. IInv => TypeOK
  BY DEF IInv
<1> QED
  BY <1>1, Invariant, PTL

(* An attempt at work owns the lease unless it has expired: no step of     *)
(* another attempt, node or task takes it away (state_store.rs).           *)
THEOREM Exclusive == Spec => []LeaseIsExclusive
<1>1. Init => LeaseIsExclusive
  BY DEF Init, LeaseIsExclusive, Holding, Nobody
<1>2. IInv => TypeOK
  BY DEF IInv
<1> QED
  BY <1>1, <1>2, LeaseStep, Invariant, PTL DEF Spec

(* A batch is stored twice only after an insert of it outlived its attempt *)
(* or a lease expired, for any number of failures and crashes: looking up  *)
(* what is missing and inserting it is otherwise enough (storage.rs).      *)
THEOREM DuplicatesHaveCause == Spec => []DuplicateNeedsAbandonedInsert
<1>1. Init => NoSecondInsert
  <2>1. ASSUME Init, NEW t \in Table, NEW b \in Batch PROVE ~(rows[t][b] > 1)
    BY <2>1 DEF Init
  <2> QED
    BY <2>1 DEF Init, NoSecondInsert, Followed, StoredOnce
<1>2. NoSecondInsert => DuplicateNeedsAbandonedInsert
  BY DEF NoSecondInsert, StoredOnce, DuplicateNeedsAbandonedInsert
<1> QED
  BY <1>1, <1>2, OnceStep, TypeCorrect, Exclusive, PTL DEF Spec

(* A partly stored slice carries its incomplete mark.                      *)
THEOREM MarkKept == Spec => []MarkCoversGap
  BY InvImplies, Invariant, PTL

(* A completed task has all it counted in both tables.                     *)
THEOREM CompletedMeansStored == Spec => []CompletedIsStored
  BY InvImplies, Invariant, PTL
=============================================================================
