------------------------- MODULE UtmStatisticsProofs -------------------------
(***************************************************************************)
(* Runs of the UTM statistics exclude each other until the key expires     *)
(* under one, while none have met the cursor goes forward, no day is       *)
(* missed, and none counted twice without a cause, for any values, days,   *)
(* runs and bounds.                                                        *)
(***************************************************************************)
EXTENDS UtmStatistics, TLAPS, FiniteSetTheorems, WellFoundedInduction

Rec == [at : At, kind : Kind, value : Value, from : 0..(Days + 1), to : 0..Days,
        rows : SUBSET Pair]

LEMMA Numbers ==
  /\ Days \in Nat /\ Days > 1 /\ 1 \in Value /\ Day \subseteq Nat /\ Day \subseteq 0..Days
  /\ Values \in Nat /\ Runs \in Nat
BY UtmAssumption DEF Day, Value

LEMMA Types ==
  ASSUME TypeOK
  PROVE  /\ today \in Day /\ log \subseteq Pair /\ known \subseteq Value /\ deleted \subseteq known
         /\ count \in [Pair -> Nat] /\ cursor \in 0..Days /\ lock \in BOOLEAN
         /\ run \in [Proc -> Rec]
         /\ asked \in 0..MaxAsked /\ edits \in 0..MaxEdits /\ faults \in 0..MaxFaults
         /\ expired \in BOOLEAN /\ overlaps \in 0..MaxOverlaps /\ again \in Nat
         /\ covered \subseteq 0..(Days + 1) /\ passed \subseteq Day /\ lost \subseteq Pair
BY DEF TypeOK, Rec

LEMMA NoRunTyped == NoRun \in Rec /\ Over \in Rec
<1>1. NoRun \in Rec
  BY Numbers DEF NoRun, Rec, At, Kind
<1>. QED BY <1>1 DEF Over, Rec, At

LEMMA RangedTyped ==
  ASSUME NEW r \in Rec, NEW d \in 0..(Days + 1)
  PROVE  Ranged(r, d) \in Rec
<1>1. CASE d > r.to /\ r.kind # "recalc"
  BY <1>1, NoRunTyped DEF Ranged
<1>2. CASE ~(d > r.to /\ r.kind # "recalc")
  <2>1. [r EXCEPT !.from = d, !.at = IF d > r.to THEN "chunks" ELSE "aggregate"] \in Rec
    BY DEF Rec, At
  <2>. QED BY <1>2, <2>1 DEF Ranged
<1>. QED BY <1>1, <1>2

LEMMA FirstDayTyped ==
  ASSUME TypeOK, NEW d \in 0..Days
  PROVE  FirstDay(d) \in 0..(Days + 1)
<1>1. CASE log = {}
  BY <1>1, Numbers DEF FirstDay
<1>2. CASE log # {}
  <2>1. log \subseteq Pair
    BY Types
  <2>2. DaysOf(log) \subseteq Day /\ DaysOf(log) # {}
    BY <1>2, <2>1 DEF DaysOf, Pair
  <2>3. DaysOf(log) \subseteq Nat
    BY <2>2, Numbers
  <2>4. PICK x \in DaysOf(log) : \A y \in DaysOf(log) : ~(y < x)
    <3>1. PICK x \in DaysOf(log) : \A y \in DaysOf(log) : ~(<<y, x>> \in OpToRel(<, Nat))
      BY <2>2, <2>3, NatLessThanWellFounded, WFMin
    <3>. QED BY <3>1, <2>3 DEF OpToRel
  <2>5. \E z \in DaysOf(log) : \A y \in DaysOf(log) : z <= y
    BY <2>3, <2>4
  <2>6. FirstDay(d) \in DaysOf(log)
    BY <1>2, <2>5 DEF FirstDay
  <2>7. 0..Days \subseteq 0..(Days + 1)
    BY Numbers
  <2>. QED BY <2>2, <2>6, <2>7, Numbers
<1>. QED BY <1>1, <1>2

(* A step of a run that goes on.                                           *)
LEMMA GoesTyped ==
  ASSUME TypeOK, NEW p \in Proc, NEW r \in Rec, Goes(p, r)
  PROVE  run' \in [Proc -> Rec]
BY Types DEF Goes

-----------------------------------------------------------------------------
LEMMA ReadTargetTyped ==
  ASSUME TypeOK, NEW p \in Proc, ReadTarget(p)
  PROVE  run' \in [Proc -> Rec]
<1>. DEFINE r == [run[p] EXCEPT !.to = IF run[p].to = 0 THEN Yesterday ELSE run[p].to]
<1>1. run[p] \in Rec /\ run[p].to \in 0..Days
  BY Types DEF Rec
<1>2. Yesterday \in 0..Days
  BY Types, Numbers DEF Yesterday, Day
<1>3. r \in Rec
  BY <1>1, <1>2 DEF Rec
<1>4. r.to \in 0..Days /\ r.from \in 0..(Days + 1)
  BY <1>3 DEF Rec
<1>5. (IF r.from # 0 THEN r.from ELSE FirstDay(r.to)) \in 0..(Days + 1)
  BY <1>4, FirstDayTyped
<1>6. [r EXCEPT !.at = "cursor"] \in Rec
  BY <1>3 DEF Rec, At
<1>7. \/ Goes(p, Ranged(r, IF r.from # 0 THEN r.from ELSE FirstDay(r.to)))
      \/ Goes(p, [r EXCEPT !.at = "cursor"])
  BY DEF ReadTarget
<1>. QED BY <1>3, <1>5, <1>6, <1>7, RangedTyped, GoesTyped

LEMMA ReadCursorTyped ==
  ASSUME TypeOK, NEW p \in Proc, ReadCursor(p)
  PROVE  run' \in [Proc -> Rec]
<1>. DEFINE r == run[p]
<1>1. r \in Rec /\ r.to \in 0..Days /\ cursor \in 0..Days /\ cursor + 1 \in 0..(Days + 1)
  BY Types, Numbers DEF Rec
<1>2. (IF cursor # 0 THEN cursor + 1 ELSE FirstDay(r.to)) \in 0..(Days + 1)
  BY <1>1, FirstDayTyped
<1>3. [r EXCEPT !.from = cursor + 1, !.at = "target"] \in Rec
  BY <1>1 DEF Rec, At
<1>4. \/ Goes(p, Over)
      \/ Goes(p, [r EXCEPT !.from = cursor + 1, !.at = "target"])
      \/ Goes(p, Ranged(r, IF cursor # 0 THEN cursor + 1 ELSE FirstDay(r.to)))
  BY DEF ReadCursor
<1>. QED BY <1>1, <1>2, <1>3, <1>4, NoRunTyped, RangedTyped, GoesTyped

LEMMA AggregateTyped ==
  ASSUME TypeOK, NEW p \in Proc, Aggregate(p)
  PROVE  run' \in [Proc -> Rec]
<1>. DEFINE r == run[p]
            rows == {e \in log : r.from <= e[2] /\ e[2] <= r.to}
<1>1. r \in Rec /\ rows \subseteq Pair
  BY Types
<1>2. [r EXCEPT !.at = "chunks", !.rows = {e \in rows : e[1] = r.value}] \in Rec
  BY <1>1 DEF Rec, At
<1>3. [r EXCEPT !.at = IF rows = {} THEN "getCursor" ELSE "deleted", !.rows = rows] \in Rec
  BY <1>1 DEF Rec, At
<1>4. \/ Goes(p, [r EXCEPT !.at = "chunks", !.rows = {e \in rows : e[1] = r.value}])
      \/ Goes(p, [r EXCEPT !.at = IF rows = {} THEN "getCursor" ELSE "deleted", !.rows = rows])
  BY DEF Aggregate
<1>. QED BY <1>2, <1>3, <1>4, GoesTyped

LEMMA ReadDeletedTyped ==
  ASSUME TypeOK, NEW p \in Proc, ReadDeleted(p)
  PROVE  run' \in [Proc -> Rec]
<1>. DEFINE r == run[p]
            skipped == {e \in r.rows : e[1] \in deleted}
            s == [r EXCEPT !.at = IF r.rows = skipped THEN "getCursor" ELSE "chunks",
                           !.rows = r.rows \ skipped]
<1>1. r \in Rec
  BY Types
<1>2. s \in Rec
  BY <1>1 DEF Rec, At
<1>3. Goes(p, s)
  BY DEF ReadDeleted
<1>. QED BY <1>2, <1>3, GoesTyped

LEMMA WriteChunkTyped ==
  ASSUME TypeOK, NEW p \in Proc, WriteChunk(p)
  PROVE  /\ run' \in [Proc -> Rec] /\ known' \subseteq Value /\ known \subseteq known'
         /\ count' \in [Pair -> Nat]
<1>. DEFINE r == run[p]
            chunk == Chunk(r.rows)
            s == [r EXCEPT !.at = IF r.rows = chunk THEN "getCursor" ELSE "chunks",
                           !.rows = r.rows \ chunk]
<1>1. r \in Rec
  BY Types
<1>2. chunk \subseteq Pair
  BY <1>1 DEF Chunk, Rec
<1>3. s \in Rec
  BY <1>1 DEF Rec, At
<1>4. Goes(p, s)
  BY DEF WriteChunk
<1>5. known' \subseteq Value /\ known \subseteq known'
  BY <1>2, Types DEF WriteChunk, Pair
<1>6. count' \in [Pair -> Nat]
  BY Types DEF WriteChunk
<1>. QED BY <1>3, <1>4, <1>5, <1>6, GoesTyped

LEMMA WriteRecalcTyped ==
  ASSUME TypeOK, NEW p \in Proc, WriteRecalc(p)
  PROVE  /\ run' \in [Proc -> Rec] /\ count' \in [Pair -> Nat]
         /\ lost' \subseteq Pair /\ again' \in Nat
<1>1. Goes(p, Over)
  BY DEF WriteRecalc
<1>2. count' \in [Pair -> Nat] /\ lost' \subseteq Pair /\ again' \in Nat
  BY Types DEF WriteRecalc
<1>. QED BY <1>1, <1>2, NoRunTyped, GoesTyped

LEMMA GetCursorTyped ==
  ASSUME TypeOK, NEW p \in Proc, GetCursor(p)
  PROVE  run' \in [Proc -> Rec] /\ covered' \subseteq 0..(Days + 1)
<1>. DEFINE r == run[p]
            s == [r EXCEPT !.at = IF cursor = 0 THEN "insertCursor" ELSE "setCursor"]
<1>1. r \in Rec /\ r.from \in 0..(Days + 1) /\ r.to \in 0..Days
  BY Types DEF Rec
<1>2. s \in Rec
  BY <1>1 DEF Rec, At
<1>3. Goes(p, s) \/ Goes(p, Over)
  BY DEF GetCursor
<1>4. run' \in [Proc -> Rec]
  BY <1>2, <1>3, NoRunTyped, GoesTyped
<1>5. r.from..r.to \subseteq 0..(Days + 1)
  BY <1>1, Numbers
<1>. QED BY <1>4, <1>5, Types DEF GetCursor

LEMMA SetCursorTyped ==
  ASSUME TypeOK, NEW p \in Proc, SetCursor(p)
  PROVE  run' \in [Proc -> Rec] /\ covered' \subseteq 0..(Days + 1) /\ cursor' \in 0..Days
<1>. DEFINE r == run[p]
<1>1. r \in Rec /\ r.from \in 0..(Days + 1) /\ r.to \in 0..Days
  BY Types DEF Rec
<1>2. run' \in [Proc -> Rec]
  BY NoRunTyped, GoesTyped DEF SetCursor
<1>3. r.from..r.to \subseteq 0..(Days + 1)
  BY <1>1, Numbers
<1>. QED BY <1>1, <1>2, <1>3, Types DEF SetCursor

LEMMA BeginTyped ==
  ASSUME TypeOK, NEW p \in Proc, NEW r \in Rec, Begin(p, r)
  PROVE  run' \in [Proc -> Rec] /\ overlaps' \in 0..MaxOverlaps
<1>1. run' \in [Proc -> Rec]
  BY Types DEF Begin
<1>2. overlaps' \in 0..MaxOverlaps
  BY Types, UtmAssumption DEF Begin
<1>. QED BY <1>1, <1>2

LEMMA StartTyped ==
  ASSUME TypeOK, NEW p \in Proc, Start(p)
  PROVE  TypeOK'
<1>1. run' \in [Proc -> Rec] /\ overlaps' \in 0..MaxOverlaps /\ lock' \in BOOLEAN
  <2>1. CASE StartDaily(p)
    <3>1. [NoRun EXCEPT !.at = "target", !.kind = "daily"] \in Rec
      BY NoRunTyped DEF Rec, At, Kind
    <3>. QED BY <2>1, <3>1, BeginTyped DEF StartDaily, TakeLock
  <2>2. ASSUME NEW kind \in Kind, NEW at \in At, NEW v \in Value, NEW f \in 0..Days,
               NEW t \in 0..Days, Ask(p, kind, at, v, f, t)
        PROVE  run' \in [Proc -> Rec] /\ overlaps' \in 0..MaxOverlaps /\ lock' \in BOOLEAN
    <3>1. f \in 0..(Days + 1)
      BY Numbers
    <3>2. [at |-> at, kind |-> kind, value |-> v, from |-> f, to |-> t, rows |-> {}] \in Rec
      BY <3>1 DEF Rec
    <3>. QED BY <2>2, <3>2, BeginTyped DEF Ask, TakeLock
  <2>3. 0 \in 0..Days /\ {"full", "from", "increment", "recalc"} \subseteq Kind /\ {"target", "cursor"} \subseteq At
    BY Numbers DEF Kind, Full, At
  <2>4. CASE StartFull(p)
    BY <2>2, <2>3, <2>4, Numbers DEF StartFull
  <2>5. CASE StartIncrement(p)
    BY <2>2, <2>3, <2>5, Numbers DEF StartIncrement
  <2>6. CASE StartRecalc(p)
    BY <2>2, <2>3, <2>6, Types DEF StartRecalc
  <2>. QED BY <2>1, <2>4, <2>5, <2>6 DEF Start
<1>2. /\ UNCHANGED <<today, log, table, edits, faults, expired, again, covered, passed, lost>>
      /\ asked' = asked \/ (asked < MaxAsked /\ asked' = asked + 1)
  BY DEF Start, StartDaily, StartFull, StartIncrement, StartRecalc, Ask
<1>3. asked' \in 0..MaxAsked
  BY <1>2, Types, UtmAssumption
<1>. QED BY <1>1, <1>2, <1>3 DEF TypeOK, Rec, table

LEMMA ReadTyped ==
  ASSUME TypeOK, NEW p \in Proc, Read(p)
  PROVE  TypeOK'
<1>1. run' \in [Proc -> Rec] /\ covered' \subseteq 0..(Days + 1)
  <2>1. CASE ReadTarget(p)
    BY <2>1, ReadTargetTyped, Types DEF ReadTarget, history
  <2>2. CASE ReadCursor(p)
    BY <2>2, ReadCursorTyped, Types DEF ReadCursor, history
  <2>3. CASE Aggregate(p)
    BY <2>3, AggregateTyped, Types DEF Aggregate
  <2>4. CASE ReadDeleted(p)
    BY <2>4, ReadDeletedTyped, Types DEF ReadDeleted
  <2>5. CASE GetCursor(p)
    BY <2>5, GetCursorTyped
  <2>. QED BY <2>1, <2>2, <2>3, <2>4, <2>5 DEF Read
<1>2. again' \in Nat
  BY Types DEF Read, ReadTarget, ReadCursor, Aggregate, ReadDeleted, GetCursor, history, blame
<1>3. lost' \subseteq Pair
  <2>1. CASE ReadDeleted(p)
    <3>1. run[p] \in Rec
      BY Types
    <3>. QED BY <2>1, <3>1, Types DEF ReadDeleted, Rec
  <2>2. CASE ~ReadDeleted(p)
    BY <2>2, Types DEF Read, ReadTarget, ReadCursor, Aggregate, GetCursor, history
  <2>. QED BY <2>1, <2>2
<1>4. UNCHANGED <<today, log, table, lock, asked, edits, faults, expired, overlaps, passed>>
  BY DEF Read, ReadTarget, ReadCursor, Aggregate, ReadDeleted, GetCursor, history, blame
<1>. QED BY <1>1, <1>2, <1>3, <1>4 DEF TypeOK, Rec, table

LEMMA WriteTyped ==
  ASSUME TypeOK, NEW p \in Proc, Write(p)
  PROVE  TypeOK'
<1>1. CASE WriteChunk(p)
  <2>1. deleted' \subseteq known'
    BY <1>1, WriteChunkTyped, Types DEF WriteChunk
  <2>. QED BY <1>1, <2>1, WriteChunkTyped DEF WriteChunk, TypeOK, Rec, history, blame
<1>2. CASE WriteRecalc(p)
  BY <1>2, WriteRecalcTyped DEF WriteRecalc, TypeOK, Rec
<1>3. CASE SetCursor(p)
  BY <1>3, SetCursorTyped DEF SetCursor, TypeOK, Rec, blame
<1>4. CASE Release(p)
  <2>1. run' \in [Proc -> Rec] /\ lock' \in BOOLEAN
    BY <1>4, NoRunTyped, GoesTyped DEF Release
  <2>. QED BY <1>4, <2>1 DEF Release, TypeOK, Rec, table, history, blame
<1>. QED BY <1>1, <1>2, <1>3, <1>4 DEF Write

LEMMA StopTyped ==
  ASSUME TypeOK, NEW p \in Proc, Fails(p) \/ Dies(p)
  PROVE  TypeOK'
<1>1. run' \in [Proc -> Rec]
  BY NoRunTyped, GoesTyped DEF Fails, Dies
<1>2. faults' \in 0..MaxFaults
  BY Types, UtmAssumption DEF Fails, Dies, Fault
<1>3. UNCHANGED <<today, log, table, lock, asked, edits, expired, overlaps, again, covered, passed, lost>>
  BY DEF Fails, Dies
<1>. QED BY <1>1, <1>2, <1>3 DEF TypeOK, Rec, table

LEMMA WorldTyped ==
  ASSUME TypeOK,
         \/ Midnight \/ LockExpires
         \/ \E v \in Value : Remove(v) \/ Restore(v) \/ \E d \in Day : Arrives(v, d)
  PROVE  TypeOK'
<1>1. CASE Midnight
  <2>1. today' \in Day
    BY <1>1, Types, Numbers DEF Midnight, Day
  <2>. QED BY <1>1, <2>1 DEF Midnight, TypeOK, table, history, blame
<1>2. CASE LockExpires
  <2>1. faults' \in 0..MaxFaults
    BY <1>2, Types, UtmAssumption DEF LockExpires, Fault
  <2>2. expired' \in BOOLEAN /\ lock' \in BOOLEAN
    BY <1>2, Types, Zenon DEF LockExpires
  <2>. QED BY <1>2, <2>1, <2>2 DEF LockExpires, TypeOK, table
<1>3. ASSUME NEW v \in Value, Remove(v) \/ Restore(v)
      PROVE  TypeOK'
  <2>1. deleted' \subseteq known /\ edits' \in 0..MaxEdits
    BY <1>3, Types, UtmAssumption DEF Remove, Restore, history, blame
  <2>2. UNCHANGED <<today, log, known, count, cursor, lock, run, asked, blame, covered, passed, lost>>
    BY <1>3 DEF Remove, Restore, history, blame
  <2>. QED BY <2>1, <2>2 DEF TypeOK, blame
<1>4. ASSUME NEW v \in Value, NEW d \in Day, Arrives(v, d)
      PROVE  TypeOK'
  <2>1. log' \subseteq Pair /\ lost' \subseteq Pair
    BY <1>4, Types DEF Arrives, Pair
  <2>. QED BY <1>4, <2>1 DEF Arrives, TypeOK, table, blame
<1>. QED BY <1>1, <1>2, <1>3, <1>4

LEMMA InitTyped == Init => TypeOK
<1>. SUFFICES ASSUME Init PROVE TypeOK
  OBVIOUS
<1>1. today \in Day /\ cursor \in 0..Days
  BY Numbers DEF Init, Day
<1>2. run \in [Proc -> Rec]
  BY NoRunTyped DEF Init
<1>3. count \in [Pair -> Nat]
  BY DEF Init
<1>4. asked \in 0..MaxAsked /\ edits \in 0..MaxEdits /\ faults \in 0..MaxFaults
      /\ overlaps \in 0..MaxOverlaps
  BY UtmAssumption DEF Init
<1>. QED BY <1>1, <1>2, <1>3, <1>4 DEF Init, TypeOK, Rec

LEMMA NextTyped == TypeOK /\ [Next]_vars => TypeOK'
<1>. SUFFICES ASSUME TypeOK, [Next]_vars PROVE TypeOK'
  OBVIOUS
<1>1. CASE UNCHANGED vars
  BY <1>1 DEF vars, TypeOK, table, history, blame
<1>2. CASE Next
  BY <1>2, WorldTyped, StartTyped, ReadTyped, WriteTyped, StopTyped DEF Next
<1>. QED BY <1>1, <1>2

(* Every variable keeps its type.                                          *)
THEOREM TypeCorrect == Spec => []TypeOK
BY InitTyped, NextTyped, PTL DEF Spec

-----------------------------------------------------------------------------
(* Until the key expires under a run there is one run, and it has the key; *)
(* while none have met, that run alone moves the cursor, and forward.      *)
One == \A p, q \in Running : p = q
Alone == ~expired => One /\ (Running # {} => lock)
Ahead ==
  overlaps = 0 => /\ One
                  /\ \A p \in Proc : run[p].at \in {"insertCursor", "setCursor"} => cursor < run[p].to

(* What a step of run p leaves alone, and whom it can stop.                *)
LEMMA OneMoves ==
  ASSUME TypeOK, NEW p \in Proc, Read(p) \/ Write(p) \/ Fails(p) \/ Dies(p)
  PROVE  /\ p \in Running /\ Running' \subseteq Running
         /\ \A q \in Proc \ {p} : run'[q] = run[q]
         /\ UNCHANGED <<expired, overlaps>>
<1>1. PICK r \in {run'[p]} : Goes(p, r)
  BY Types DEF Read, Write, Fails, Dies, ReadTarget, ReadCursor, Aggregate, ReadDeleted, GetCursor,
     WriteChunk, WriteRecalc, SetCursor, Release, Goes
<1>2. run[p].at # "idle"
  BY DEF Read, Write, Fails, Dies, ReadTarget, ReadCursor, Aggregate, ReadDeleted, GetCursor,
     WriteChunk, WriteRecalc, SetCursor, Release
<1>3. \A q \in Proc \ {p} : run'[q] = run[q]
  BY <1>1, Types DEF Goes
<1>4. UNCHANGED <<expired, overlaps>>
  BY DEF Read, Write, Fails, Dies, ReadTarget, ReadCursor, Aggregate, ReadDeleted, GetCursor,
     WriteChunk, WriteRecalc, SetCursor, Release, history, blame
<1>. QED BY <1>2, <1>3, <1>4 DEF Running

LEMMA StartMoves ==
  ASSUME TypeOK, NEW p \in Proc, Start(p)
  PROVE  /\ ~lock /\ lock' /\ Running' \subseteq Running \cup {p}
         /\ run'[p].at \in {"target", "cursor"} /\ \A q \in Proc \ {p} : run'[q] = run[q]
         /\ overlaps' = IF Running = {} THEN overlaps ELSE overlaps + 1
         /\ UNCHANGED <<expired, cursor>>
<1>1. \E r \in {run'[p]} : Begin(p, r) /\ r.at \in {"target", "cursor"}
  <2>1. ASSUME NEW r \in Rec, Begin(p, r), r.at \in {"target", "cursor"}
        PROVE  \E s \in {run'[p]} : Begin(p, s) /\ s.at \in {"target", "cursor"}
    BY <2>1, Types DEF Begin
  <2>2. CASE StartDaily(p)
    <3>. DEFINE d == [NoRun EXCEPT !.at = "target", !.kind = "daily"]
    <3>1. d \in Rec /\ d.at = "target"
      BY NoRunTyped DEF Rec, At, Kind
    <3>. QED BY <2>1, <2>2, <3>1 DEF StartDaily, TakeLock
  <2>3. CASE ~StartDaily(p)
    <3>1. PICK r : Begin(p, r) /\ r.at \in {"target", "cursor"}
      <4>1. ASSUME NEW kind, NEW at \in {"target", "cursor"}, NEW v, NEW f, NEW t,
                   Ask(p, kind, at, v, f, t)
            PROVE  \E r : Begin(p, r) /\ r.at \in {"target", "cursor"}
        BY <4>1 DEF Ask, TakeLock
      <4>. QED BY <2>3, <4>1 DEF Start, StartFull, StartIncrement, StartRecalc
    <3>2. run'[p] = r
      BY <3>1, Types DEF Begin
    <3>. QED BY <3>1, <3>2
  <2>. QED BY <2>2, <2>3
<1>2. ~lock /\ lock' /\ UNCHANGED <<expired, cursor>>
  BY DEF Start, StartDaily, StartFull, StartIncrement, StartRecalc, Ask, TakeLock, table
<1>3. \A q \in Proc \ {p} : run'[q] = run[q]
  BY <1>1, Types DEF Begin
<1>. QED BY <1>1, <1>2, <1>3 DEF Running, Begin

LEMMA AloneKept == TypeOK /\ Alone /\ [Next]_vars => Alone'
<1>. SUFFICES ASSUME TypeOK, Alone, [Next]_vars PROVE Alone'
  OBVIOUS
<1>1. CASE UNCHANGED <<run, lock, expired>>
  BY <1>1 DEF Alone, One, Running
<1>2. CASE LockExpires
  BY <1>2 DEF LockExpires, Alone, One, Running
<1>3. ASSUME NEW p \in Proc, Start(p) PROVE Alone'
  BY <1>3, StartMoves DEF Alone, One
<1>4. ASSUME NEW p \in Proc, Read(p) \/ Write(p) \/ Fails(p) \/ Dies(p) PROVE Alone'
  <2>1. One => One' /\ Running = {p}
    BY <1>4, OneMoves DEF One
  <2>2. CASE Release(p)
    <3>1. p \notin Running'
      BY <2>2, Types DEF Release, Goes, NoRun, Running
    <3>. QED BY <1>4, <2>1, <3>1, OneMoves DEF Alone, One
  <2>3. CASE ~Release(p)
    <3>1. lock' = lock
      BY <1>4, <2>3 DEF Read, Write, Fails, Dies, ReadTarget, ReadCursor, Aggregate, ReadDeleted,
         GetCursor, WriteChunk, WriteRecalc, SetCursor
    <3>. QED BY <1>4, <2>1, <3>1, OneMoves DEF Alone
  <2>. QED BY <2>2, <2>3
<1>5. CASE Midnight \/ \E v \in Value : Remove(v) \/ Restore(v) \/ \E d \in Day : Arrives(v, d)
  BY <1>1, <1>5 DEF Midnight, Remove, Restore, Arrives, history, blame
<1>. QED BY <1>1, <1>2, <1>3, <1>4, <1>5 DEF Next, vars, history, blame

Behind == {"idle", "target", "cursor", "aggregate", "deleted", "chunks", "getCursor", "release"}

LEMMA StaysBehind ==
  ASSUME TypeOK, NEW p \in Proc, Read(p) \/ Write(p) \/ Fails(p) \/ Dies(p), ~GetCursor(p)
  PROVE  run'[p].at \in Behind
<1>1. run[p] \in Rec
  BY Types
<1>2. Over.at \in Behind /\ NoRun.at \in Behind
  BY DEF Over, NoRun, Behind
<1>3. ASSUME NEW r \in Rec, NEW d PROVE Ranged(r, d).at \in Behind
  BY <1>2 DEF Ranged, Rec, Behind
<1>4. CASE ReadTarget(p)
  <2>. DEFINE r == [run[p] EXCEPT !.to = IF run[p].to = 0 THEN Yesterday ELSE run[p].to]
  <2>1. r \in Rec
    BY <1>1, Types, Numbers DEF Rec, Yesterday, Day
  <2>2. \/ run'[p] = [r EXCEPT !.at = "cursor"]
        \/ run'[p] = Ranged(r, IF r.from # 0 THEN r.from ELSE FirstDay(r.to))
    BY <1>4, Types DEF ReadTarget, Goes
  <2>3. [r EXCEPT !.at = "cursor"].at = "cursor"
    BY <2>1 DEF Rec
  <2>. QED BY <1>3, <2>1, <2>2, <2>3 DEF Behind
<1>5. CASE ReadCursor(p)
  <2>. DEFINE r == run[p]
  <2>1. \/ run'[p] = Over
        \/ run'[p] = [r EXCEPT !.from = cursor + 1, !.at = "target"]
        \/ run'[p] = Ranged(r, IF cursor # 0 THEN cursor + 1 ELSE FirstDay(r.to))
    BY <1>5, Types DEF ReadCursor, Goes
  <2>2. [r EXCEPT !.from = cursor + 1, !.at = "target"].at = "target"
    BY <1>1 DEF Rec
  <2>. QED BY <1>1, <1>2, <1>3, <2>1, <2>2 DEF Behind
<1>6. CASE Aggregate(p)
  <2>. DEFINE r == run[p]
              rows == {e \in log : r.from <= e[2] /\ e[2] <= r.to}
  <2>1. \/ run'[p] = [r EXCEPT !.at = "chunks", !.rows = {e \in rows : e[1] = r.value}]
        \/ run'[p] = [r EXCEPT !.at = IF rows = {} THEN "getCursor" ELSE "deleted", !.rows = rows]
    BY <1>6, Types DEF Aggregate, Goes
  <2>. QED BY <1>1, <2>1 DEF Rec, Behind
<1>7. CASE ReadDeleted(p)
  BY <1>1, <1>7, Types DEF ReadDeleted, Goes, Rec, Behind
<1>8. CASE WriteChunk(p)
  BY <1>1, <1>8, Types DEF WriteChunk, Goes, Rec, Behind
<1>9. CASE WriteRecalc(p) \/ SetCursor(p) \/ Release(p) \/ Fails(p) \/ Dies(p)
  BY <1>2, <1>9, Types DEF WriteRecalc, SetCursor, Release, Fails, Dies, Goes
<1>. QED BY <1>4, <1>5, <1>6, <1>7, <1>8, <1>9 DEF Read, Write

LEMMA AheadKept == TypeOK /\ Ahead /\ [Next]_vars => Ahead'
<1>. SUFFICES ASSUME TypeOK, Ahead, [Next]_vars PROVE Ahead'
  OBVIOUS
<1>1. CASE UNCHANGED <<run, cursor, overlaps>>
  BY <1>1 DEF Ahead, One, Running
<1>2. ASSUME NEW p \in Proc, Start(p) PROVE Ahead'
  <2>. SUFFICES ASSUME overlaps' = 0 PROVE Ahead'
    BY DEF Ahead
  <2>1. overlaps = 0 /\ Running = {}
    BY <1>2, StartMoves, Types
  <2>. QED BY <1>2, <2>1, StartMoves DEF Ahead, One, Running
<1>3. ASSUME NEW p \in Proc, Read(p) \/ Write(p) \/ Fails(p) \/ Dies(p) PROVE Ahead'
  <2>. SUFFICES ASSUME overlaps = 0, One PROVE Ahead'
    BY <1>3, OneMoves DEF Ahead
  <2>1. One' /\ \A q \in Proc \ {p} : run'[q].at = "idle"
    BY <1>3, OneMoves DEF One, Running
  <2>2. CASE GetCursor(p)
    <3>1. run'[p].at \in {"insertCursor", "setCursor"} => cursor < run'[p].to
      <4>1. run[p] \in Rec /\ run[p].to \in Nat /\ cursor \in Nat
        BY Types, Numbers DEF Rec
      <4>. QED BY <2>2, <4>1, Types DEF GetCursor, Goes, Over, NoRun, Rec
    <3>2. cursor' = cursor
      BY <2>2 DEF GetCursor, table
    <3>. QED BY <2>1, <3>1, <3>2 DEF Ahead
  <2>3. CASE ~GetCursor(p)
    <3>1. run'[p].at \notin {"insertCursor", "setCursor"}
      BY <1>3, <2>3, StaysBehind DEF Behind
    <3>. QED BY <2>1, <3>1 DEF Ahead
  <2>. QED BY <2>2, <2>3
<1>4. CASE LockExpires \/ Midnight
           \/ \E v \in Value : Remove(v) \/ Restore(v) \/ \E d \in Day : Arrives(v, d)
  BY <1>1, <1>4 DEF LockExpires, Midnight, Remove, Restore, Arrives, history, blame, table
<1>. QED BY <1>1, <1>2, <1>3, <1>4 DEF Next, vars, history, blame, table

LEMMA NobodyRuns == Init => Running = {}
BY DEF Init, Running, NoRun

(* Two runs are under way only after the key expired under one.            *)
THEOREM ExclusiveRuns == Spec => []RunsExclude
<1>1. Init => Alone
  BY NobodyRuns DEF Alone, One
<1>2. Alone => RunsExclude
  <2>. SUFFICES ASSUME One PROVE ~(Cardinality(Running) > 1)
    BY DEF Alone, RunsExclude
  <2>1. CASE Running = {}
    BY <2>1, FS_EmptySet
  <2>2. CASE Running # {}
    <3>1. PICK p \in Running : Running = {p}
      BY <2>2 DEF One
    <3>2. Cardinality(Running) = 1
      BY <3>1, FS_Singleton
    <3>. QED BY <3>2
  <2>. QED BY <2>1, <2>2
<1>. QED BY <1>1, <1>2, InitTyped, NextTyped, AloneKept, PTL DEF Spec

(* As long as runs have not met, the cursor goes forward.                  *)
THEOREM CursorGoesForward == Spec => CursorForward
<1>1. Init => Ahead
  BY NobodyRuns DEF Ahead, One, Init, NoRun
<1>2. TypeOK /\ Ahead /\ [Next]_vars => [overlaps = 0 => cursor' >= cursor]_vars
  <2>. SUFFICES ASSUME TypeOK, Ahead, Next, overlaps = 0 PROVE cursor' >= cursor
    BY DEF vars
  <2>0. cursor \in Nat
    BY Types, Numbers
  <2>1. ASSUME NEW p \in Proc, SetCursor(p) PROVE cursor' >= cursor
    <3>1. run[p].to \in Nat
      BY Types, Numbers DEF Rec
    <3>. QED BY <2>0, <2>1, <3>1 DEF Ahead, SetCursor
  <2>2. CASE \A p \in Proc : ~SetCursor(p)
    <3>1. cursor' = cursor
      BY <2>2 DEF Next, Midnight, LockExpires, Remove, Restore, Arrives, Start, StartDaily, StartFull,
         StartIncrement, StartRecalc, Ask, Read, Write, Fails, Dies, ReadTarget, ReadCursor, Aggregate,
         ReadDeleted, GetCursor, WriteChunk, WriteRecalc, Release, table
    <3>. QED BY <2>0, <3>1
  <2>. QED BY <2>1, <2>2
<1>. QED BY <1>1, <1>2, InitTyped, NextTyped, AheadKept, PTL DEF Spec, CursorForward

-----------------------------------------------------------------------------
(* What a run that has read the log still owes it: every event of its days *)
(* is counted, or among the rows it has yet to write, or excused.          *)
Gathered == {"deleted", "chunks", "getCursor", "insertCursor", "setCursor"}
Ends == {"getCursor", "insertCursor", "setCursor"}

Owes(r, due, number) ==
  r.at \in Gathered /\ r.kind # "recalc" =>
    /\ r.from <= r.to
    /\ \A e \in due : r.from <= e[2] /\ e[2] <= r.to => e \in r.rows \/ number[e] > 0

InOrder(r) ==
  /\ r.at = "aggregate" => r.from <= r.to
  /\ r.at \in Ends => r.rows = {}
  /\ r.at \in Ends \cup {"deleted"} => r.kind # "recalc"

(* Every event of a day that a run which ended well took in is counted.    *)
Counted == \A e \in log \ lost : e[2] \in covered => count[e] > 0

Held == Counted /\ \A p \in Proc : Owes(run[p], log \ lost, count) /\ InOrder(run[p])

(* Nothing new is owed, and what was counted stays counted or is excused.  *)
Keeps ==
  /\ log' = log /\ lost \subseteq lost'
  /\ \A e \in log \ lost' : count[e] > 0 => count'[e] > 0

LEMMA OwesKept ==
  ASSUME NEW r, Owes(r, log \ lost, count), Keeps
  PROVE  Owes(r, log' \ lost', count')
BY DEF Owes, Keeps

LEMMA MissedKept ==
  ASSUME Counted, Keeps, UNCHANGED <<cursor, covered>>
  PROVE  Counted'
BY DEF Counted, Keeps

LEMMA RunKeeps ==
  ASSUME TypeOK, Held, Keeps, Counted', NEW p \in Proc, NEW r, Goes(p, r),
         Owes(r, log' \ lost', count'), InOrder(r)
  PROVE  Held'
<1>1. run'[p] = r /\ \A q \in Proc \ {p} : run'[q] = run[q]
  BY Types DEF Goes
<1>2. ASSUME NEW q \in Proc PROVE Owes(run'[q], log' \ lost', count') /\ InOrder(run'[q])
  <2>1. CASE q = p
    BY <1>1, <2>1
  <2>2. CASE q # p
    BY <1>1, <2>2, OwesKept DEF Held
  <2>. QED BY <2>1, <2>2
<1>. QED BY <1>2 DEF Held

(* A run that has read nothing, or nothing of what counts, owes nothing.   *)
LEMMA NothingRead ==
  ASSUME NEW r, r.at \in {"idle", "target", "cursor", "release"}
  PROVE  Owes(r, log' \ lost', count') /\ InOrder(r)
BY DEF Owes, InOrder, Gathered, Ends

LEMMA OverReadsNothing == {Over.at, NoRun.at} \subseteq {"idle", "target", "cursor", "release"}
BY DEF Over, NoRun

LEMMA RangedHolds ==
  ASSUME NEW r \in Rec, NEW d \in 0..(Days + 1)
  PROVE  Owes(Ranged(r, d), log' \ lost', count') /\ InOrder(Ranged(r, d))
<1>1. r.to \in Nat /\ d \in Nat
  BY Numbers DEF Rec
<1>2. CASE d > r.to /\ r.kind # "recalc"
  BY <1>2, NothingRead, OverReadsNothing DEF Ranged
<1>3. CASE d > r.to /\ r.kind = "recalc"
  <2>. DEFINE s == [r EXCEPT !.from = d, !.at = "chunks"]
  <2>1. Ranged(r, d) = s /\ s.at = "chunks" /\ s.kind = "recalc"
    BY <1>3 DEF Ranged, Rec
  <2>. QED BY <2>1 DEF Owes, InOrder, Ends
<1>4. CASE ~(d > r.to)
  <2>. DEFINE s == [r EXCEPT !.from = d, !.at = "aggregate"]
  <2>1. Ranged(r, d) = s
    BY <1>4 DEF Ranged
  <2>2. s.at = "aggregate" /\ s.from <= s.to
    BY <1>1, <1>4 DEF Rec
  <2>. QED BY <2>1, <2>2 DEF Owes, InOrder, Gathered, Ends
<1>. QED BY <1>2, <1>3, <1>4

(* Such a step, and one that fixes the range.                              *)
LEMMA IdleHolds ==
  ASSUME TypeOK, Held, Keeps, Counted', NEW p \in Proc, NEW r, Goes(p, r),
         r.at \in {"idle", "target", "cursor", "release"}
  PROVE  Held'
BY NothingRead, RunKeeps

LEMMA RangeHolds ==
  ASSUME TypeOK, Held, Keeps, Counted', NEW p \in Proc, NEW r \in Rec, NEW d \in 0..(Days + 1),
         Goes(p, Ranged(r, d))
  PROVE  Held'
BY RangedHolds, RunKeeps

LEMMA ReadTargetHolds ==
  ASSUME TypeOK, Held, NEW p \in Proc, ReadTarget(p)
  PROVE  Held'
<1>. DEFINE r == [run[p] EXCEPT !.to = IF run[p].to = 0 THEN Yesterday ELSE run[p].to]
<1>1. r \in Rec /\ r.to \in 0..Days /\ r.from \in 0..(Days + 1)
  BY Types, Numbers DEF Rec, Yesterday, Day
<1>2. (IF r.from # 0 THEN r.from ELSE FirstDay(r.to)) \in 0..(Days + 1)
  BY <1>1, FirstDayTyped
<1>3. [r EXCEPT !.at = "cursor"].at = "cursor"
  BY <1>1 DEF Rec
<1>4. Keeps /\ UNCHANGED <<cursor, covered>>
  BY DEF ReadTarget, Keeps, table, history
<1>5. Counted'
  BY <1>4, MissedKept DEF Held
<1>6. \/ Goes(p, [r EXCEPT !.at = "cursor"])
      \/ Goes(p, Ranged(r, IF r.from # 0 THEN r.from ELSE FirstDay(r.to)))
  BY DEF ReadTarget
<1>7. CASE Goes(p, [r EXCEPT !.at = "cursor"])
  BY <1>3, <1>4, <1>5, <1>7, IdleHolds
<1>8. CASE Goes(p, Ranged(r, IF r.from # 0 THEN r.from ELSE FirstDay(r.to)))
  <2>. HIDE DEF r
  <2>. QED BY <1>1, <1>2, <1>4, <1>5, <1>8, RangeHolds
<1>. QED BY <1>6, <1>7, <1>8

LEMMA ReadCursorHolds ==
  ASSUME TypeOK, Held, NEW p \in Proc, ReadCursor(p)
  PROVE  Held'
<1>. DEFINE r == run[p]
<1>1. r \in Rec /\ r.to \in 0..Days /\ cursor + 1 \in 0..(Days + 1)
  BY Types, Numbers DEF Rec
<1>2. (IF cursor # 0 THEN cursor + 1 ELSE FirstDay(r.to)) \in 0..(Days + 1)
  BY <1>1, FirstDayTyped
<1>3. [r EXCEPT !.from = cursor + 1, !.at = "target"].at = "target"
  BY <1>1 DEF Rec
<1>4. Keeps /\ UNCHANGED <<cursor, covered>>
  BY DEF ReadCursor, Keeps, table, history
<1>5. Counted'
  BY <1>4, MissedKept DEF Held
<1>6. \/ Goes(p, Over)
      \/ Goes(p, [r EXCEPT !.from = cursor + 1, !.at = "target"])
      \/ Goes(p, Ranged(r, IF cursor # 0 THEN cursor + 1 ELSE FirstDay(r.to)))
  BY DEF ReadCursor
<1>7. CASE Goes(p, Over)
  BY <1>4, <1>5, <1>7, OverReadsNothing, IdleHolds
<1>8. CASE Goes(p, [r EXCEPT !.from = cursor + 1, !.at = "target"])
  BY <1>3, <1>4, <1>5, <1>8, IdleHolds
<1>9. CASE Goes(p, Ranged(r, IF cursor # 0 THEN cursor + 1 ELSE FirstDay(r.to)))
  BY <1>1, <1>2, <1>4, <1>5, <1>9, RangeHolds
<1>. QED BY <1>6, <1>7, <1>8, <1>9

LEMMA AggregateHolds ==
  ASSUME TypeOK, Held, NEW p \in Proc, Aggregate(p)
  PROVE  Held'
<1>. DEFINE r == run[p]
            rows == {e \in log : r.from <= e[2] /\ e[2] <= r.to}
<1>1. r \in Rec /\ r.at = "aggregate" /\ r.from <= r.to
  BY Types DEF Aggregate, Held, InOrder
<1>2. Keeps /\ UNCHANGED <<cursor, covered>>
  BY DEF Aggregate, Keeps, table
<1>3. Counted'
  BY <1>2, MissedKept DEF Held
<1>4. CASE r.kind = "recalc"
  <2>. DEFINE s == [r EXCEPT !.at = "chunks", !.rows = {e \in rows : e[1] = r.value}]
  <2>1. s.at = "chunks" /\ s.kind = "recalc"
    BY <1>1, <1>4 DEF Rec
  <2>2. Owes(s, log' \ lost', count') /\ InOrder(s)
    BY <2>1 DEF Owes, InOrder, Ends
  <2>3. Goes(p, s)
    BY <1>4 DEF Aggregate
  <2>. QED BY <1>2, <1>3, <2>2, <2>3, RunKeeps
<1>5. CASE r.kind # "recalc"
  <2>. DEFINE s == [r EXCEPT !.at = IF rows = {} THEN "getCursor" ELSE "deleted", !.rows = rows]
  <2>1. /\ s.at = (IF rows = {} THEN "getCursor" ELSE "deleted") /\ s.rows = rows
        /\ s.kind = r.kind /\ s.from = r.from /\ s.to = r.to
    BY <1>1 DEF Rec
  <2>2. Owes(s, log' \ lost', count')
    BY <1>1, <1>2, <2>1 DEF Owes, Keeps
  <2>3. InOrder(s)
    BY <1>5, <2>1 DEF InOrder, Ends
  <2>4. Goes(p, s)
    BY <1>5 DEF Aggregate
  <2>. QED BY <1>2, <1>3, <2>2, <2>3, <2>4, RunKeeps
<1>. QED BY <1>4, <1>5

LEMMA ReadDeletedHolds ==
  ASSUME TypeOK, Held, NEW p \in Proc, ReadDeleted(p)
  PROVE  Held'
<1>. DEFINE r == run[p]
            skipped == {e \in r.rows : e[1] \in deleted}
            s == [r EXCEPT !.at = IF r.rows = skipped THEN "getCursor" ELSE "chunks",
                           !.rows = r.rows \ skipped]
<1>1. r \in Rec /\ r.at = "deleted" /\ Owes(r, log \ lost, count) /\ InOrder(r)
  BY Types DEF ReadDeleted, Held
<1>2. Keeps /\ UNCHANGED <<cursor, covered>> /\ lost' = lost \cup skipped
  BY DEF ReadDeleted, Keeps, table
<1>3. Counted'
  BY <1>2, MissedKept DEF Held
<1>4. /\ s.at = (IF r.rows = skipped THEN "getCursor" ELSE "chunks") /\ s.rows = r.rows \ skipped
      /\ s.kind = r.kind /\ s.from = r.from /\ s.to = r.to
  BY <1>1 DEF Rec
<1>5. r.kind # "recalc"
  BY <1>1 DEF InOrder
<1>6. Owes(s, log' \ lost', count')
  <2>1. r.from <= r.to
    BY <1>1, <1>5 DEF Owes, Gathered
  <2>2. ASSUME NEW e \in log' \ lost', r.from <= e[2], e[2] <= r.to
        PROVE  e \in s.rows \/ count'[e] > 0
    <3>1. e \in log \ lost /\ e \notin skipped
      BY <1>2 DEF Keeps
    <3>2. e \in r.rows \/ count[e] > 0
      BY <1>1, <1>5, <2>2, <3>1 DEF Owes, Gathered
    <3>. QED BY <1>2, <1>4, <3>1, <3>2 DEF Keeps
  <2>. QED BY <1>4, <2>1, <2>2 DEF Owes
<1>7. InOrder(s)
  BY <1>4, <1>5 DEF InOrder, Ends
<1>8. Goes(p, s)
  BY DEF ReadDeleted
<1>. QED BY <1>2, <1>3, <1>6, <1>7, <1>8, RunKeeps

LEMMA WriteChunkHolds ==
  ASSUME TypeOK, Held, NEW p \in Proc, WriteChunk(p)
  PROVE  Held'
<1>. DEFINE r == run[p]
            chunk == Chunk(r.rows)
            s == [r EXCEPT !.at = IF r.rows = chunk THEN "getCursor" ELSE "chunks",
                           !.rows = r.rows \ chunk]
<1>1. r \in Rec /\ r.at = "chunks" /\ r.kind # "recalc" /\ Owes(r, log \ lost, count)
  BY Types DEF WriteChunk, Held
<1>2. \A e \in Pair : count'[e] = IF e \in chunk THEN count[e] + 1 ELSE count[e]
  BY DEF WriteChunk
<1>3. log' = log /\ lost' = lost /\ UNCHANGED <<cursor, covered>> /\ log \subseteq Pair
  BY Types DEF WriteChunk, history, blame
<1>4. \A e \in Pair : count[e] \in Nat
  BY Types
<1>5. Keeps
  BY <1>2, <1>3, <1>4 DEF Keeps
<1>6. Counted'
  BY <1>3, <1>5, MissedKept DEF Held
<1>7. /\ s.at = (IF r.rows = chunk THEN "getCursor" ELSE "chunks") /\ s.rows = r.rows \ chunk
      /\ s.kind = r.kind /\ s.from = r.from /\ s.to = r.to
  BY <1>1 DEF Rec
<1>8. Owes(s, log' \ lost', count')
  <2>1. r.from <= r.to
    BY <1>1 DEF Owes, Gathered
  <2>2. ASSUME NEW e \in log' \ lost', r.from <= e[2], e[2] <= r.to
        PROVE  e \in s.rows \/ count'[e] > 0
    <3>1. e \in Pair /\ (e \in r.rows \/ count[e] > 0)
      BY <1>1, <1>3, <2>2 DEF Owes, Gathered
    <3>2. CASE e \in chunk
      BY <1>2, <1>4, <3>1, <3>2
    <3>3. CASE e \notin chunk
      BY <1>2, <1>7, <3>1, <3>3
    <3>. QED BY <3>2, <3>3
  <2>. QED BY <1>7, <2>1, <2>2 DEF Owes
<1>9. InOrder(s)
  BY <1>1, <1>7 DEF InOrder, Ends
<1>10. Goes(p, s)
  BY DEF WriteChunk
<1>. QED BY <1>5, <1>6, <1>8, <1>9, <1>10, RunKeeps

LEMMA WriteRecalcHolds ==
  ASSUME TypeOK, Held, NEW p \in Proc, WriteRecalc(p)
  PROVE  Held'
<1>. DEFINE r == run[p]
            mine == {e \in Pair : e[1] = r.value}
<1>1. \A e \in Pair : count'[e] = IF e \in mine THEN (IF e \in r.rows THEN 1 ELSE 0) ELSE count[e]
  BY DEF WriteRecalc
<1>2. /\ log' = log /\ lost' = lost \cup {e \in mine \ r.rows : count[e] > 0}
      /\ UNCHANGED <<cursor, covered>> /\ log \subseteq Pair
  BY Types DEF WriteRecalc
<1>3. Keeps
  BY <1>1, <1>2 DEF Keeps
<1>4. Counted'
  BY <1>2, <1>3, MissedKept DEF Held
<1>5. Goes(p, Over)
  BY DEF WriteRecalc
<1>. QED BY <1>3, <1>4, <1>5, OverReadsNothing, IdleHolds

(* The end of a run: all of its days are counted, and covered now.         *)
LEMMA EndCovers ==
  ASSUME TypeOK, Held, NEW p \in Proc, run[p].at \in Ends, UNCHANGED <<log, lost, count>>,
         covered' = covered \cup (run[p].from..run[p].to)
  PROVE  Counted'
<1>. DEFINE r == run[p]
<1>1. r \in Rec /\ Owes(r, log \ lost, count) /\ InOrder(r)
  BY Types DEF Held
<1>2. r.kind # "recalc" /\ r.rows = {} /\ r.from \in Nat /\ r.to \in Nat
  BY <1>1, Numbers DEF InOrder, Rec
<1>3. \A e \in log \ lost : e[2] \in r.from..r.to => count[e] > 0
  BY <1>1, <1>2 DEF Owes, Gathered, Ends
<1>. QED BY <1>3 DEF Held, Counted

LEMMA GetCursorHolds ==
  ASSUME TypeOK, Held, NEW p \in Proc, GetCursor(p)
  PROVE  Held'
<1>. DEFINE r == run[p]
<1>1. r \in Rec /\ r.at = "getCursor" /\ Owes(r, log \ lost, count) /\ InOrder(r)
  BY Types DEF GetCursor, Held
<1>2. Keeps /\ UNCHANGED <<log, lost, count, cursor>>
  BY DEF GetCursor, Keeps, table
<1>3. CASE cursor >= r.to
  <2>1. covered' = covered \cup (r.from..r.to) /\ Goes(p, Over)
    BY <1>3 DEF GetCursor
  <2>3. Counted'
    BY <1>1, <1>2, <2>1, EndCovers DEF Ends
  <2>. QED BY <1>2, <2>1, <2>3, OverReadsNothing, IdleHolds
<1>4. CASE ~(cursor >= r.to)
  <2>. DEFINE s == [r EXCEPT !.at = IF cursor = 0 THEN "insertCursor" ELSE "setCursor"]
  <2>1. Goes(p, s) /\ covered' = covered
    BY <1>4 DEF GetCursor
  <2>2. /\ s.at = (IF cursor = 0 THEN "insertCursor" ELSE "setCursor") /\ s.rows = r.rows
        /\ s.kind = r.kind /\ s.from = r.from /\ s.to = r.to
    BY <1>1 DEF Rec
  <2>3. Owes(s, log' \ lost', count')
    BY <1>1, <1>2, <2>2 DEF Owes, Gathered
  <2>4. InOrder(s)
    BY <1>1, <2>2 DEF InOrder, Ends
  <2>5. Counted'
    BY <1>2, <2>1, MissedKept DEF Held
  <2>. QED BY <1>2, <2>1, <2>3, <2>4, <2>5, RunKeeps
<1>. QED BY <1>3, <1>4

LEMMA SetCursorHolds ==
  ASSUME TypeOK, Held, NEW p \in Proc, SetCursor(p)
  PROVE  Held'
<1>. DEFINE r == run[p]
            refused == r.at = "insertCursor" /\ cursor # 0
<1>1. r \in Rec /\ r.at \in {"insertCursor", "setCursor"} /\ Owes(r, log \ lost, count) /\ InOrder(r)
  BY Types DEF SetCursor, Held
<1>2. Keeps /\ UNCHANGED <<log, lost, count>> /\ Goes(p, Over)
  BY DEF SetCursor, Keeps
<1>3. Counted'
  <2>1. CASE refused
    <3>1. UNCHANGED <<cursor, covered>>
      BY <2>1 DEF SetCursor
    <3>. QED BY <1>2, <3>1, MissedKept DEF Held
  <2>2. CASE ~refused
    <3>1. covered' = covered \cup (r.from..r.to) /\ cursor' = r.to
      BY <2>2 DEF SetCursor
    <3>. QED BY <1>1, <1>2, <3>1, EndCovers DEF Ends
  <2>. QED BY <2>1, <2>2
<1>. QED BY <1>2, <1>3, OverReadsNothing, IdleHolds

LEMMA StartHolds ==
  ASSUME TypeOK, Held, NEW p \in Proc, Start(p)
  PROVE  Held'
<1>1. Keeps /\ UNCHANGED <<cursor, covered>>
  BY DEF Start, StartDaily, StartFull, StartIncrement, StartRecalc, Ask, Keeps, table
<1>2. Counted'
  BY <1>1, MissedKept DEF Held
<1>3. ASSUME NEW q \in Proc PROVE Owes(run'[q], log' \ lost', count') /\ InOrder(run'[q])
  <2>1. CASE q = p
    BY <1>1, <2>1, StartMoves, NothingRead
  <2>2. CASE q # p
    <3>1. run'[q] = run[q]
      BY <2>2, StartMoves
    <3>. QED BY <1>1, <3>1, OwesKept DEF Held
  <2>. QED BY <2>1, <2>2
<1>. QED BY <1>2, <1>3 DEF Held

LEMMA StopHolds ==
  ASSUME TypeOK, Held, NEW p \in Proc, Release(p) \/ Fails(p) \/ Dies(p)
  PROVE  Held'
<1>1. Keeps /\ UNCHANGED <<cursor, covered>>
  BY DEF Release, Fails, Dies, Keeps, table, history
<1>2. Counted'
  BY <1>1, MissedKept DEF Held
<1>3. Goes(p, Over) \/ Goes(p, NoRun)
  BY DEF Release, Fails, Dies
<1>. QED BY <1>1, <1>2, <1>3, OverReadsNothing, IdleHolds

(* An event that comes too late for a run is excused.                      *)
LEMMA ArrivesHolds ==
  ASSUME TypeOK, Held, NEW v \in Value, NEW d \in Day, Arrives(v, d)
  PROVE  Held'
<1>1. log' = log \cup {<<v, d>>} /\ UNCHANGED <<run, count, cursor, covered>>
  BY DEF Arrives, table
<1>2. lost' = IF TooLate(d) THEN lost \cup {<<v, d>>} ELSE lost
  BY DEF Arrives
<1>3. CASE TooLate(d)
  <2>1. log' \ lost' \subseteq log \ lost
    BY <1>1, <1>2, <1>3
  <2>2. Counted'
    BY <1>1, <2>1 DEF Held, Counted
  <2>3. \A p \in Proc : Owes(run'[p], log' \ lost', count') /\ InOrder(run'[p])
    BY <1>1, <2>1 DEF Held, Owes
  <2>. QED BY <2>2, <2>3 DEF Held
<1>4. CASE ~TooLate(d)
  <2>1. log' \ lost' \subseteq (log \ lost) \cup {<<v, d>>} /\ <<v, d>>[2] = d
    BY <1>1, <1>2, <1>4
  <2>2. Counted'
    BY <1>1, <1>4, <2>1 DEF Held, Counted, TooLate
  <2>3. ASSUME NEW p \in Proc PROVE Owes(run'[p], log' \ lost', count') /\ InOrder(run'[p])
    <3>. DEFINE r == run[p]
    <3>1. Owes(r, log \ lost, count) /\ InOrder(r)
      BY DEF Held
    <3>2. ~(r.at \in Gathered /\ r.kind # "recalc" /\ r.from <= d /\ d <= r.to)
      BY <1>4 DEF TooLate, Gathered, Running
    <3>3. Owes(r, log' \ lost', count)
      BY <2>1, <3>1, <3>2 DEF Owes
    <3>. QED BY <1>1, <3>1, <3>3
  <2>. QED BY <2>2, <2>3 DEF Held
<1>. QED BY <1>3, <1>4

LEMMA HeldKept == TypeOK /\ Held /\ [Next]_vars => Held'
<1>. SUFFICES ASSUME TypeOK, Held, [Next]_vars PROVE Held'
  OBVIOUS
<1>1. CASE UNCHANGED <<run, log, lost, count, cursor, covered>>
  BY <1>1 DEF Held, Counted
<1>2. CASE Midnight \/ LockExpires \/ \E v \in Value : Remove(v) \/ Restore(v)
  BY <1>1, <1>2 DEF Midnight, LockExpires, Remove, Restore, table, history
<1>3. ASSUME NEW p \in Proc, Read(p) PROVE Held'
  BY <1>3, ReadTargetHolds, ReadCursorHolds, AggregateHolds, ReadDeletedHolds, GetCursorHolds DEF Read
<1>4. ASSUME NEW p \in Proc, Write(p) PROVE Held'
  BY <1>4, WriteChunkHolds, WriteRecalcHolds, SetCursorHolds, StopHolds DEF Write
<1>. QED BY <1>1, <1>2, <1>3, <1>4, StartHolds, StopHolds, ArrivesHolds DEF Next, vars, table, history

-----------------------------------------------------------------------------
(* A day the cursor has reached was taken in by a run that ended well, or  *)
(* passed over for a full sync from a later date.  A run that has found    *)
(* where to begin begins behind such days only; where the day is asked for *)
(* it need not.                                                            *)
Reached == \A e \in log \ lost : e[2] <= cursor => e[2] \in covered \cup passed

Begins(r, due, seen) ==
  r.at # "idle" /\ r.kind \notin {"from", "recalc"} =>
    \A e \in due : e[2] < r.from => e[2] \in seen

Followed == Reached /\ \A p \in Proc : Begins(run[p], log \ lost, covered \cup passed)

(* Nothing new has to be reached, and nothing is reached no more.          *)
Stays ==
  /\ log' = log /\ lost \subseteq lost'
  /\ covered \subseteq covered' /\ passed \subseteq passed'

LEMMA ReachedStays ==
  ASSUME Reached, Stays, cursor' = cursor
  PROVE  Reached'
BY DEF Reached, Stays

LEMMA RunFollows ==
  ASSUME TypeOK, Followed, Stays, Reached', NEW p \in Proc, NEW r, Goes(p, r),
         Begins(r, log \ lost, covered \cup passed)
  PROVE  Followed'
<1>1. run'[p] = r /\ \A q \in Proc \ {p} : run'[q] = run[q]
  BY Types DEF Goes
<1>2. \A q \in Proc : Begins(run'[q], log \ lost, covered \cup passed)
  BY <1>1 DEF Followed
<1>3. \A q \in Proc : Begins(run'[q], log' \ lost', covered' \cup passed')
  BY <1>2 DEF Stays, Begins
<1>. QED BY <1>3 DEF Followed

(* A run that begins where it did, and one that is over.                   *)
LEMMA SameBegin ==
  ASSUME Followed, NEW p \in Proc, NEW r, run[p].at # "idle", r.kind = run[p].kind,
         r.from = run[p].from
  PROVE  Begins(r, log \ lost, covered \cup passed)
BY DEF Followed, Begins

LEMMA OverBegins ==
  ASSUME TypeOK, NEW r, r.from = 0
  PROVE  Begins(r, log \ lost, covered \cup passed)
<1>1. \A e \in log : e[2] \in Nat
  BY Types, Numbers DEF Pair
<1>. QED BY <1>1 DEF Begins

LEMMA FirstDayFirst ==
  ASSUME TypeOK, NEW d, NEW e \in log
  PROVE  FirstDay(d) <= e[2]
<1>1. DaysOf(log) \subseteq Nat /\ e[2] \in DaysOf(log)
  BY Types, Numbers DEF DaysOf, Pair
<1>2. PICK x \in DaysOf(log) : \A y \in DaysOf(log) : ~(y < x)
  <2>1. PICK x \in DaysOf(log) : \A y \in DaysOf(log) : ~(<<y, x>> \in OpToRel(<, Nat))
    BY <1>1, NatLessThanWellFounded, WFMin
  <2>. QED BY <1>1, <2>1 DEF OpToRel
<1>3. \A y \in DaysOf(log) : x <= y
  BY <1>1, <1>2
<1>4. FirstDay(d) \in DaysOf(log) /\ \A y \in DaysOf(log) : FirstDay(d) <= y
  BY <1>3 DEF FirstDay
<1>. QED BY <1>1, <1>4

(* A range begins where the run did, or has nothing in front of it.        *)
LEMMA RangedBegins ==
  ASSUME TypeOK, NEW r \in Rec, NEW d \in 0..(Days + 1),
         r.kind \notin {"from", "recalc"} =>
           \A e \in log \ lost : e[2] < d => e[2] \in covered \cup passed
  PROVE  Begins(Ranged(r, d), log \ lost, covered \cup passed)
<1>1. CASE d > r.to /\ r.kind # "recalc"
  BY <1>1, OverBegins DEF Ranged, Over, NoRun
<1>2. CASE ~(d > r.to /\ r.kind # "recalc")
  <2>. DEFINE s == [r EXCEPT !.from = d, !.at = IF d > r.to THEN "chunks" ELSE "aggregate"]
  <2>1. Ranged(r, d) = s /\ s.from = d /\ s.kind = r.kind
    BY <1>2 DEF Ranged, Rec
  <2>. QED BY <2>1 DEF Begins
<1>. QED BY <1>1, <1>2

LEMMA ReadTargetFollows ==
  ASSUME TypeOK, Followed, NEW p \in Proc, ReadTarget(p)
  PROVE  Followed'
<1>. DEFINE r == [run[p] EXCEPT !.to = IF run[p].to = 0 THEN Yesterday ELSE run[p].to]
            d == IF r.from # 0 THEN r.from ELSE FirstDay(r.to)
<1>1. r \in Rec /\ r.to \in 0..Days /\ r.from \in 0..(Days + 1)
  BY Types, Numbers DEF Rec, Yesterday, Day
<1>2. r.kind = run[p].kind /\ r.from = run[p].from /\ run[p].at # "idle"
  BY Types DEF Rec, ReadTarget
<1>3. Stays /\ cursor' = cursor
  BY DEF ReadTarget, Stays, table, history
<1>4. Reached'
  BY <1>3, ReachedStays DEF Followed
<1>5. CASE Goes(p, [r EXCEPT !.at = "cursor"])
  <2>. DEFINE s == [r EXCEPT !.at = "cursor"]
  <2>1. s.kind = run[p].kind /\ s.from = run[p].from
    BY <1>1, <1>2 DEF Rec
  <2>2. Begins(s, log \ lost, covered \cup passed)
    BY <1>2, <2>1, SameBegin
  <2>. QED BY <1>3, <1>4, <1>5, <2>2, RunFollows
<1>6. CASE Goes(p, Ranged(r, d))
  <2>1. d \in 0..(Days + 1)
    BY <1>1, FirstDayTyped
  <2>2. r.kind \notin {"from", "recalc"} =>
          \A e \in log \ lost : e[2] < d => e[2] \in covered \cup passed
    <3>1. CASE r.from # 0
      BY <1>2, <3>1 DEF Followed, Begins
    <3>2. CASE r.from = 0
      <4>1. \A e \in log : e[2] \in Nat /\ d <= e[2]
        BY <3>2, Types, Numbers, FirstDayFirst DEF Pair
      <4>. QED BY <2>1, <4>1, Numbers
    <3>. QED BY <3>1, <3>2
  <2>. HIDE DEF r, d
  <2>3. Begins(Ranged(r, d), log \ lost, covered \cup passed)
    BY <1>1, <2>1, <2>2, RangedBegins
  <2>. QED BY <1>3, <1>4, <1>6, <2>3, RunFollows
<1>7. Goes(p, [r EXCEPT !.at = "cursor"]) \/ Goes(p, Ranged(r, d))
  BY DEF ReadTarget
<1>. QED BY <1>5, <1>6, <1>7

LEMMA ReadCursorFollows ==
  ASSUME TypeOK, Followed, NEW p \in Proc, ReadCursor(p)
  PROVE  Followed'
<1>. DEFINE r == run[p]
            d == IF cursor # 0 THEN cursor + 1 ELSE FirstDay(r.to)
            s == [r EXCEPT !.from = cursor + 1, !.at = "target"]
<1>1. r \in Rec /\ r.to \in 0..Days /\ cursor \in Nat /\ cursor + 1 \in 0..(Days + 1)
  BY Types, Numbers DEF Rec
<1>2. \A e \in log : e[2] \in Nat
  BY Types, Numbers DEF Pair
<1>3. Stays /\ cursor' = cursor
  BY DEF ReadCursor, Stays, table, history
<1>4. Reached'
  BY <1>3, ReachedStays DEF Followed
<1>5. \A e \in log \ lost : e[2] < cursor + 1 => e[2] \in covered \cup passed
  BY <1>1, <1>2 DEF Followed, Reached
<1>6. CASE Goes(p, Over)
  <2>1. Begins(Over, log \ lost, covered \cup passed)
    BY OverBegins DEF Over, NoRun
  <2>. QED BY <1>3, <1>4, <1>6, <2>1, RunFollows
<1>7. CASE Goes(p, s)
  <2>1. s.from = cursor + 1
    BY <1>1 DEF Rec
  <2>2. Begins(s, log \ lost, covered \cup passed)
    BY <1>5, <2>1 DEF Begins
  <2>. QED BY <1>3, <1>4, <1>7, <2>2, RunFollows
<1>8. CASE Goes(p, Ranged(r, d))
  <2>1. d \in 0..(Days + 1)
    BY <1>1, FirstDayTyped
  <2>2. \A e \in log \ lost : e[2] < d => e[2] \in covered \cup passed
    <3>1. CASE cursor # 0
      BY <1>5, <3>1
    <3>2. CASE cursor = 0
      <4>1. \A e \in log : e[2] \in Nat /\ d <= e[2]
        BY <1>2, <3>2, FirstDayFirst
      <4>. QED BY <2>1, <4>1, Numbers
    <3>. QED BY <3>1, <3>2
  <2>. HIDE DEF r, d
  <2>3. Begins(Ranged(r, d), log \ lost, covered \cup passed)
    BY <1>1, <2>1, <2>2, RangedBegins
  <2>. QED BY <1>3, <1>4, <1>8, <2>3, RunFollows
<1>9. Goes(p, Over) \/ Goes(p, s) \/ Goes(p, Ranged(r, d))
  BY DEF ReadCursor
<1>. QED BY <1>6, <1>7, <1>8, <1>9

(* The steps between reading the range and setting the cursor.             *)
LEMMA MiddleFollows ==
  ASSUME TypeOK, Followed, NEW p \in Proc,
         Aggregate(p) \/ ReadDeleted(p) \/ WriteChunk(p) \/ WriteRecalc(p) \/ GetCursor(p)
  PROVE  Followed'
<1>1. Stays /\ cursor' = cursor /\ run[p].at # "idle"
  BY DEF Aggregate, ReadDeleted, WriteChunk, WriteRecalc, GetCursor, Stays, table, history, blame
<1>2. Reached'
  BY <1>1, ReachedStays DEF Followed
<1>. DEFINE r == run'[p]
<1>3. Goes(p, r) /\ (r.from = 0 \/ (r.kind = run[p].kind /\ r.from = run[p].from))
  <2>1. Over.from = 0
    BY DEF Over, NoRun
  <2>2. CASE Aggregate(p)
    BY <2>2, Types DEF Aggregate, Goes, Rec
  <2>3. CASE ReadDeleted(p)
    BY <2>3, Types DEF ReadDeleted, Goes, Rec
  <2>4. CASE WriteChunk(p)
    BY <2>4, Types DEF WriteChunk, Goes, Rec
  <2>5. CASE WriteRecalc(p)
    BY <2>1, <2>5, Types DEF WriteRecalc, Goes
  <2>6. CASE GetCursor(p)
    BY <2>1, <2>6, Types DEF GetCursor, Goes, Rec
  <2>. QED BY <2>2, <2>3, <2>4, <2>5, <2>6
<1>. HIDE DEF r
<1>4. Begins(r, log \ lost, covered \cup passed)
  BY <1>1, <1>3, SameBegin, OverBegins
<1>. QED BY <1>1, <1>2, <1>3, <1>4, RunFollows

(* What lies before a start date asked for is covered, or passed over now. *)
LEMMA SetCursorFollows ==
  ASSUME TypeOK, Held, Followed, NEW p \in Proc, SetCursor(p)
  PROVE  Followed'
<1>. DEFINE r == run[p]
            refused == r.at = "insertCursor" /\ cursor # 0
<1>1. r \in Rec /\ r.at \in {"insertCursor", "setCursor"} /\ r.kind # "recalc"
  BY Types DEF SetCursor, Held, InOrder, Ends
<1>2. r.from \in Nat /\ r.to \in Nat /\ cursor \in Nat /\ \A e \in log : e[2] \in Day \cap Nat
  <2>1. r.from \in Nat /\ r.to \in Nat /\ cursor \in Nat
    BY <1>1, Types, Numbers DEF Rec
  <2>2. \A e \in log : e[2] \in Day \cap Nat
    BY Types, Numbers DEF Pair
  <2>. QED BY <2>1, <2>2
<1>3. Stays /\ Goes(p, Over)
  BY DEF SetCursor, Stays
<1>4. Reached'
  <2>1. CASE refused
    <3>1. cursor' = cursor
      BY <2>1 DEF SetCursor
    <3>. QED BY <1>3, <3>1, ReachedStays DEF Followed
  <2>2. CASE ~refused
    <3>1. cursor' = r.to /\ covered' = covered \cup (r.from..r.to)
      BY <2>2 DEF SetCursor
    <3>2. ASSUME NEW e \in log' \ lost', e[2] <= r.to
          PROVE  e[2] \in covered' \cup passed'
      <4>1. e \in log \ lost /\ e[2] \in Day \cap Nat
        BY <1>2, <1>3 DEF Stays
      <4>2. CASE r.from <= e[2]
        BY <1>2, <3>1, <3>2, <4>1, <4>2
      <4>3. CASE e[2] < r.from /\ r.kind # "from"
        <5>1. e[2] \in covered \cup passed
          BY <1>1, <4>1, <4>3 DEF Followed, Begins
        <5>. QED BY <1>3, <5>1 DEF Stays
      <4>4. CASE e[2] < r.from /\ r.kind = "from"
        <5>1. passed' = passed \cup {d \in Day : cursor < d /\ d < r.from}
          BY <2>2, <4>4 DEF SetCursor
        <5>2. CASE e[2] <= cursor
          <6>1. e[2] \in covered \cup passed
            BY <4>1, <5>2 DEF Followed, Reached
          <6>. QED BY <1>3, <6>1 DEF Stays
        <5>3. CASE cursor < e[2]
          BY <4>1, <4>4, <5>1, <5>3
        <5>. QED BY <1>2, <4>1, <5>2, <5>3
      <4>. QED BY <1>2, <4>1, <4>2, <4>3, <4>4
    <3>. QED BY <3>1, <3>2 DEF Reached
  <2>. QED BY <2>1, <2>2
<1>5. Begins(Over, log \ lost, covered \cup passed)
  BY OverBegins DEF Over, NoRun
<1>. QED BY <1>3, <1>4, <1>5, RunFollows

LEMMA StartFollows ==
  ASSUME TypeOK, Followed, NEW p \in Proc, Start(p) \/ Release(p) \/ Fails(p) \/ Dies(p)
  PROVE  Followed'
<1>1. Stays /\ cursor' = cursor
  BY DEF Start, StartDaily, StartFull, StartIncrement, StartRecalc, Ask, Release, Fails, Dies,
         Stays, table, history
<1>2. Reached'
  BY <1>1, ReachedStays DEF Followed
<1>3. ASSUME NEW r, Goes(p, r), r.from = 0 \/ r.kind \in {"from", "recalc"}
      PROVE  Followed'
  <2>1. Begins(r, log \ lost, covered \cup passed)
    BY <1>3, OverBegins DEF Begins
  <2>. QED BY <1>1, <1>2, <1>3, <2>1, RunFollows
<1>4. CASE StartDaily(p)
  <2>1. [NoRun EXCEPT !.at = "target", !.kind = "daily"].from = 0
    BY DEF NoRun
  <2>. QED BY <1>3, <1>4, <2>1 DEF StartDaily, TakeLock, Begin, Goes
<1>5. ASSUME NEW kind, NEW at, NEW v, NEW f, NEW t, Ask(p, kind, at, v, f, t),
             f = 0 \/ kind \in {"from", "recalc"}
      PROVE  Followed'
  <2>. DEFINE r == [at |-> at, kind |-> kind, value |-> v, from |-> f, to |-> t, rows |-> {}]
  <2>1. Goes(p, r)
    BY <1>5 DEF Ask, TakeLock, Begin, Goes
  <2>2. r.from = 0 \/ r.kind \in {"from", "recalc"}
    BY <1>5
  <2>. HIDE DEF r
  <2>. QED BY <1>3, <2>1, <2>2
<1>6. CASE StartFull(p)
  <2>1. PICK f \in 0..Days, t \in 0..Days :
          Ask(p, IF f = 0 THEN "full" ELSE "from", "target", 1, f, t)
    BY <1>6 DEF StartFull
  <2>. QED BY <1>5, <2>1
<1>7. CASE StartIncrement(p) \/ StartRecalc(p)
  BY <1>5, <1>7 DEF StartIncrement, StartRecalc
<1>8. CASE Release(p) \/ Fails(p) \/ Dies(p)
  <2>1. Over.from = 0 /\ NoRun.from = 0
    BY DEF Over, NoRun
  <2>. QED BY <1>3, <1>8, <2>1 DEF Release, Fails, Dies
<1>. QED BY <1>4, <1>6, <1>7, <1>8 DEF Start

(* An event that a run has begun behind, or the cursor reached, is late.   *)
LEMMA ArrivesFollows ==
  ASSUME TypeOK, Followed, NEW v \in Value, NEW d \in Day, Arrives(v, d)
  PROVE  Followed'
<1>1. log' = log \cup {<<v, d>>} /\ UNCHANGED <<run, cursor, covered, passed>>
  BY DEF Arrives, table
<1>2. lost' = IF TooLate(d) THEN lost \cup {<<v, d>>} ELSE lost
  BY DEF Arrives
<1>3. CASE TooLate(d)
  <2>1. log' \ lost' \subseteq log \ lost
    BY <1>1, <1>2, <1>3
  <2>. QED BY <1>1, <2>1 DEF Followed, Reached, Begins
<1>4. CASE ~TooLate(d)
  <2>1. log' \ lost' \subseteq (log \ lost) \cup {<<v, d>>} /\ <<v, d>>[2] = d
    BY <1>1, <1>2, <1>4
  <2>2. ~(d <= cursor)
    BY <1>4 DEF TooLate
  <2>3. Reached'
    BY <1>1, <2>1, <2>2 DEF Followed, Reached
  <2>4. ASSUME NEW p \in Proc PROVE Begins(run[p], log' \ lost', covered \cup passed)
    <3>1. run[p].at # "idle" /\ run[p].kind \notin {"from", "recalc"} => ~(d < run[p].from)
      BY <1>4 DEF TooLate, Running
    <3>2. Begins(run[p], log \ lost, covered \cup passed)
      BY DEF Followed
    <3>. QED BY <2>1, <3>1, <3>2 DEF Begins
  <2>. QED BY <1>1, <2>3, <2>4 DEF Followed
<1>. QED BY <1>3, <1>4

LEMMA FollowedKept == TypeOK /\ Held /\ Followed /\ [Next]_vars => Followed'
<1>. SUFFICES ASSUME TypeOK, Held, Followed, [Next]_vars PROVE Followed'
  OBVIOUS
<1>1. CASE UNCHANGED <<run, log, lost, cursor, covered, passed>>
  BY <1>1 DEF Followed, Reached
<1>2. CASE Midnight \/ LockExpires \/ \E v \in Value : Remove(v) \/ Restore(v)
  BY <1>1, <1>2 DEF Midnight, LockExpires, Remove, Restore, table, history
<1>3. ASSUME NEW p \in Proc, Read(p) PROVE Followed'
  BY <1>3, ReadTargetFollows, ReadCursorFollows, MiddleFollows DEF Read
<1>4. ASSUME NEW p \in Proc, Write(p) PROVE Followed'
  BY <1>4, MiddleFollows, SetCursorFollows, StartFollows DEF Write
<1>. QED BY <1>1, <1>2, <1>3, <1>4, StartFollows, ArrivesFollows DEF Next, vars, table, history

(* Every event of a day the cursor has reached is in its total, but what   *)
(* came late, was deleted or recounted away, and the days a full sync from *)
(* a later date made the cursor pass.                                      *)
THEOREM NoDayMissed == Spec => []NothingMissed
<1>1. Init => Held
  BY NothingRead DEF Init, Held, Counted, Owes, InOrder, NoRun, Gathered, Ends
<1>2. Init => Followed
  BY DEF Init, Followed, Reached, Begins
<1>3. Held /\ Followed => NothingMissed
  BY DEF Held, Counted, Followed, Reached, NothingMissed
<1>. QED BY <1>1, <1>2, <1>3, InitTyped, NextTyped, HeldKept, FollowedKept, PTL DEF Spec

-----------------------------------------------------------------------------
(* How often a total may contain an event is bounded by what has gone      *)
(* wrong.  A run may still add an event to its total: surely, or because   *)
(* the cursor is not past it for good - then the run counts it when it     *)
(* finds the cursor before it, or takes the cursor back before it.         *)
Sets == {"insertCursor", "setCursor"}
Secure(d) == cursor >= d /\ \A p \in Proc : run[p].at \in Sets => run[p].to >= d

MayCount(r, e) ==
  /\ r.kind # "recalc"
  /\ \/ r.at = "target" /\ r.kind = "increment" /\ r.from <= e[2]
     \/ r.at = "aggregate" /\ r.kind \notin Full /\ r.from <= e[2]
     \/ r.at \in {"deleted", "chunks"} /\ e \in r.rows

Strays(r, e) ==
  /\ r.kind # "recalc"
  /\ r.at \in {"target", "cursor", "aggregate"} \/ (r.at \in Gathered /\ r.to < e[2])

MayAdd(e) == {p \in Proc : MayCount(run[p], e) \/ (~Secure(e[2]) /\ Strays(run[p], e))}

(* A run that has counted the event, or left it out, and ends with the     *)
(* cursor past it.                                                         *)
Redeems(r, c, e) ==
  /\ r.kind # "recalc" /\ r.to >= e[2]
  /\ \/ r.at \in {"deleted", "chunks"} /\ e \notin r.rows
     \/ r.at \in {"getCursor", "setCursor"}
     \/ r.at = "insertCursor" /\ c = 0

Causes == faults + overlaps + again

(* The total and all that may be added stay within the causes; so does the *)
(* next run, when nobody brings the cursor past the event before it.       *)
Accounted(e) ==
  /\ count[e] + Cardinality(MayAdd(e)) <= 1 + Causes
  /\ cursor < e[2] /\ (\A p \in Proc : ~Redeems(run[p], cursor, e)) => count[e] <= Causes

(* What a run knows of its range.                                          *)
Ranging(r) ==
  /\ r.at = "target" /\ r.kind = "increment" => r.from > 0
  /\ r.at \in {"deleted", "chunks"} /\ r.kind # "recalc" => \A e \in r.rows : e[2] <= r.to

Accounts ==
  /\ \A p \in Proc : Ranging(run[p])
  /\ Cardinality(Running) <= 1 + overlaps
  /\ \A e \in Pair : Accounted(e)

-----------------------------------------------------------------------------
(* Sets of runs and their sizes.                                           *)
LEMMA ProcSets ==
  ASSUME NEW S \in SUBSET Proc
  PROVE  IsFiniteSet(S) /\ Cardinality(S) \in Nat
<1>1. IsFiniteSet(Proc)
  BY FS_Interval, Numbers DEF Proc
<1>. QED BY <1>1, FS_Subset, FS_CardinalityType

LEMMA Fewer ==
  ASSUME NEW S \in SUBSET Proc, NEW T \in SUBSET Proc, S \subseteq T
  PROVE  Cardinality(S) <= Cardinality(T)
BY ProcSets, FS_Subset

LEMMA OneMore ==
  ASSUME NEW S \in SUBSET Proc, NEW T \in SUBSET Proc, NEW p \in Proc, S \subseteq T \cup {p}
  PROVE  Cardinality(S) <= Cardinality(T) + 1
<1>1. Cardinality(T \cup {p}) \in {Cardinality(T), Cardinality(T) + 1}
  BY ProcSets, FS_AddElement
<1>2. Cardinality(S) <= Cardinality(T \cup {p})
  BY Fewer
<1>. QED BY <1>1, <1>2, ProcSets

LEMMA OneLess ==
  ASSUME NEW S \in SUBSET Proc, NEW T \in SUBSET Proc, NEW p \in T, S \subseteq T \ {p}
  PROVE  Cardinality(S) + 1 <= Cardinality(T)
<1>1. Cardinality(T \ {p}) = Cardinality(T) - 1
  BY ProcSets, FS_RemoveElement
<1>2. Cardinality(S) <= Cardinality(T \ {p})
  BY Fewer
<1>. QED BY <1>1, <1>2, ProcSets

LEMMA PairTypes ==
  ASSUME TypeOK, NEW e \in Pair
  PROVE  /\ e[2] \in Nat /\ e[2] > 0 /\ count[e] \in Nat /\ cursor \in Nat /\ Causes \in Nat
         /\ MayAdd(e) \in SUBSET Proc /\ Cardinality(MayAdd(e)) \in Nat
<1>1. e[2] \in Nat /\ e[2] > 0
  BY Numbers DEF Pair, Day
<1>2. count[e] \in Nat /\ cursor \in Nat
  BY Types, Numbers
<1>3. Causes \in Nat
  BY Types, UtmAssumption DEF Causes
<1>4. MayAdd(e) \in SUBSET Proc
  BY DEF MayAdd
<1>. QED BY <1>1, <1>2, <1>3, <1>4, ProcSets

LEMMA RunTypes ==
  ASSUME TypeOK, NEW p \in Proc
  PROVE  run[p] \in Rec /\ run[p].to \in Nat /\ run[p].from \in Nat
BY Types, Numbers DEF Rec

(* The same after a step.                                                  *)
LEMMA NextTypes ==
  ASSUME TypeOK', NEW e \in Pair
  PROVE  /\ count'[e] \in Nat /\ cursor' \in Nat /\ Causes' \in Nat
         /\ MayAdd(e)' \in SUBSET Proc /\ Cardinality(MayAdd(e)') \in Nat
         /\ \A p \in Proc : run'[p].to \in Nat /\ run'[p].from \in Nat
<1>1. count'[e] \in Nat /\ cursor' \in Nat
  BY Numbers DEF TypeOK
<1>2. faults' \in Nat /\ overlaps' \in Nat /\ again' \in Nat
  BY UtmAssumption DEF TypeOK
<1>3. Causes' \in Nat
  <2>1. Causes' = faults' + overlaps' + again'
    BY DEF Causes
  <2>2. \A x, y, z \in Nat : x + y + z \in Nat
    OBVIOUS
  <2>. QED BY <1>2, <2>1, <2>2, Zenon
<1>4. MayAdd(e)' \in SUBSET Proc
  BY DEF MayAdd
<1>5. \A p \in Proc : run'[p].to \in Nat /\ run'[p].from \in Nat
  BY Numbers DEF TypeOK
<1>. QED BY <1>1, <1>3, <1>4, <1>5, ProcSets

(* What is secure stays so while the cursor stays: a run that is about to  *)
(* set the cursor found it behind its range.                               *)
LEMMA SecureStays ==
  ASSUME TypeOK, TypeOK', NEW p \in Proc, \A q \in Proc \ {p} : run'[q] = run[q],
         cursor' = cursor, run'[p].at \in Sets => cursor < run'[p].to,
         NEW d \in Nat, Secure(d)
  PROVE  Secure(d)'
<1>1. cursor \in Nat /\ run'[p].to \in Nat
  BY Types, Numbers DEF TypeOK
<1>2. run'[p].at \in Sets => run'[p].to >= d
  BY <1>1 DEF Secure
<1>. QED BY <1>2 DEF Secure

(* Of the others, none may add what it might not before.                   *)
LEMMA OthersAdd ==
  ASSUME TypeOK, TypeOK', NEW p \in Proc, \A q \in Proc \ {p} : run'[q] = run[q],
         NEW e \in Pair, Secure(e[2]) => Secure(e[2])'
  PROVE  MayAdd(e)' \subseteq MayAdd(e) \cup {p}
BY DEF MayAdd

(* A step of a run that adds nothing and may not add more than before.     *)
LEMMA QuietRun ==
  ASSUME TypeOK, TypeOK', NEW p \in Proc, \A q \in Proc \ {p} : run'[q] = run[q],
         cursor' = cursor, run'[p].at \in Sets => cursor < run'[p].to,
         NEW e \in Pair, Accounted(e), count'[e] <= count[e], Causes' >= Causes,
         p \in MayAdd(e)' => p \in MayAdd(e),
         cursor < e[2] /\ Redeems(run[p], cursor, e) => Redeems(run'[p], cursor, e)
  PROVE  Accounted(e)'
<1>1. Secure(e[2]) => Secure(e[2])'
  BY SecureStays, PairTypes
<1>2. MayAdd(e)' \subseteq MayAdd(e)
  BY <1>1, OthersAdd
<1>3. Cardinality(MayAdd(e)') <= Cardinality(MayAdd(e))
  BY <1>2, Fewer, PairTypes
<1>4. /\ count[e] \in Nat /\ count'[e] \in Nat /\ Causes \in Nat /\ Causes' \in Nat
      /\ Cardinality(MayAdd(e)) \in Nat /\ Cardinality(MayAdd(e)') \in Nat
  BY PairTypes, NextTypes
<1>5. count'[e] + Cardinality(MayAdd(e)') <= 1 + Causes'
  BY <1>3, <1>4 DEF Accounted
<1>6. ASSUME cursor' < e[2], \A q \in Proc : ~Redeems(run'[q], cursor', e) PROVE count'[e] <= Causes'
  <2>1. \A q \in Proc : ~Redeems(run[q], cursor, e)
    BY <1>6
  <2>2. count[e] <= Causes
    BY <1>6, <2>1 DEF Accounted
  <2>. QED BY <1>4, <2>2
<1>. QED BY <1>5, <1>6 DEF Accounted

(* A step that a cause pays for.                                           *)
LEMMA PaidRun ==
  ASSUME TypeOK, TypeOK', NEW p \in Proc, \A q \in Proc \ {p} : run'[q] = run[q],
         cursor' = cursor, run'[p].at \in Sets => cursor < run'[p].to,
         NEW e \in Pair, Accounted(e), count'[e] = count[e], Causes' = Causes + 1
  PROVE  Accounted(e)'
<1>1. Secure(e[2]) => Secure(e[2])'
  BY SecureStays, PairTypes
<1>2. MayAdd(e)' \subseteq MayAdd(e) \cup {p}
  BY <1>1, OthersAdd
<1>3. Cardinality(MayAdd(e)') <= Cardinality(MayAdd(e)) + 1
  BY <1>2, OneMore, PairTypes
<1>4. /\ count[e] \in Nat /\ Causes \in Nat
      /\ Cardinality(MayAdd(e)) \in Nat /\ Cardinality(MayAdd(e)') \in Nat
  BY PairTypes, NextTypes
<1>5. count'[e] + Cardinality(MayAdd(e)') <= 1 + Causes' /\ count'[e] <= Causes'
  BY <1>3, <1>4 DEF Accounted
<1>. QED BY <1>5 DEF Accounted
-----------------------------------------------------------------------------
LEMMA CausesStay ==
  ASSUME TypeOK, UNCHANGED <<faults, overlaps, again>>, NEW e \in Pair
  PROVE  Causes' >= Causes
<1>1. Causes' = Causes
  BY DEF Causes
<1>. QED BY <1>1, PairTypes

(* A run that waits for its range, and what Ranged makes of it.            *)
LEMMA RangedAdds ==
  ASSUME NEW r \in Rec, NEW d \in 0..(Days + 1), NEW e \in Pair
  PROVE  /\ Ranged(r, d).at \notin Sets /\ Ranging(Ranged(r, d))
         /\ MayCount(Ranged(r, d), e) => r.kind \notin {"recalc"} \cup Full /\ d <= e[2]
         /\ Strays(Ranged(r, d), e) => r.kind # "recalc"
<1>1. CASE d > r.to /\ r.kind # "recalc"
  <2>1. Ranged(r, d) = Over /\ Over.at = "release"
    BY <1>1 DEF Ranged, Over, NoRun
  <2>. QED BY <2>1 DEF Sets, Ranging, MayCount, Strays, Gathered
<1>2. CASE ~(d > r.to /\ r.kind # "recalc")
  <2>1. PICK s \in Rec : /\ Ranged(r, d) = s /\ s.kind = r.kind /\ s.from = d
                         /\ s.at = (IF d > r.to THEN "chunks" ELSE "aggregate")
    <3>. DEFINE s == [r EXCEPT !.from = d, !.at = IF d > r.to THEN "chunks" ELSE "aggregate"]
    <3>1. Ranged(r, d) = s
      BY <1>2 DEF Ranged
    <3>2. s.kind = r.kind /\ s.from = d /\ s.at = (IF d > r.to THEN "chunks" ELSE "aggregate")
      BY DEF Rec
    <3>3. s \in Rec
      BY <3>1, RangedTyped
    <3>. QED BY <3>1, <3>2, <3>3
  <2>2. s.at \in {"chunks", "aggregate"} /\ (s.at = "chunks" => s.kind = "recalc")
    BY <1>2, <2>1
  <2>. QED BY <2>1, <2>2 DEF Sets, Ranging, MayCount, Strays, Gathered
<1>. QED BY <1>1, <1>2

(* The run reads, and nothing else happens.                                *)
LEMMA ReadsOn ==
  ASSUME TypeOK, TypeOK', Accounts, NEW p \in Proc, \A q \in Proc \ {p} : run'[q] = run[q],
         UNCHANGED <<cursor, count, faults, overlaps, again>>,
         run'[p].at \in Sets => cursor < run'[p].to,
         NEW e \in Pair,
         MayCount(run'[p], e) \/ (~Secure(e[2]) /\ Strays(run'[p], e)) => p \in MayAdd(e),
         cursor < e[2] /\ Redeems(run[p], cursor, e) => Redeems(run'[p], cursor, e)
  PROVE  Accounted(e)'
<1>1. Secure(e[2]) => Secure(e[2])'
  BY SecureStays, PairTypes
<1>2. p \in MayAdd(e)' => p \in MayAdd(e)
  BY <1>1 DEF MayAdd
<1>3. Accounted(e) /\ count'[e] <= count[e]
  BY PairTypes DEF Accounts
<1>. QED BY <1>2, <1>3, CausesStay, QuietRun

LEMMA SomePair == \E e \in Pair : TRUE
<1>1. 1 \in Value /\ 1 \in Day
  BY Numbers DEF Day
<1>2. <<1, 1>> \in Pair
  BY <1>1 DEF Pair
<1>. QED BY <1>2

LEMMA ReadTargetAccounts ==
  ASSUME TypeOK, TypeOK', Accounts, NEW p \in Proc, ReadTarget(p)
  PROVE  Ranging(run'[p]) /\ \A e \in Pair : Accounted(e)'
<1>1. PICK r \in Rec : /\ r.kind = run[p].kind /\ r.from = run[p].from /\ r.to \in 0..Days
                       /\ \/ r.kind = "daily" /\ run'[p] = [r EXCEPT !.at = "cursor"]
                          \/ /\ r.kind # "daily"
                             /\ run'[p] = Ranged(r, IF r.from # 0 THEN r.from ELSE FirstDay(r.to))
  <2>. DEFINE r == [run[p] EXCEPT !.to = IF run[p].to = 0 THEN Yesterday ELSE run[p].to]
  <2>1. /\ r \in Rec /\ r.to \in 0..Days /\ r.from = run[p].from /\ r.kind = run[p].kind
    BY Types, Numbers DEF Rec, Yesterday, Day
  <2>2. \/ r.kind = "daily" /\ run'[p] = [r EXCEPT !.at = "cursor"]
        \/ /\ r.kind # "daily"
           /\ run'[p] = Ranged(r, IF r.from # 0 THEN r.from ELSE FirstDay(r.to))
    BY Types DEF ReadTarget, Goes
  <2>. QED BY <2>1, <2>2
<1>2. PICK d \in 0..(Days + 1) : d = IF r.from # 0 THEN r.from ELSE FirstDay(r.to)
  BY <1>1, FirstDayTyped DEF Rec
<1>3. /\ \A q \in Proc \ {p} : run'[q] = run[q]
      /\ UNCHANGED <<cursor, count, faults, overlaps, again>>
      /\ run[p].at = "target" /\ Ranging(run[p])
  BY Types DEF ReadTarget, Goes, table, history, blame, Accounts
<1>4. CASE r.kind = "daily"
  <2>1. run'[p].at = "cursor" /\ run'[p].kind = "daily"
    BY <1>1, <1>4 DEF Rec
  <2>2. Ranging(run'[p])
    BY <2>1 DEF Ranging
  <2>3. ASSUME NEW e \in Pair PROVE Accounted(e)'
    <3>1. ~Secure(e[2]) => p \in MayAdd(e)
      BY <1>1, <1>3, <1>4 DEF MayAdd, Strays
    <3>. QED BY <1>3, <2>1, <3>1, ReadsOn DEF MayCount, Strays, Redeems, Sets
  <2>. QED BY <2>2, <2>3
<1>5. CASE r.kind # "daily"
  <2>1. run'[p] = Ranged(r, d)
    BY <1>1, <1>2, <1>5
  <2>2. Ranging(run'[p]) /\ run'[p].at \notin Sets
    <3>1. PICK e \in Pair : TRUE
      BY SomePair
    <3>. QED BY <2>1, <3>1, RangedAdds
  <2>3. ASSUME NEW e \in Pair PROVE Accounted(e)'
    <3>1. ASSUME MayCount(run'[p], e) PROVE p \in MayAdd(e)
      <4>1. r.kind = "increment" /\ d <= e[2]
        BY <1>5, <2>1, <3>1, RangedAdds DEF Rec, Kind
      <4>2. d = run[p].from
        BY <1>1, <1>2, <1>3, <4>1, RunTypes DEF Ranging
      <4>. QED BY <1>1, <1>3, <4>1, <4>2 DEF MayAdd, MayCount
    <3>2. ASSUME ~Secure(e[2]), Strays(run'[p], e) PROVE p \in MayAdd(e)
      <4>1. r.kind # "recalc"
        BY <2>1, <3>2, RangedAdds
      <4>. QED BY <1>1, <1>3, <3>2, <4>1 DEF MayAdd, Strays
    <3>3. ~Redeems(run[p], cursor, e)
      BY <1>3 DEF Redeems
    <3>. QED BY <1>3, <2>2, <3>1, <3>2, <3>3, ReadsOn
  <2>. QED BY <2>2, <2>3
<1>. QED BY <1>4, <1>5

LEMMA ReadCursorAccounts ==
  ASSUME TypeOK, TypeOK', Accounts, NEW p \in Proc, ReadCursor(p)
  PROVE  Ranging(run'[p]) /\ \A e \in Pair : Accounted(e)'
<1>. DEFINE r == run[p]
<1>1. r \in Rec /\ r.at = "cursor" /\ r.to \in 0..Days /\ cursor \in Nat
  BY Types, Numbers DEF ReadCursor, Rec
<1>2. PICK d \in 0..(Days + 1) : d = IF cursor # 0 THEN cursor + 1 ELSE FirstDay(r.to)
  BY <1>1, Types, FirstDayTyped, Numbers
<1>3. /\ \A q \in Proc \ {p} : run'[q] = run[q]
      /\ UNCHANGED <<cursor, count, faults, overlaps, again>>
  BY Types DEF ReadCursor, Goes, table, history, blame
<1>4. \/ run'[p] = Over
      \/ r.kind = "increment" /\ cursor # 0 /\ run'[p] = [r EXCEPT !.from = cursor + 1, !.at = "target"]
      \/ r.kind # "increment" /\ run'[p] = Ranged(r, d)
  BY <1>2, Types DEF ReadCursor, Goes
(* Until it has read the cursor, only an insecure event may be added.      *)
<1>5. ASSUME NEW e \in Pair, r.kind # "recalc", ~Secure(e[2]) PROVE p \in MayAdd(e)
  BY <1>1, <1>5 DEF MayAdd, Strays
<1>6. ASSUME NEW e \in Pair PROVE ~Redeems(r, cursor, e)
  BY <1>1 DEF Redeems
<1>7. ASSUME NEW e \in Pair, Secure(e[2]) PROVE cursor # 0 /\ cursor + 1 > e[2]
  BY <1>1, <1>7, PairTypes DEF Secure
<1>8. CASE run'[p] = Over
  <2>1. run'[p].at = "release"
    BY <1>8 DEF Over, NoRun
  <2>2. Ranging(run'[p])
    BY <2>1 DEF Ranging
  <2>3. ASSUME NEW e \in Pair PROVE Accounted(e)'
    BY <1>3, <1>6, <2>1, ReadsOn DEF MayCount, Strays, Sets, Gathered
  <2>. QED BY <2>2, <2>3
<1>9. CASE r.kind = "increment" /\ cursor # 0 /\ run'[p] = [r EXCEPT !.from = cursor + 1, !.at = "target"]
  <2>1. run'[p].at = "target" /\ run'[p].kind = "increment" /\ run'[p].from = cursor + 1
    BY <1>1, <1>9 DEF Rec
  <2>2. Ranging(run'[p])
    BY <1>1, <2>1 DEF Ranging
  <2>3. ASSUME NEW e \in Pair PROVE Accounted(e)'
    <3>1. MayCount(run'[p], e) => ~Secure(e[2])
      BY <1>1, <1>7, <2>1, PairTypes DEF MayCount
    <3>2. run'[p].at \notin Sets
      BY <2>1 DEF Sets
    <3>. QED BY <1>3, <1>5, <1>6, <1>9, <3>1, <3>2, ReadsOn
  <2>. QED BY <2>2, <2>3
<1>10. CASE r.kind # "increment" /\ run'[p] = Ranged(r, d)
  <2>2. Ranging(run'[p]) /\ run'[p].at \notin Sets
    <3>1. PICK e \in Pair : TRUE
      BY SomePair
    <3>. QED BY <1>1, <1>10, <3>1, RangedAdds
  <2>3. ASSUME NEW e \in Pair PROVE Accounted(e)'
    <3>1. ASSUME MayCount(run'[p], e) PROVE r.kind # "recalc" /\ ~Secure(e[2])
      <4>1. r.kind # "recalc" /\ d <= e[2]
        BY <1>1, <1>10, <3>1, RangedAdds
      <4>. QED BY <1>1, <1>2, <1>7, <4>1, PairTypes
    <3>2. Strays(run'[p], e) => r.kind # "recalc"
      BY <1>1, <1>10, RangedAdds
    <3>. QED BY <1>3, <1>5, <1>6, <2>2, <3>1, <3>2, ReadsOn
  <2>. QED BY <2>2, <2>3
<1>. QED BY <1>4, <1>8, <1>9, <1>10
LEMMA AggregateAccounts ==
  ASSUME TypeOK, TypeOK', Accounts, NEW p \in Proc, Aggregate(p)
  PROVE  Ranging(run'[p]) /\ \A e \in Pair : Accounted(e)'
<1>. DEFINE r == run[p]
            rows == {e \in log : r.from <= e[2] /\ e[2] <= r.to}
<1>1. r \in Rec /\ r.at = "aggregate" /\ r.from \in Nat /\ r.to \in Nat /\ log \subseteq Pair
  BY Types, RunTypes DEF Aggregate
<1>2. /\ \A q \in Proc \ {p} : run'[q] = run[q]
      /\ UNCHANGED <<cursor, count, faults, overlaps>>
  BY Types DEF Aggregate, Goes, table
<1>3. again' = IF r.kind \in Full /\ r.from <= cursor THEN again + 1 ELSE again
  BY DEF Aggregate
<1>4. /\ run'[p].kind = r.kind /\ run'[p].from = r.from /\ run'[p].to = r.to
      /\ run'[p].at \in {"chunks", "deleted", "getCursor"} /\ run'[p].rows \subseteq rows
  <2>1. CASE r.kind = "recalc"
    <3>1. run'[p] = [r EXCEPT !.at = "chunks", !.rows = {e \in rows : e[1] = r.value}]
      BY <2>1, Types DEF Aggregate, Goes
    <3>. QED BY <1>1, <3>1 DEF Rec
  <2>2. CASE r.kind # "recalc"
    <3>1. run'[p] = [r EXCEPT !.at = IF rows = {} THEN "getCursor" ELSE "deleted", !.rows = rows]
      BY <2>2, Types DEF Aggregate, Goes
    <3>. QED BY <1>1, <3>1 DEF Rec
  <2>. QED BY <2>1, <2>2
<1>5. Ranging(run'[p])
  BY <1>1, <1>4 DEF Ranging
<1>6. run'[p].at \notin Sets
  BY <1>4 DEF Sets
<1>7. ASSUME NEW e \in Pair PROVE Accounted(e)'
  <2>1. CASE r.kind \in Full /\ r.from <= cursor
    <3>1. Causes' = Causes + 1
      BY <1>2, <1>3, <2>1, Types, UtmAssumption DEF Causes
    <3>. QED BY <1>2, <1>6, <3>1, PaidRun DEF Accounts
  <2>2. CASE ~(r.kind \in Full /\ r.from <= cursor)
    <3>1. ASSUME MayCount(run'[p], e) PROVE p \in MayAdd(e)
      <4>1. r.kind # "recalc" /\ r.from <= e[2]
        BY <1>4, <3>1 DEF MayCount
      <4>2. CASE r.kind \notin Full
        BY <1>1, <4>1, <4>2 DEF MayAdd, MayCount
      <4>3. CASE r.kind \in Full
        <5>1. ~Secure(e[2])
          BY <1>1, <2>2, <4>1, <4>3, PairTypes DEF Secure
        <5>. QED BY <1>1, <4>1, <5>1 DEF MayAdd, Strays
      <4>. QED BY <4>2, <4>3
    <3>2. ASSUME ~Secure(e[2]), Strays(run'[p], e) PROVE p \in MayAdd(e)
      BY <1>1, <1>4, <3>2 DEF MayAdd, Strays
    <3>3. ~Redeems(r, cursor, e)
      BY <1>1 DEF Redeems
    <3>4. again' = again
      BY <1>3, <2>2
    <3>. QED BY <1>2, <1>6, <3>1, <3>2, <3>3, <3>4, ReadsOn
  <2>. QED BY <2>1, <2>2
<1>. QED BY <1>5, <1>7

LEMMA ReadDeletedAccounts ==
  ASSUME TypeOK, TypeOK', Accounts, NEW p \in Proc, ReadDeleted(p)
  PROVE  Ranging(run'[p]) /\ \A e \in Pair : Accounted(e)'
<1>. DEFINE r == run[p]
            skipped == {e \in r.rows : e[1] \in deleted}
<1>1. r \in Rec /\ r.at = "deleted" /\ Ranging(r)
  BY Types DEF ReadDeleted, Accounts
<1>2. /\ \A q \in Proc \ {p} : run'[q] = run[q]
      /\ UNCHANGED <<cursor, count, faults, overlaps, again>>
  BY Types DEF ReadDeleted, Goes, table, blame
<1>3. /\ run'[p].kind = r.kind /\ run'[p].to = r.to /\ run'[p].rows = r.rows \ skipped
      /\ run'[p].at \in {"chunks", "getCursor"} /\ (run'[p].at = "getCursor" => run'[p].rows = {})
  <2>1. run'[p] = [r EXCEPT !.at = IF r.rows = skipped THEN "getCursor" ELSE "chunks",
                            !.rows = r.rows \ skipped]
    BY Types DEF ReadDeleted, Goes
  <2>. QED BY <1>1, <2>1 DEF Rec
<1>4. Ranging(run'[p])
  BY <1>1, <1>3 DEF Ranging
<1>5. ASSUME NEW e \in Pair PROVE Accounted(e)'
  <2>1. MayCount(run'[p], e) => p \in MayAdd(e)
    BY <1>1, <1>3 DEF MayAdd, MayCount
  <2>2. ~Secure(e[2]) /\ Strays(run'[p], e) => p \in MayAdd(e)
    BY <1>1, <1>3 DEF MayAdd, Strays, Gathered
  <2>3. Redeems(r, cursor, e) => Redeems(run'[p], cursor, e)
    BY <1>1, <1>3 DEF Redeems
  <2>4. run'[p].at \notin Sets
    BY <1>3 DEF Sets
  <2>. QED BY <1>2, <2>1, <2>2, <2>3, <2>4, ReadsOn
<1>. QED BY <1>4, <1>5

(* A row written: what the run might add, it has added.                    *)
LEMMA WriteChunkAccounts ==
  ASSUME TypeOK, TypeOK', Accounts, NEW p \in Proc, WriteChunk(p)
  PROVE  Ranging(run'[p]) /\ \A e \in Pair : Accounted(e)'
<1>. DEFINE r == run[p]
            chunk == Chunk(r.rows)
<1>1. r \in Rec /\ r.at = "chunks" /\ r.kind # "recalc" /\ Ranging(r) /\ chunk \subseteq r.rows
  BY Types DEF WriteChunk, Accounts, Chunk
<1>2. /\ \A q \in Proc \ {p} : run'[q] = run[q]
      /\ UNCHANGED <<cursor, faults, overlaps, again>>
  BY Types DEF WriteChunk, Goes, history, blame
<1>3. \A e \in Pair : count'[e] = IF e \in chunk THEN count[e] + 1 ELSE count[e]
  BY DEF WriteChunk
<1>4. /\ run'[p].kind = r.kind /\ run'[p].to = r.to /\ run'[p].rows = r.rows \ chunk
      /\ run'[p].at \in {"chunks", "getCursor"}
  <2>1. run'[p] = [r EXCEPT !.at = IF r.rows = chunk THEN "getCursor" ELSE "chunks",
                            !.rows = r.rows \ chunk]
    BY Types DEF WriteChunk, Goes
  <2>. QED BY <1>1, <2>1 DEF Rec
<1>. HIDE DEF chunk
<1>5. Ranging(run'[p])
  BY <1>1, <1>4 DEF Ranging
<1>6. run'[p].at \notin Sets
  BY <1>4 DEF Sets
<1>7. ASSUME NEW e \in Pair, e \notin chunk PROVE Accounted(e)'
  <2>1. p \in MayAdd(e)' => p \in MayAdd(e)
    <3>1. Secure(e[2]) => Secure(e[2])'
      BY <1>2, <1>6, SecureStays, PairTypes
    <3>2. MayCount(run'[p], e) => MayCount(r, e)
      BY <1>1, <1>4 DEF MayCount
    <3>3. Strays(run'[p], e) => Strays(r, e)
      BY <1>1, <1>4 DEF Strays, Gathered
    <3>. QED BY <3>1, <3>2, <3>3 DEF MayAdd
  <2>2. Redeems(r, cursor, e) => Redeems(run'[p], cursor, e)
    BY <1>1, <1>4 DEF Redeems
  <2>3. Accounted(e) /\ count'[e] <= count[e]
    BY <1>3, <1>7, PairTypes DEF Accounts
  <2>. QED BY <1>2, <1>6, <2>1, <2>2, <2>3, CausesStay, QuietRun
<1>8. ASSUME NEW e \in Pair, e \in chunk PROVE Accounted(e)'
  <2>1. e[2] <= r.to /\ e \in r.rows
    BY <1>1, <1>8 DEF Ranging
  <2>2. p \in MayAdd(e)
    BY <1>1, <2>1 DEF MayAdd, MayCount
  <2>3. p \notin MayAdd(e)'
    <3>1. ~MayCount(run'[p], e)
      BY <1>4, <1>8 DEF MayCount
    <3>2. ~Strays(run'[p], e)
      BY <1>4, <2>1, RunTypes, PairTypes DEF Strays, Gathered
    <3>. QED BY <3>1, <3>2 DEF MayAdd
  <2>4. MayAdd(e)' \subseteq MayAdd(e) \ {p}
    <3>1. Secure(e[2]) => Secure(e[2])'
      BY <1>2, <1>6, SecureStays, PairTypes
    <3>. QED BY <1>2, <2>3, <3>1, OthersAdd
  <2>5. Cardinality(MayAdd(e)') + 1 <= Cardinality(MayAdd(e))
    BY <2>2, <2>4, OneLess, PairTypes, NextTypes
  <2>6. /\ count[e] \in Nat /\ Causes \in Nat /\ Cardinality(MayAdd(e)) \in Nat
        /\ Cardinality(MayAdd(e)') \in Nat
    BY PairTypes, NextTypes
  <2>7. Causes' = Causes
    BY <1>2 DEF Causes
  <2>8. count'[e] + Cardinality(MayAdd(e)') <= 1 + Causes'
    <3>1. count[e] + Cardinality(MayAdd(e)) <= 1 + Causes
      BY DEF Accounts, Accounted
    <3>. QED BY <1>3, <1>8, <2>5, <2>6, <2>7, <3>1
  <2>9. Redeems(run'[p], cursor', e)
    BY <1>1, <1>4, <1>8, <2>1, RunTypes, PairTypes DEF Redeems
  <2>. QED BY <2>8, <2>9 DEF Accounted
<1>. QED BY <1>5, <1>7, <1>8
(* A run that is over adds nothing.                                        *)
LEMMA OverAdds ==
  ASSUME NEW r \in {Over, NoRun}, NEW e
  PROVE  Ranging(r) /\ r.at \notin Sets /\ ~MayCount(r, e) /\ ~Strays(r, e) /\ ~Redeems(r, cursor', e)
<1>1. r.at \in {"idle", "release"}
  BY DEF Over, NoRun
<1>. QED BY <1>1 DEF Ranging, Sets, MayCount, Strays, Redeems, Gathered

(* A total that is replaced contains an event once: what others may still  *)
(* add has been paid for when they started while another was under way.    *)
LEMMA WriteRecalcAccounts ==
  ASSUME TypeOK, TypeOK', Accounts, NEW p \in Proc, WriteRecalc(p)
  PROVE  Ranging(run'[p]) /\ \A e \in Pair : Accounted(e)'
<1>. DEFINE r == run[p]
            mine == {e \in Pair : e[1] = r.value}
<1>1. r \in Rec /\ r.at = "chunks" /\ r.kind = "recalc"
  BY Types DEF WriteRecalc
<1>2. run'[p] = Over /\ (\A q \in Proc \ {p} : run'[q] = run[q]) /\ UNCHANGED <<cursor, faults, overlaps>>
  BY Types DEF WriteRecalc, Goes
<1>3. \A e \in Pair : count'[e] = IF e \in mine THEN (IF e \in r.rows THEN 1 ELSE 0) ELSE count[e]
  BY DEF WriteRecalc
<1>4. again' = IF \E e \in r.rows : e[2] > cursor THEN again + 1 ELSE again
  BY DEF WriteRecalc
<1>5. Ranging(run'[p]) /\ run'[p].at \notin Sets
  BY <1>2, SomePair, OverAdds
<1>6. Causes' >= Causes
  <2>1. Causes' \in {Causes, Causes + 1} /\ Causes \in Nat
    BY <1>2, <1>4, Types, UtmAssumption DEF Causes
  <2>. QED BY <2>1
<1>7. ASSUME NEW e \in Pair PROVE Accounted(e)'
  <2>1. p \notin MayAdd(e)'
    BY <1>2, OverAdds DEF MayAdd
  <2>2. CASE count'[e] <= count[e]
    <3>1. ~Redeems(r, cursor, e)
      BY <1>1 DEF Redeems
    <3>. QED BY <1>2, <1>5, <1>6, <2>1, <2>2, <3>1, QuietRun DEF Accounts
  <2>3. CASE ~(count'[e] <= count[e])
    <3>1. e \in r.rows /\ count'[e] = 1
      <4>1. count[e] \in Nat
        BY PairTypes
      <4>. QED BY <1>3, <2>3, <4>1
    <3>2. p \in Running /\ Running \in SUBSET Proc
      BY <1>1 DEF Running
    <3>3. MayAdd(e)' \subseteq Running \ {p}
      <4>1. ASSUME NEW q \in MayAdd(e)', q # p PROVE q \in Running
        <5>1. q \in Proc /\ run'[q] = run[q]
          BY <1>2, <4>1 DEF MayAdd
        <5>2. MayCount(run[q], e) \/ Strays(run[q], e)
          BY <5>1 DEF MayAdd
        <5>. QED BY <5>1, <5>2 DEF MayCount, Strays, Gathered, Running
      <4>. QED BY <2>1, <4>1
    <3>4. Cardinality(MayAdd(e)') + 1 <= Cardinality(Running)
      BY <3>2, <3>3, OneLess, NextTypes
    <3>5. Cardinality(Running) <= 1 + overlaps
      BY DEF Accounts
    <3>6. Cardinality(Running) \in Nat /\ Cardinality(MayAdd(e)') \in Nat
      BY <3>2, ProcSets, NextTypes
    <3>7. /\ faults \in Nat /\ overlaps \in Nat /\ again \in Nat
          /\ again' \in {again, again + 1} /\ (cursor < e[2] => again' = again + 1)
      BY <1>4, <3>1, Types, UtmAssumption, PairTypes
    <3>8. Causes' = faults + overlaps + again'
      BY <1>2 DEF Causes
    <3>9. count'[e] + Cardinality(MayAdd(e)') <= 1 + Causes'
      BY <3>1, <3>4, <3>5, <3>6, <3>7, <3>8
    <3>10. ASSUME cursor < e[2] PROVE count'[e] <= Causes'
      <4>1. Causes' = faults + overlaps + (again + 1)
        BY <3>7, <3>8, <3>10
      <4>2. 1 <= faults + overlaps + (again + 1)
        BY <3>7
      <4>. QED BY <3>1, <4>1, <4>2
    <3>. QED BY <1>2, <3>9, <3>10 DEF Accounted
  <2>. QED BY <2>2, <2>3
<1>. QED BY <1>5, <1>7

LEMMA GetCursorAccounts ==
  ASSUME TypeOK, TypeOK', Held, Accounts, NEW p \in Proc, GetCursor(p)
  PROVE  Ranging(run'[p]) /\ \A e \in Pair : Accounted(e)'
<1>. DEFINE r == run[p]
<1>1. /\ r \in Rec /\ r.at = "getCursor" /\ r.kind # "recalc" /\ r.to \in Nat /\ cursor \in Nat
  BY RunTypes, SomePair, PairTypes DEF GetCursor, Held, InOrder, Ends
<1>2. /\ \A q \in Proc \ {p} : run'[q] = run[q]
      /\ UNCHANGED <<cursor, count, faults, overlaps, again>>
  BY Types DEF GetCursor, Goes, table, blame
<1>3. CASE cursor >= r.to
  <2>1. run'[p] = Over
    BY <1>3, Types DEF GetCursor, Goes
  <2>2. Ranging(run'[p]) /\ run'[p].at \notin Sets
    BY <2>1, SomePair, OverAdds
  <2>3. ASSUME NEW e \in Pair PROVE Accounted(e)'
    <3>1. ~(cursor < e[2] /\ Redeems(r, cursor, e))
      BY <1>1, <1>3, PairTypes DEF Redeems
    <3>. QED BY <1>2, <2>1, <2>2, <3>1, OverAdds, ReadsOn
  <2>. QED BY <2>2, <2>3
<1>4. CASE ~(cursor >= r.to)
  <2>1. /\ run'[p].at = (IF cursor = 0 THEN "insertCursor" ELSE "setCursor")
        /\ run'[p].kind = r.kind /\ run'[p].to = r.to
    <3>1. run'[p] = [r EXCEPT !.at = IF cursor = 0 THEN "insertCursor" ELSE "setCursor"]
      BY <1>4, Types DEF GetCursor, Goes
    <3>. QED BY <1>1, <3>1 DEF Rec
  <2>2. Ranging(run'[p]) /\ (run'[p].at \in Sets => cursor < run'[p].to)
    BY <1>1, <1>4, <2>1 DEF Ranging
  <2>3. ASSUME NEW e \in Pair PROVE Accounted(e)'
    <3>1. ~MayCount(run'[p], e)
      BY <2>1 DEF MayCount
    <3>2. ~Secure(e[2]) /\ Strays(run'[p], e) => p \in MayAdd(e)
      BY <1>1, <2>1 DEF MayAdd, Strays, Gathered
    <3>3. Redeems(r, cursor, e) => Redeems(run'[p], cursor, e)
      BY <1>1, <2>1 DEF Redeems
    <3>. QED BY <1>2, <2>2, <3>1, <3>2, <3>3, ReadsOn
  <2>. QED BY <2>2, <2>3
<1>. QED BY <1>3, <1>4

(* The cursor moves, past an event or back before it; a run that takes it  *)
(* back might have added the event, and leaves that to the next.           *)
LEMMA SetCursorAccounts ==
  ASSUME TypeOK, TypeOK', Held, Accounts, NEW p \in Proc, SetCursor(p)
  PROVE  Ranging(run'[p]) /\ \A e \in Pair : Accounted(e)'
<1>. DEFINE r == run[p]
<1>1. /\ r \in Rec /\ r.at \in Sets /\ r.kind # "recalc" /\ r.to \in Nat /\ cursor \in Nat
  BY RunTypes, SomePair, PairTypes DEF SetCursor, Held, InOrder, Ends, Sets
<1>2. /\ run'[p] = Over /\ \A q \in Proc \ {p} : run'[q] = run[q]
      /\ UNCHANGED <<count, faults, overlaps, again>>
  BY Types DEF SetCursor, Goes, blame
<1>3. Ranging(run'[p]) /\ run'[p].at \notin Sets
  BY <1>2, SomePair, OverAdds
<1>4. CASE r.at = "insertCursor" /\ cursor # 0
  <2>1. cursor' = cursor
    BY <1>4 DEF SetCursor
  <2>2. ASSUME NEW e \in Pair PROVE Accounted(e)'
    <3>1. ~Redeems(r, cursor, e)
      BY <1>4 DEF Redeems
    <3>. QED BY <1>2, <1>3, <2>1, <3>1, OverAdds, ReadsOn
  <2>. QED BY <1>3, <2>2
<1>5. CASE ~(r.at = "insertCursor" /\ cursor # 0)
  <2>1. cursor' = r.to
    BY <1>5 DEF SetCursor
  <2>2. ASSUME NEW e \in Pair PROVE Accounted(e)'
    <3>1. Secure(e[2]) => Secure(e[2])'
      <4>1. Secure(e[2]) => r.to >= e[2]
        BY <1>1 DEF Secure
      <4>. QED BY <1>2, <1>3, <2>1, <4>1 DEF Secure
    <3>2. p \notin MayAdd(e)'
      BY <1>2, OverAdds DEF MayAdd
    <3>3. MayAdd(e)' \subseteq MayAdd(e)
      BY <1>2, <3>1, <3>2, OthersAdd
    <3>4. Causes' = Causes
      BY <1>2 DEF Causes
    <3>5. /\ count[e] \in Nat /\ Causes \in Nat /\ Cardinality(MayAdd(e)) \in Nat
          /\ Cardinality(MayAdd(e)') \in Nat /\ e[2] \in Nat
      BY PairTypes, NextTypes
    <3>6. count[e] + Cardinality(MayAdd(e)) <= 1 + Causes
      BY DEF Accounts, Accounted
    <3>7. Cardinality(MayAdd(e)') <= Cardinality(MayAdd(e))
      BY <3>3, Fewer, PairTypes, NextTypes
    <3>8. count'[e] + Cardinality(MayAdd(e)') <= 1 + Causes'
      BY <1>2, <3>4, <3>5, <3>6, <3>7
    <3>9. ASSUME cursor' < e[2] PROVE count'[e] <= Causes'
      <4>1. r.to < e[2]
        BY <2>1, <3>9
      <4>2. ~Secure(e[2])
        BY <1>1, <3>5, <4>1 DEF Secure
      <4>3. p \in MayAdd(e)
        BY <1>1, <4>1, <4>2 DEF MayAdd, Strays, Gathered, Sets
      <4>4. Cardinality({}) + 1 <= Cardinality(MayAdd(e))
        BY <4>3, OneLess, PairTypes
      <4>5. Cardinality(MayAdd(e)) >= 1
        BY <3>5, <4>4, FS_EmptySet
      <4>. QED BY <1>2, <3>4, <3>5, <3>6, <4>5
    <3>. QED BY <3>8, <3>9 DEF Accounted
  <2>. QED BY <1>3, <2>2
<1>. QED BY <1>4, <1>5

LEMMA StopAccounts ==
  ASSUME TypeOK, TypeOK', Accounts, NEW p \in Proc, Release(p) \/ Fails(p) \/ Dies(p)
  PROVE  Ranging(run'[p]) /\ \A e \in Pair : Accounted(e)'
<1>1. /\ run'[p] \in {Over, NoRun} /\ \A q \in Proc \ {p} : run'[q] = run[q]
      /\ UNCHANGED <<cursor, count, overlaps, again>>
  BY Types DEF Release, Fails, Dies, Goes, table, history, blame
<1>2. Ranging(run'[p]) /\ run'[p].at \notin Sets
  BY <1>1, SomePair, OverAdds
<1>3. CASE Release(p)
  <2>1. run[p].at = "release" /\ faults' = faults
    BY <1>3 DEF Release, history, blame
  <2>2. ASSUME NEW e \in Pair PROVE Accounted(e)'
    <3>1. ~Redeems(run[p], cursor, e)
      BY <2>1 DEF Redeems
    <3>. QED BY <1>1, <1>2, <2>1, <3>1, OverAdds, ReadsOn
  <2>. QED BY <1>2, <2>2
<1>4. CASE Fails(p) \/ Dies(p)
  <2>1. Causes' = Causes + 1
    <3>1. faults' = faults + 1
      BY <1>4 DEF Fails, Dies, Fault
    <3>. QED BY <1>1, <3>1, Types, UtmAssumption DEF Causes
  <2>2. ASSUME NEW e \in Pair PROVE Accounted(e)'
    BY <1>1, <1>2, <2>1, PaidRun DEF Accounts
  <2>. QED BY <1>2, <2>2
<1>. QED BY <1>3, <1>4
(* A run starts: alone, it takes the place of the next; else it is paid.   *)
LEMMA StartAccounts ==
  ASSUME TypeOK, TypeOK', Accounts, NEW p \in Proc, Start(p)
  PROVE  Ranging(run'[p]) /\ (\A e \in Pair : Accounted(e)') /\ Cardinality(Running') <= 1 + overlaps'
<1>1. /\ run'[p].at \in {"target", "cursor"} /\ \A q \in Proc \ {p} : run'[q] = run[q]
      /\ overlaps' = IF Running = {} THEN overlaps ELSE overlaps + 1
      /\ Running' \subseteq Running \cup {p} /\ cursor' = cursor
  BY StartMoves
<1>2. UNCHANGED <<count, faults, again>>
  BY DEF Start, StartDaily, StartFull, StartIncrement, StartRecalc, Ask, table
<1>3. run'[p].at = "target" => run'[p].kind # "increment"
  <2>1. ASSUME NEW r \in Rec, TakeLock(p, r), r.at = "cursor" \/ r.kind # "increment"
        PROVE  run'[p].at = "target" => run'[p].kind # "increment"
    BY <2>1, Types DEF TakeLock, Begin
  <2>2. CASE StartDaily(p)
    <3>1. PICK r \in Rec : TakeLock(p, r) /\ r.kind = "daily"
      <4>. DEFINE r == [NoRun EXCEPT !.at = "target", !.kind = "daily"]
      <4>1. r \in Rec /\ r.kind = "daily"
        BY NoRunTyped DEF Rec, At, Kind
      <4>. QED BY <2>2, <4>1 DEF StartDaily
    <3>. QED BY <2>1, <3>1
  <2>3. ASSUME NEW kind \in Kind, NEW at \in {"target", "cursor"}, NEW v \in Value, NEW f \in 0..Days,
               NEW t \in 0..Days, Ask(p, kind, at, v, f, t), at = "cursor" \/ kind # "increment"
        PROVE  run'[p].at = "target" => run'[p].kind # "increment"
    <3>. DEFINE r == [at |-> at, kind |-> kind, value |-> v, from |-> f, to |-> t, rows |-> {}]
    <3>1. f \in 0..(Days + 1) /\ at \in At
      BY Numbers DEF At
    <3>2. r \in Rec /\ (r.at = "cursor" \/ r.kind # "increment") /\ TakeLock(p, r)
      BY <2>3, <3>1 DEF Rec, Ask
    <3>. HIDE DEF r
    <3>. QED BY <2>1, <3>2
  <2>4. 0 \in 0..Days /\ {"full", "from", "increment", "recalc"} \subseteq Kind
    BY Numbers DEF Kind, Full
  <2>5. CASE StartFull(p)
    BY <2>3, <2>4, <2>5, Numbers DEF StartFull
  <2>6. CASE StartIncrement(p)
    BY <2>3, <2>4, <2>6, Numbers DEF StartIncrement
  <2>7. CASE StartRecalc(p)
    BY <2>3, <2>4, <2>7, Types DEF StartRecalc
  <2>. QED BY <2>2, <2>5, <2>6, <2>7 DEF Start
<1>4. Ranging(run'[p]) /\ run'[p].at \notin Sets
  BY <1>1, <1>3 DEF Ranging, Sets
<1>5. Running \in SUBSET Proc /\ Running' \in SUBSET Proc
  BY DEF Running
<1>6. CASE Running = {}
  <2>1. Cardinality(Running') <= 1 + overlaps'
    <3>1. Cardinality(Running') <= Cardinality(Running) + 1
      BY <1>1, <1>5, OneMore
    <3>2. Cardinality(Running) = 0 /\ overlaps' \in Nat /\ Cardinality(Running') \in Nat
      BY <1>1, <1>5, <1>6, FS_EmptySet, Types, UtmAssumption, ProcSets
    <3>. QED BY <3>1, <3>2
  <2>2. \A q \in Proc : run[q].at = "idle"
    BY <1>6 DEF Running
  <2>3. ASSUME NEW e \in Pair PROVE Accounted(e)'
    <3>1. (\A q \in Proc : ~Redeems(run[q], cursor, e)) /\ MayAdd(e) = {}
      BY <2>2 DEF Redeems, MayAdd, MayCount, Strays, Gathered
    <3>2. Secure(e[2]) <=> cursor >= e[2]
      BY <2>2 DEF Secure, Sets
    <3>3. Causes' = Causes
      BY <1>1, <1>2, <1>6 DEF Causes
    <3>4. CASE cursor >= e[2]
      <4>1. Secure(e[2])'
        BY <1>1, <1>4, <3>2, <3>4, SecureStays, PairTypes
      <4>2. p \notin MayAdd(e)'
        BY <1>1, <1>3, <4>1 DEF MayAdd, MayCount
      <4>3. Causes' >= Causes /\ count'[e] <= count[e]
        BY <1>2, <3>3, PairTypes
      <4>. QED BY <1>1, <1>4, <3>1, <4>2, <4>3, QuietRun DEF Accounts
    <3>5. CASE ~(cursor >= e[2])
      <4>1. count[e] <= Causes
        BY <3>1, <3>5, PairTypes DEF Accounts, Accounted
      <4>2. MayAdd(e)' \subseteq {} \cup {p}
        BY <1>1, <2>2 DEF MayAdd, MayCount, Strays, Gathered
      <4>3. Cardinality(MayAdd(e)') <= Cardinality({}) + 1
        BY <4>2, OneMore, NextTypes
      <4>4. Cardinality(MayAdd(e)') <= 1
        BY <4>3, FS_EmptySet
      <4>5. count[e] \in Nat /\ Causes \in Nat /\ Cardinality(MayAdd(e)') \in Nat
        BY PairTypes, NextTypes
      <4>6. count'[e] + Cardinality(MayAdd(e)') <= 1 + Causes' /\ count'[e] <= Causes'
        BY <1>2, <3>3, <4>1, <4>4, <4>5
      <4>. QED BY <4>6 DEF Accounted
    <3>. QED BY <3>4, <3>5
  <2>. QED BY <1>4, <2>1, <2>3
<1>7. CASE Running # {}
  <2>1. Cardinality(Running') <= 1 + overlaps'
    <3>1. Cardinality(Running') <= Cardinality(Running) + 1
      BY <1>1, <1>5, OneMore
    <3>2. /\ overlaps \in Nat /\ overlaps' = overlaps + 1
          /\ Cardinality(Running) \in Nat /\ Cardinality(Running') \in Nat
          /\ Cardinality(Running) <= 1 + overlaps
      BY <1>1, <1>5, <1>7, Types, UtmAssumption, ProcSets DEF Accounts
    <3>. QED BY <3>1, <3>2
  <2>2. Causes' = Causes + 1
    BY <1>1, <1>2, <1>7, Types, UtmAssumption DEF Causes
  <2>3. ASSUME NEW e \in Pair PROVE Accounted(e)'
    BY <1>1, <1>2, <1>4, <2>2, PaidRun DEF Accounts
  <2>. QED BY <1>4, <2>1, <2>3
<1>. QED BY <1>6, <1>7

(* Nothing of a run moves; a key that expires under one is a fault.        *)
LEMMA WorldAccounts ==
  ASSUME TypeOK, TypeOK', Accounts, UNCHANGED <<run, count, cursor, overlaps, again>>,
         faults' >= faults
  PROVE  Accounts'
<1>1. Running' = Running
  BY DEF Running
<1>2. ASSUME NEW e \in Pair PROVE Accounted(e)'
  <2>1. MayAdd(e)' = MayAdd(e)
    BY DEF MayAdd, Secure
  <2>2. Causes' >= Causes
    <3>1. faults \in Nat /\ overlaps \in Nat /\ again \in Nat /\ faults' \in Nat
      BY Types, UtmAssumption DEF TypeOK
    <3>2. Causes' = faults' + overlaps + again /\ Causes = faults + overlaps + again
      BY DEF Causes
    <3>3. \A f, g, o, a \in Nat : g >= f => g + o + a >= f + o + a
      OBVIOUS
    <3>4. faults' + overlaps + again >= faults + overlaps + again
      BY <3>1, <3>3
    <3>. QED BY <3>2, <3>4, Zenon
  <2>3. Causes \in Nat /\ Causes' \in Nat /\ count[e] \in Nat /\ Cardinality(MayAdd(e)) \in Nat
    BY PairTypes, NextTypes
  <2>4. Accounted(e)
    BY DEF Accounts
  <2>5. count'[e] + Cardinality(MayAdd(e)') <= 1 + Causes'
    BY <2>1, <2>2, <2>3, <2>4 DEF Accounted
  <2>6. cursor' < e[2] /\ (\A p \in Proc : ~Redeems(run'[p], cursor', e)) => count'[e] <= Causes'
    BY <2>2, <2>3, <2>4 DEF Accounted
  <2>. QED BY <2>5, <2>6 DEF Accounted
<1>. QED BY <1>1, <1>2 DEF Accounts

LEMMA AccountsKept == TypeOK /\ TypeOK' /\ Held /\ Accounts /\ [Next]_vars => Accounts'
<1>. SUFFICES ASSUME TypeOK, TypeOK', Held, Accounts, [Next]_vars PROVE Accounts'
  OBVIOUS
<1>1. ASSUME NEW p \in Proc, Start(p) PROVE Accounts'
  <2>1. \A q \in Proc \ {p} : run'[q] = run[q]
    BY <1>1, StartMoves
  <2>. QED BY <1>1, <2>1, StartAccounts DEF Accounts
<1>2. ASSUME NEW p \in Proc, Read(p) \/ Write(p) \/ Fails(p) \/ Dies(p) PROVE Accounts'
  <2>1. Ranging(run'[p]) /\ \A e \in Pair : Accounted(e)'
    BY <1>2, ReadTargetAccounts, ReadCursorAccounts, AggregateAccounts, ReadDeletedAccounts,
       GetCursorAccounts, WriteChunkAccounts, WriteRecalcAccounts, SetCursorAccounts, StopAccounts
       DEF Read, Write
  <2>2. /\ Running' \subseteq Running /\ overlaps' = overlaps
        /\ \A q \in Proc \ {p} : run'[q] = run[q]
    BY <1>2, OneMoves
  <2>3. Cardinality(Running') <= 1 + overlaps'
    <3>1. Running \in SUBSET Proc /\ Running' \in SUBSET Proc /\ overlaps \in Nat
      BY Types, UtmAssumption DEF Running
    <3>2. Cardinality(Running') <= Cardinality(Running) /\ Cardinality(Running) <= 1 + overlaps
      BY <2>2, <3>1, Fewer DEF Accounts
    <3>3. Cardinality(Running) \in Nat /\ Cardinality(Running') \in Nat
      BY <3>1, ProcSets
    <3>. QED BY <2>2, <3>1, <3>2, <3>3
  <2>. QED BY <2>1, <2>2, <2>3 DEF Accounts
<1>3. CASE LockExpires \/ Midnight \/ UNCHANGED vars
           \/ \E v \in Value : Remove(v) \/ Restore(v) \/ \E d \in Day : Arrives(v, d)
  <2>1. UNCHANGED <<run, count, cursor, overlaps, again>> /\ faults' \in {faults, faults + 1}
    BY <1>3 DEF LockExpires, Fault, Midnight, Remove, Restore, Arrives, vars, history, blame, table
  <2>2. faults' >= faults
    BY <2>1, Types, UtmAssumption
  <2>. QED BY <2>1, <2>2, WorldAccounts
<1>. QED BY <1>1, <1>2, <1>3 DEF Next

(* A value's events of a day are in its total twice only when a run has    *)
(* stopped halfway, has overlapped with another, or has counted a day on   *)
(* the other side of the cursor, and once more at most for each of these.  *)
THEOREM DoublesHaveCause == Spec => []DoubleNeedsCause
<1>1. Init => Held
  BY NothingRead DEF Init, Held, Counted, Owes, InOrder, NoRun, Gathered, Ends
<1>2. Init => Accounts
  <2>. SUFFICES ASSUME Init PROVE Accounts
    OBVIOUS
  <2>1. Running = {} /\ \A p \in Proc : run[p].at = "idle"
    BY NobodyRuns DEF Init, NoRun
  <2>2. ASSUME NEW e \in Pair PROVE MayAdd(e) = {} /\ count[e] = 0
    BY <2>1 DEF MayAdd, MayCount, Strays, Gathered, Init
  <2>3. Causes = 0 /\ overlaps = 0
    BY DEF Init, Causes
  <2>. QED BY <2>1, <2>2, <2>3, FS_EmptySet DEF Accounts, Accounted, Ranging
<1>3. TypeOK /\ Accounts => DoubleNeedsCause
  <2>. SUFFICES ASSUME TypeOK, Accounts, NEW e \in Pair PROVE count[e] <= 1 + faults + overlaps + again
    BY DEF DoubleNeedsCause
  <2>1. /\ count[e] \in Nat /\ Causes \in Nat /\ Cardinality(MayAdd(e)) \in Nat
        /\ count[e] + Cardinality(MayAdd(e)) <= 1 + Causes
    BY PairTypes DEF Accounts, Accounted
  <2>2. count[e] <= 1 + Causes
    BY <2>1
  <2>3. 1 + Causes = 1 + faults + overlaps + again
    BY Types, UtmAssumption DEF Causes
  <2>. QED BY <2>2, <2>3
<1>. QED BY <1>1, <1>2, <1>3, InitTyped, NextTyped, HeldKept, AccountsKept, PTL DEF Spec
=============================================================================
