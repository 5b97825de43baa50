------------------------ MODULE CleaningSchedulerProofs ------------------------
(***************************************************************************)
(* Proofs about the scheduler, for any rows, nodes, days, limits and any   *)
(* number of failures and restarts.                                        *)
(*                                                                         *)
(* A handler is an operator from mem to the mems it may leave behind, so   *)
(* the invariants are operators on mem too, with the day and the state of  *)
(* the tables as further arguments: a lemma says what an operator keeps of *)
(* any mem, and a step is put together from lemmas.                        *)
(***************************************************************************)
EXTENDS CleaningScheduler, TLAPS, WellFoundedInduction, NaturalsInduction, FiniteSetTheorems

LEMMA Numbers ==
  /\ MaxDispatches \in Nat \ {0} /\ MaxScans \in Nat \ {0} /\ PageSize \in Nat \ {0}
  /\ MaxBuffered \in Nat \ {0} /\ LastDay \in Nat \ {0}
  /\ MaxAttempts \in Nat /\ MaxBoots \in Nat /\ MaxAsks \in Nat /\ MaxFaults \in Nat
  BY ScheduleAssumption DEF ScheduleAssumption

LEMMA Days == Day \subseteq Nat /\ 1 \in Day /\ 0 \notin Day /\ Never = 0 /\ All = 0
  BY Numbers DEF Day, Never, All

LEMMA RowFacts ==
  /\ Rows \in Seq(Slice) /\ Len(Rows) \in Nat /\ DOMAIN Rows = 1..Len(Rows)
  /\ \A i \in 1..Len(Rows) : Rows[i] \in Slice
  /\ \A s \in Slice : \E i \in 1..Len(Rows) : Rows[i] = s
  /\ \A s \in Slice : Date[s] \in Day
<1>1. Rows \in Seq(Slice) /\ \A s \in Slice : \E i \in DOMAIN Rows : Rows[i] = s
  BY ScheduleAssumption DEF ScheduleAssumption
<1>2. \A s \in Slice : Date[s] \in Day
  BY ScheduleAssumption DEF ScheduleAssumption
<1> QED
  BY <1>1, <1>2

LEMMA SlicesFinite == IsFiniteSet(Slice)
<1>1. Rows \in [1..Len(Rows) -> Slice] /\ Len(Rows) \in Nat
      /\ \A s \in Slice : \E i \in 1..Len(Rows) : Rows[i] = s
  BY RowFacts
<1>2. Rows \in Surjection(1..Len(Rows), Slice)
  BY <1>1 DEF Surjection
<1>3. IsFiniteSet(1..Len(Rows))
  BY <1>1, FS_Interval
<1> QED
  BY <1>2, <1>3, FS_Surjection

(* The fields of the service.                                              *)
LEMMA Fields ==
  ASSUME NEW m \in Memory
  PROVE  /\ m.queue \subseteq Task /\ m.out \subseteq Task /\ m.lost \subseteq Task
         /\ m.attempts \in [Slice -> [Day -> 0..MaxAttempts]]
         /\ m.recent \in [Slice -> Day \cup {Never}] /\ m.loaded \in [Day -> Nat]
         /\ m.scans \in [Key -> Scan \cup {NoScan}] /\ m.reading \in Reading
         /\ m.auto \in Day \cup {Never} /\ m.saving \in Day \cup {Never}
         /\ m.slots \subseteq Place /\ m.restored \subseteq Place /\ Place = Slice \X Node
  BY DEF Memory, Place

LEMMA TaskFacts ==
  ASSUME NEW t \in Task
  PROVE  /\ t.slice \in Slice /\ t.run \in Day /\ t.run \in Nat /\ t.attempt \in 0..MaxAttempts
         /\ t.rust \in BOOLEAN
  BY Days DEF Task

LEMMA ScanFacts ==
  ASSUME NEW x \in Scan \cup {NoScan}
  PROVE  /\ x # NoScan <=> x \in Scan
         /\ x # NoScan => /\ x.run \in Day /\ x.run \in Nat /\ x.cursor \in 0..Len(Rows)
                          /\ x.cursor \in Nat /\ x.next \in Day \cup {Never} /\ x.next \in Nat
                          /\ x.failed \in BOOLEAN /\ x.waiting \in BOOLEAN
<1>1. x \in Scan => x.run \in Day /\ x.run # 0
  BY Days DEF Scan
<1>2. NoScan.run = 0
  BY Days DEF NoScan
<1>3. x # NoScan <=> x \in Scan
  BY <1>1, <1>2
<1>4. x \in Scan => /\ x.cursor \in 0..Len(Rows) /\ x.next \in Day \cup {Never}
                    /\ x.failed \in BOOLEAN /\ x.waiting \in BOOLEAN
  BY DEF Scan
<1>5. x \in Scan => x.run \in Nat /\ x.cursor \in Nat /\ x.next \in Nat
  <2>1. 0..Len(Rows) \subseteq Nat /\ Day \cup {Never} \subseteq Nat
    BY Days, RowFacts
  <2> QED
    BY <1>1, <1>4, <2>1
<1> QED
  BY <1>1, <1>3, <1>4, <1>5

LEMMA ScanOf ==
  ASSUME NEW m \in Memory, NEW k \in Scanned(m)
  PROVE  /\ k \in Key /\ m.scans[k] \in Scan
         /\ m.scans[k].run \in Day /\ m.scans[k].run \in Nat
         /\ m.scans[k].next \in Day \cup {Never} /\ m.scans[k].next \in Nat
         /\ m.scans[k].cursor \in 0..Len(Rows) /\ m.scans[k].cursor \in Nat
  BY Fields, ScanFacts DEF Scanned

LEMMA ReadingFacts ==
  ASSUME NEW r \in Reading
  PROVE  /\ r = NotReading <=> r.stage = "none"
         /\ r.stage \in {"none", "query", "marks", "ready"}
         /\ r # NotReading => r.key \in Key /\ r.limit \in 1..PageSize /\ r.limit \in Nat
         /\ r.stage = "marks" => r.completed \subseteq Slice
         /\ r.stage = "ready" => r.rows \subseteq Slice \X BOOLEAN
<1>1. NotReading.stage = "none"
  BY DEF NotReading
<1>2. r = NotReading
      \/ r \in [stage : {"query"}, key : Key, limit : 1..PageSize]
      \/ r \in [stage : {"marks"}, key : Key, limit : 1..PageSize, completed : SUBSET Slice]
      \/ r \in [stage : {"ready"}, key : Key, limit : 1..PageSize, rows : SUBSET (Slice \X BOOLEAN)]
  BY DEF Reading
<1>3. 1..PageSize \subseteq Nat
  BY Numbers
<1> QED
  BY <1>1, <1>2, <1>3

-----------------------------------------------------------------------------
(* Tasks of different slices are as many as their slices.                  *)
Loaded(m) == m.queue \cup m.out
OfRun(m, d) == {t \in Loaded(m) : t.run = d}
Distinct(T) == \A t, u \in T : t.slice = u.slice => t = u

LEMMA LoadedFacts ==
  ASSUME NEW m \in Memory
  PROVE  Loaded(m) \in SUBSET Task /\ \A d : OfRun(m, d) \in SUBSET Loaded(m)
  BY Fields DEF Loaded, OfRun

LEMMA CountSlices ==
  ASSUME NEW T \in SUBSET Task, Distinct(T)
  PROVE  /\ IsFiniteSet(T) /\ Cardinality(T) \in Nat
         /\ IsFiniteSet(SlicesOf(T)) /\ Cardinality(T) = Cardinality(SlicesOf(T))
<1> DEFINE f == [t \in T |-> t.slice]
<1>1. SlicesOf(T) \in SUBSET Slice
  BY TaskFacts DEF SlicesOf
<1>2. IsFiniteSet(SlicesOf(T))
  BY <1>1, SlicesFinite, FS_Subset
<1>3. f \in [T -> SlicesOf(T)]
  BY DEF SlicesOf
<1>4. f \in Injection(T, SlicesOf(T))
  BY <1>3 DEF Injection, IsInjective, Distinct
<1>5. f \in Surjection(T, SlicesOf(T))
  BY <1>3 DEF Surjection, SlicesOf
<1>6. IsFiniteSet(T) /\ Cardinality(T) = Cardinality(SlicesOf(T))
  BY <1>2, <1>4, <1>5, FS_Injection
<1> QED
  BY <1>2, <1>6, FS_CardinalityType

LEMMA CountDisjoint ==
  ASSUME NEW S, NEW T, IsFiniteSet(S), IsFiniteSet(T), S \cap T = {}
  PROVE  /\ IsFiniteSet(S \cup T) /\ Cardinality(S \cup T) = Cardinality(S) + Cardinality(T)
         /\ Cardinality(S \cup T) \in Nat /\ Cardinality(S) \in Nat /\ Cardinality(T) \in Nat
<1>1. Cardinality(S \cap T) = 0
  BY FS_EmptySet
<1>2. IsFiniteSet(S \cup T) /\ Cardinality(S) \in Nat /\ Cardinality(T) \in Nat
  BY FS_Union, FS_CardinalityType
<1>3. Cardinality(S \cup T) = Cardinality(S) + Cardinality(T) - Cardinality(S \cap T)
  BY FS_Union
<1> QED
  BY <1>1, <1>2, <1>3

-----------------------------------------------------------------------------
(* What holds of the tasks, the scans and the page being read, whatever    *)
(* happens.                                                                *)

(* The tasks loaded are of different slices and of one run, and counted.   *)
TasksOK(m, today) ==
  /\ m.queue \cap m.out = {} /\ Distinct(Loaded(m))
  /\ m.lost \subseteq m.out
  /\ \A t, u \in Loaded(m) : t.run = u.run
  /\ \A t \in Loaded(m) : t.run <= today
  /\ \A d \in Day : m.loaded[d] = Cardinality(OfRun(m, d))

(* No scan is of an older run than a task, and a round asked for while one *)
(* is under way is of a later day.                                         *)
ScansOK(m, today) ==
  \A k \in Scanned(m) :
    /\ m.scans[k].run <= today
    /\ m.scans[k].next # Never => m.scans[k].run <= m.scans[k].next /\ m.scans[k].next <= today
    /\ \A t \in Loaded(m) : t.run <= m.scans[k].run

(* The scan whose page is read is of the oldest run there is.              *)
ReadingOK(m) ==
  m.reading # NotReading =>
    /\ ~m.cont
    /\ m.reading.key \in Scanned(m)
    /\ \A k \in Scanned(m) : m.scans[m.reading.key].run <= m.scans[k].run
    /\ \A t \in Loaded(m) : m.scans[m.reading.key].run <= t.run
    /\ m.reading.stage = "ready" => \A x, y \in m.reading.rows : x[1] = y[1] => x = y

Sound(m, today) ==
  /\ m \in Memory /\ today \in Day
  /\ TasksOK(m, today) /\ ScansOK(m, today) /\ ReadingOK(m)

(* The tasks the page being read may bring.                                *)
Awaited(m) ==
  IF m.reading.stage = "ready" THEN Cardinality(m.reading.rows)
  ELSE IF m.reading # NotReading THEN m.reading.limit ELSE 0

Bounded(m) == LoadedCount(m) + Awaited(m) <= MaxBuffered

LEMMA Counted ==
  ASSUME NEW m \in Memory, NEW today, TasksOK(m, today)
  PROVE  /\ IsFiniteSet(Loaded(m)) /\ IsFiniteSet(m.queue) /\ IsFiniteSet(m.out)
         /\ LoadedCount(m) \in Nat
         /\ LoadedCount(m) = Cardinality(Loaded(m))
         /\ LoadedCount(m) = Cardinality(SlicesOf(Loaded(m)))
         /\ LoadedCount(m) = 0 <=> Loaded(m) = {}
         /\ \A d : /\ IsFiniteSet(OfRun(m, d)) /\ Cardinality(OfRun(m, d)) \in Nat
                   /\ Cardinality(OfRun(m, d)) = Cardinality(SlicesOf(OfRun(m, d)))
<1>1. IsFiniteSet(Loaded(m)) /\ Cardinality(Loaded(m)) = Cardinality(SlicesOf(Loaded(m)))
  BY LoadedFacts, CountSlices DEF TasksOK
<1>2. IsFiniteSet(m.queue) /\ IsFiniteSet(m.out)
  BY <1>1, FS_Subset DEF Loaded
<1>3. LoadedCount(m) = Cardinality(Loaded(m)) /\ LoadedCount(m) \in Nat
  <2>1. m.queue \cap m.out = {}
    BY DEF TasksOK
  <2>2. /\ Cardinality(m.queue \cup m.out) = Cardinality(m.queue) + Cardinality(m.out)
        /\ Cardinality(m.queue \cup m.out) \in Nat
    BY <1>2, <2>1, CountDisjoint
  <2> QED
    BY <2>2 DEF LoadedCount, Loaded
<1>4. LoadedCount(m) = 0 <=> Loaded(m) = {}
  BY <1>1, <1>3, FS_EmptySet
<1>5. ASSUME NEW d
      PROVE  /\ IsFiniteSet(OfRun(m, d)) /\ Cardinality(OfRun(m, d)) \in Nat
             /\ Cardinality(OfRun(m, d)) = Cardinality(SlicesOf(OfRun(m, d)))
  <2>1. OfRun(m, d) \in SUBSET Task /\ Distinct(OfRun(m, d))
    BY LoadedFacts DEF OfRun, Distinct, TasksOK
  <2> QED
    BY <2>1, CountSlices
<1> QED
  BY <1>1, <1>2, <1>3, <1>4, <1>5

LEMMA AwaitedCount ==
  ASSUME NEW m \in Memory
  PROVE  /\ Awaited(m) \in Nat
         /\ m.reading.stage = "ready" => IsFiniteSet(m.reading.rows)
<1>1. m.reading \in Reading
  BY Fields
<1>2. IsFiniteSet(Slice \X BOOLEAN)
  <2>1. IsFiniteSet({FALSE}) /\ BOOLEAN = {FALSE} \cup {TRUE}
    BY FS_Singleton
  <2>2. IsFiniteSet(BOOLEAN)
    BY <2>1, FS_AddElement
  <2> QED
    BY <2>2, SlicesFinite, FS_Product
<1>3. ASSUME m.reading.stage = "ready"
      PROVE  IsFiniteSet(m.reading.rows) /\ Cardinality(m.reading.rows) \in Nat
  BY <1>1, <1>2, <1>3, ReadingFacts, FS_Subset, FS_CardinalityType
<1> QED
  BY <1>1, <1>3, ReadingFacts DEF Awaited

(* The counts tell which runs have a task.                                 *)
LEMMA LoadedRuns ==
  ASSUME NEW m \in Memory, NEW today, TasksOK(m, today)
  PROVE  \A t \in Loaded(m) : t.run \in Runs(m)
<1> SUFFICES ASSUME NEW t \in Loaded(m) PROVE t.run \in Runs(m)
  OBVIOUS
<1>1. t.run \in Day /\ t \in OfRun(m, t.run)
  BY LoadedFacts, TaskFacts DEF OfRun
<1>2. Cardinality(OfRun(m, t.run)) # 0
  BY <1>1, Counted, FS_EmptySet
<1>3. m.loaded[t.run] \in Nat /\ m.loaded[t.run] # 0
  BY <1>1, <1>2, Fields DEF TasksOK
<1> QED
  BY <1>1, <1>3 DEF Runs

(* Nothing of this depends on the other fields.                            *)
LEMMA SoundSame ==
  ASSUME NEW m, NEW today, Sound(m, today), NEW r \in Memory,
         r.queue = m.queue, r.out = m.out, r.lost = m.lost, r.loaded = m.loaded,
         r.scans = m.scans, r.reading = m.reading, r.cont => m.cont \/ m.reading = NotReading
  PROVE  Sound(r, today) /\ LoadedCount(r) = LoadedCount(m) /\ (Bounded(m) => Bounded(r))
<1>1. Loaded(r) = Loaded(m) /\ Scanned(r) = Scanned(m) /\ \A d : OfRun(r, d) = OfRun(m, d)
  BY DEF Loaded, Scanned, OfRun
<1>2. TasksOK(r, today)
  BY <1>1 DEF Sound, TasksOK
<1>3. ScansOK(r, today)
  BY <1>1 DEF Sound, ScansOK
<1>4. ReadingOK(r)
  BY <1>1 DEF Sound, ReadingOK
<1>5. LoadedCount(r) = LoadedCount(m) /\ Awaited(r) = Awaited(m)
  BY DEF LoadedCount, Awaited
<1> QED
  BY <1>2, <1>3, <1>4, <1>5 DEF Sound, Bounded


-----------------------------------------------------------------------------
(* requestScan: scans asked for again start over, once no task is left.    *)
LEMMA RolledIs ==
  ASSUME NEW m \in Memory
  PROVE  /\ RolledOver(m) \in Memory
         /\ Scanned(RolledOver(m)) = Scanned(m)
         /\ \A k \in Scanned(m) :
              IF m.scans[k].waiting /\ m.scans[k].next # Never
              THEN /\ RolledOver(m).scans[k].run = m.scans[k].next
                   /\ RolledOver(m).scans[k].next = Never
                   /\ RolledOver(m).scans[k].cursor = 0
              ELSE RolledOver(m).scans[k] = m.scans[k]
         /\ RolledOver(m) = [m EXCEPT !.scans = RolledOver(m).scans]
<1> DEFINE new(k) == [run |-> m.scans[k].next, cursor |-> 0, failed |-> m.scans[k].failed,
                      next |-> Never, waiting |-> FALSE]
           s == [k \in Key |-> IF m.scans[k] # NoScan /\ m.scans[k].waiting /\ m.scans[k].next # Never
                               THEN new(k) ELSE m.scans[k]]
<1>1. RolledOver(m) = [m EXCEPT !.scans = s]
  BY DEF RolledOver, Memory
<1>2. ASSUME NEW k \in Key, m.scans[k] # NoScan, m.scans[k].next # Never PROVE new(k) \in Scan
  BY <1>2, Fields, ScanFacts, RowFacts, Days DEF Scan
<1>3. s \in [Key -> Scan \cup {NoScan}]
  BY <1>2, Fields
<1>4. RolledOver(m) \in Memory /\ RolledOver(m).scans = s
  <2> HIDE DEF s
  <2> QED
    BY <1>1, <1>3 DEF Memory
<1>5. \A k \in Key : s[k] # NoScan <=> m.scans[k] # NoScan
  <2> SUFFICES ASSUME NEW k \in Key PROVE s[k] # NoScan <=> m.scans[k] # NoScan
    OBVIOUS
  <2>1. CASE m.scans[k] # NoScan /\ m.scans[k].waiting /\ m.scans[k].next # Never
    <3>1. s[k] \in Scan
      BY <1>2, <2>1
    <3> QED
      BY <2>1, <3>1, ScanFacts
  <2>2. CASE ~(m.scans[k] # NoScan /\ m.scans[k].waiting /\ m.scans[k].next # Never)
    BY <2>2
  <2> QED
    BY <2>1, <2>2
<1>6. Scanned(RolledOver(m)) = Scanned(m)
  BY <1>4, <1>5 DEF Scanned
<1>7. ASSUME NEW k \in Scanned(m)
      PROVE  IF m.scans[k].waiting /\ m.scans[k].next # Never
             THEN s[k].run = m.scans[k].next /\ s[k].next = Never /\ s[k].cursor = 0
             ELSE s[k] = m.scans[k]
  BY DEF Scanned
<1> QED
  BY <1>1, <1>4, <1>6, <1>7

LEMMA RequestedIs ==
  ASSUME NEW m \in Memory
  PROVE  /\ Requested(m) \in Memory
         /\ Requested(m).queue = m.queue /\ Requested(m).out = m.out /\ Requested(m).lost = m.lost
         /\ Requested(m).recent = m.recent /\ Requested(m).loaded = m.loaded
         /\ Requested(m).slots = m.slots
         /\ Requested(m).restored = m.restored /\ Requested(m).reading = m.reading
         /\ Requested(m).auto = m.auto
         /\ \/ Requested(m).scans = m.scans
            \/ /\ Requested(m).scans = RolledOver(m).scans
               /\ LoadedCount(m) = 0 /\ m.reading = NotReading
         /\ Requested(m).cont => m.cont \/ m.reading = NotReading
         /\ \/ Requested(m).saving = m.saving
            \/ /\ Requested(m).saving = m.auto /\ m.auto # Never
               /\ Scanned(Requested(m)) = {} /\ m.queue = {} /\ m.out = {}
<1> DEFINE r == IF LoadedCount(m) = 0 THEN RolledOver(m) ELSE m
<1>1. CASE m.reading # NotReading \/ m.cont
  BY <1>1 DEF Requested
<1>2. CASE ~(m.reading # NotReading \/ m.cont)
  <2>1. /\ r \in Memory
        /\ r = [m EXCEPT !.scans = r.scans]
        /\ r.scans = m.scans \/ (LoadedCount(m) = 0 /\ r.scans = RolledOver(m).scans)
    <3>1. m = [m EXCEPT !.scans = m.scans]
      BY DEF Memory
    <3> QED
      BY <3>1, RolledIs
  <2>2. Requested(m) = IF Ready(r) = {} THEN FinishedDay(r)
                       ELSE IF LoadedCount(r) < MaxBuffered /\ Idle(r) # {} THEN [r EXCEPT !.cont = TRUE]
                       ELSE r
    BY <1>2 DEF Requested
  <2> HIDE DEF r
  <2>3. /\ r.queue = m.queue /\ r.out = m.out /\ r.lost = m.lost /\ r.recent = m.recent
        /\ r.loaded = m.loaded /\ r.slots = m.slots
        /\ r.restored = m.restored /\ r.reading = m.reading /\ r.auto = m.auto
        /\ r.cont = m.cont /\ r.saving = m.saving
    BY <2>1 DEF Memory
  <2>4. CASE Requested(m) = r
    BY <1>2, <2>1, <2>3, <2>4
  <2>5. CASE Requested(m) = [r EXCEPT !.cont = TRUE]
    BY <1>2, <2>1, <2>3, <2>5 DEF Memory
  <2>6. CASE Requested(m) = [r EXCEPT !.saving = r.auto] /\ r.auto # Never /\ Scanned(r) = {}
             /\ r.queue = {} /\ r.out = {}
    <3>1. Requested(m) \in Memory /\ Requested(m).scans = r.scans
      BY <2>1, <2>6 DEF Memory
    <3>2. Scanned(Requested(m)) = {}
      BY <2>6, <3>1 DEF Scanned
    <3> QED
      BY <1>2, <2>1, <2>3, <2>6, <3>1, <3>2 DEF Memory
  <2> QED
    BY <2>2, <2>4, <2>5, <2>6 DEF FinishedDay
<1> QED
  BY <1>1, <1>2

LEMMA SoundRolled ==
  ASSUME NEW m, NEW today, Sound(m, today), Loaded(m) = {}, m.reading = NotReading
  PROVE  Sound(RolledOver(m), today)
<1> DEFINE r == RolledOver(m)
<1>1. /\ m \in Memory /\ r \in Memory /\ r = [m EXCEPT !.scans = r.scans]
      /\ Scanned(r) = Scanned(m)
      /\ \A k \in Scanned(m) :
              IF m.scans[k].waiting /\ m.scans[k].next # Never
              THEN r.scans[k].run = m.scans[k].next /\ r.scans[k].next = Never
              ELSE r.scans[k] = m.scans[k]
  BY RolledIs DEF Sound
<1> HIDE DEF r
<1>2. r.queue = m.queue /\ r.out = m.out /\ r.lost = m.lost /\ r.loaded = m.loaded /\ r.reading = m.reading
  BY <1>1 DEF Memory
<1>3. Loaded(r) = {} /\ \A d : OfRun(r, d) = OfRun(m, d)
  BY <1>2 DEF Loaded, OfRun
<1>4. TasksOK(r, today)
  BY <1>2, <1>3 DEF Sound, TasksOK, Loaded
<1>5. ScansOK(r, today)
  BY <1>1, <1>3 DEF Sound, ScansOK
<1>6. ReadingOK(r)
  BY <1>2 DEF ReadingOK
<1> QED
  BY <1>1, <1>4, <1>5, <1>6 DEF Sound, r

LEMMA SoundRequested ==
  ASSUME NEW m, NEW today, Sound(m, today)
  PROVE  /\ Sound(Requested(m), today) /\ LoadedCount(Requested(m)) = LoadedCount(m)
         /\ Bounded(m) => Bounded(Requested(m))
<1> DEFINE r == Requested(m)
<1>1. m \in Memory /\ TasksOK(m, today)
  BY DEF Sound
<1>2. /\ r \in Memory /\ r.queue = m.queue /\ r.out = m.out /\ r.lost = m.lost /\ r.loaded = m.loaded
      /\ r.reading = m.reading /\ (r.cont => m.cont \/ m.reading = NotReading)
      /\ \/ r.scans = m.scans
         \/ r.scans = RolledOver(m).scans /\ LoadedCount(m) = 0 /\ m.reading = NotReading
  BY <1>1, RequestedIs
<1> HIDE DEF r
<1>3. CASE r.scans = m.scans
  BY <1>2, <1>3, SoundSame DEF r
<1>4. CASE r.scans = RolledOver(m).scans /\ LoadedCount(m) = 0 /\ m.reading = NotReading
  <2>1. Sound(RolledOver(m), today)
    BY <1>1, <1>4, Counted, SoundRolled
  <2>2. /\ RolledOver(m).queue = m.queue /\ RolledOver(m).out = m.out /\ RolledOver(m).lost = m.lost
        /\ RolledOver(m).loaded = m.loaded /\ RolledOver(m).reading = m.reading
        /\ RolledOver(m).cont = m.cont
    <3> DEFINE q == RolledOver(m)
    <3>1. q = [m EXCEPT !.scans = q.scans]
      BY <1>1, RolledIs
    <3> HIDE DEF q
    <3>2. q.queue = m.queue /\ q.out = m.out /\ q.lost = m.lost /\ q.loaded = m.loaded
          /\ q.reading = m.reading /\ q.cont = m.cont
      BY <1>1, <3>1 DEF Memory
    <3> QED
      BY <3>2 DEF q
  <2>3. Sound(r, today)
    BY <1>2, <1>4, <2>1, <2>2, SoundSame
  <2>4. LoadedCount(r) = LoadedCount(m) /\ Awaited(r) = Awaited(m)
    BY <1>2 DEF LoadedCount, Awaited
  <2> QED
    BY <2>3, <2>4 DEF Bounded, r
<1> QED
  BY <1>2, <1>3, <1>4


-----------------------------------------------------------------------------
(* drain: a task that is sent to a node leaves the queue, with its slice,  *)
(* its run and its attempt.                                                *)
LEMMA PlanFacts ==
  ASSUME NEW m, NEW p \in Plans(m)
  PROVE  /\ DOMAIN p \subseteq m.queue
         /\ \A t \in DOMAIN p : /\ t.slice \notin ActiveSlices(m)
                                /\ p[t] \in Node /\ (t.rust => p[t] \in RustNode)
  BY DEF Plans

LEMMA SentFacts ==
  ASSUME NEW t \in Task, NEW n
  PROVE  /\ Sent(t, n) \in Task
         /\ Sent(t, n).slice = t.slice /\ Sent(t, n).run = t.run /\ Sent(t, n).attempt = t.attempt
         /\ Sent(t, n).rust <=> t.rust \/ n \in RustNode
<1>1. t = [slice |-> t.slice, run |-> t.run, attempt |-> t.attempt, rust |-> t.rust]
      /\ t.rust \in BOOLEAN
  BY DEF Task
<1>2. Sent(t, n) = [slice |-> t.slice, run |-> t.run, attempt |-> t.attempt,
                    rust |-> t.rust \/ n \in RustNode]
  BY <1>1 DEF Sent, Task
<1> DEFINE b == t.rust \/ n \in RustNode
<1>3. b \in BOOLEAN /\ (b <=> t.rust \/ n \in RustNode)
  OBVIOUS
<1>4. Sent(t, n) = [slice |-> t.slice, run |-> t.run, attempt |-> t.attempt, rust |-> b]
  BY <1>2
<1> HIDE DEF b
<1>5. /\ Sent(t, n) \in Task /\ Sent(t, n).slice = t.slice /\ Sent(t, n).run = t.run
      /\ Sent(t, n).attempt = t.attempt /\ Sent(t, n).rust = b
  BY <1>3, <1>4, TaskFacts DEF Task
<1> QED
  BY <1>3, <1>5

(* Dispatched, up to its requestScan.                                      *)
SentOff(m, p) ==
  [m EXCEPT
     !.queue = m.queue \ DOMAIN p,
     !.out = @ \cup {Sent(t, p[t]) : t \in DOMAIN p},
     !.slots = @ \cup {<<t.slice, p[t]>> : t \in DOMAIN p},
     !.turn = Cardinality(DOMAIN p) = MaxDispatches /\ m.queue \ DOMAIN p # {}]

LEMMA DispatchedIs ==
  ASSUME NEW m, NEW p
  PROVE  Dispatched(m, p) = Requested(SentOff(m, p))
  BY DEF Dispatched, SentOff

LEMMA SentOffIs ==
  ASSUME NEW m \in Memory, NEW p \in Plans(m)
  PROVE  /\ SentOff(m, p) \in Memory
         /\ SentOff(m, p).queue = m.queue \ DOMAIN p
         /\ SentOff(m, p).out = m.out \cup {Sent(t, p[t]) : t \in DOMAIN p}
         /\ SentOff(m, p).slots = m.slots \cup {<<t.slice, p[t]>> : t \in DOMAIN p}
         /\ SentOff(m, p).restored = m.restored
         /\ SentOff(m, p).lost = m.lost /\ SentOff(m, p).recent = m.recent
         /\ SentOff(m, p).loaded = m.loaded /\ SentOff(m, p).scans = m.scans
         /\ SentOff(m, p).reading = m.reading /\ SentOff(m, p).cont = m.cont
         /\ SentOff(m, p).auto = m.auto /\ SentOff(m, p).saving = m.saving
<1> DEFINE o == {Sent(t, p[t]) : t \in DOMAIN p}
           l == {<<t.slice, p[t]>> : t \in DOMAIN p}
           b == Cardinality(DOMAIN p) = MaxDispatches /\ m.queue \ DOMAIN p # {}
<1>1. DOMAIN p \subseteq Task
  BY Fields, PlanFacts
<1>2. o \subseteq Task
  BY <1>1, SentFacts
<1>3. l \subseteq Place
  BY <1>1, PlanFacts, TaskFacts DEF Place
<1>4. SentOff(m, p) = [m EXCEPT !.queue = m.queue \ DOMAIN p, !.out = m.out \cup o,
                                !.slots = m.slots \cup l, !.turn = b]
  BY DEF SentOff
<1>5. b \in BOOLEAN /\ m.queue \ DOMAIN p \in SUBSET Task /\ m.out \cup o \in SUBSET Task
      /\ m.slots \cup l \in SUBSET Place
  BY <1>2, <1>3, Fields
<1> HIDE DEF o, l, b
<1>6. /\ SentOff(m, p) \in Memory
      /\ SentOff(m, p).queue = m.queue \ DOMAIN p
      /\ SentOff(m, p).out = m.out \cup o /\ SentOff(m, p).slots = m.slots \cup l
      /\ SentOff(m, p).restored = m.restored
      /\ SentOff(m, p).lost = m.lost /\ SentOff(m, p).recent = m.recent
      /\ SentOff(m, p).loaded = m.loaded /\ SentOff(m, p).scans = m.scans
      /\ SentOff(m, p).reading = m.reading /\ SentOff(m, p).cont = m.cont
      /\ SentOff(m, p).auto = m.auto /\ SentOff(m, p).saving = m.saving
  BY <1>4, <1>5, ZenonT(30) DEF Memory
<1> QED
  BY <1>6 DEF o, l

(* The tasks loaded stay the same, up to what they require of a node.      *)
LEMMA SentOffLoaded ==
  ASSUME NEW m \in Memory, NEW p \in Plans(m), m.queue \cap m.out = {}, Distinct(Loaded(m))
  PROVE  LET r == SentOff(m, p) IN
         /\ \A t \in Loaded(r) : \E u \in Loaded(m) : t.slice = u.slice /\ t.run = u.run
         /\ \A u \in Loaded(m) : \E t \in Loaded(r) : t.slice = u.slice /\ t.run = u.run
         /\ r.queue \cap r.out = {} /\ Distinct(Loaded(r))
<1> DEFINE r == SentOff(m, p)
           o == {Sent(t, p[t]) : t \in DOMAIN p}
<1>1. r.queue = m.queue \ DOMAIN p /\ r.out = m.out \cup o /\ DOMAIN p \subseteq m.queue
  BY SentOffIs, PlanFacts
<1>2. m.queue \subseteq Task /\ m.out \subseteq Task
  BY Fields
<1>3. \A x \in o : \E t \in DOMAIN p : x = Sent(t, p[t]) /\ x.slice = t.slice /\ x.run = t.run
  BY <1>1, <1>2, SentFacts
<1>4. \A t \in DOMAIN p : \E x \in o : x.slice = t.slice /\ x.run = t.run
  BY <1>1, <1>2, SentFacts
<1> HIDE DEF o, r
<1>5. \A t \in Loaded(r) : \E u \in Loaded(m) : t.slice = u.slice /\ t.run = u.run
  BY <1>1, <1>3 DEF Loaded
<1>6. \A u \in Loaded(m) : \E t \in Loaded(r) : t.slice = u.slice /\ t.run = u.run
  BY <1>1, <1>4 DEF Loaded
<1>7. r.queue \cap r.out = {}
  <2> SUFFICES ASSUME NEW x \in r.queue, x \in r.out PROVE FALSE
    OBVIOUS
  <2>1. x \in m.queue /\ x \notin DOMAIN p
    BY <1>1
  <2>2. x \in o
    BY <1>1, <2>1
  <2>3. PICK t \in DOMAIN p : x.slice = t.slice
    BY <1>3, <2>2
  <2>4. x = t
    BY <1>1, <2>1, <2>3 DEF Distinct, Loaded
  <2> QED
    BY <2>1, <2>4
<1>8. Distinct(Loaded(r))
  <2> SUFFICES ASSUME NEW x \in Loaded(r), NEW y \in Loaded(r), x.slice = y.slice PROVE x = y
    BY DEF Distinct
  <2>1. ASSUME NEW z \in Loaded(r)
        PROVE  \/ z \in m.queue \cup m.out /\ z \notin DOMAIN p
               \/ \E t \in DOMAIN p : z = Sent(t, p[t]) /\ z.slice = t.slice
    BY <1>1, <1>2, <1>3 DEF Loaded
  <2>2. CASE x \notin o /\ y \notin o
    BY <1>1, <2>2 DEF Loaded, Distinct
  <2>3. CASE x \in o
    <3>1. PICK t \in DOMAIN p : x = Sent(t, p[t]) /\ x.slice = t.slice
      BY <1>3, <2>3
    <3>2. CASE y \in Loaded(m) /\ y \notin DOMAIN p
      BY <1>1, <3>1, <3>2 DEF Loaded, Distinct
    <3>3. CASE \E u \in DOMAIN p : y = Sent(u, p[u]) /\ y.slice = u.slice
      <4>1. PICK u \in DOMAIN p : y = Sent(u, p[u]) /\ y.slice = u.slice
        BY <3>3
      <4>2. u = t
        BY <1>1, <3>1, <4>1 DEF Loaded, Distinct
      <4> QED
        BY <3>1, <4>1, <4>2
    <3> QED
      BY <2>1, <3>2, <3>3 DEF Loaded
  <2>4. CASE y \in o
    <3>1. PICK t \in DOMAIN p : y = Sent(t, p[t]) /\ y.slice = t.slice
      BY <1>3, <2>4
    <3>2. CASE x \in Loaded(m) /\ x \notin DOMAIN p
      BY <1>1, <3>1, <3>2 DEF Loaded, Distinct
    <3>3. CASE \E u \in DOMAIN p : x = Sent(u, p[u]) /\ x.slice = u.slice
      <4>1. PICK u \in DOMAIN p : x = Sent(u, p[u]) /\ x.slice = u.slice
        BY <3>3
      <4>2. u = t
        BY <1>1, <3>1, <4>1 DEF Loaded, Distinct
      <4> QED
        BY <3>1, <4>1, <4>2
    <3> QED
      BY <2>1, <3>2, <3>3 DEF Loaded
  <2> QED
    BY <2>2, <2>3, <2>4
<1> QED
  BY <1>5, <1>6, <1>7, <1>8 DEF r

LEMMA SoundSentOff ==
  ASSUME NEW m, NEW today, Sound(m, today), NEW p \in Plans(m)
  PROVE  /\ Sound(SentOff(m, p), today) /\ LoadedCount(SentOff(m, p)) = LoadedCount(m)
         /\ Bounded(m) => Bounded(SentOff(m, p))
<1> DEFINE r == SentOff(m, p)
<1>1. m \in Memory /\ TasksOK(m, today) /\ m.queue \cap m.out = {} /\ Distinct(Loaded(m))
  BY DEF Sound, TasksOK
<1>2. /\ r \in Memory /\ m.out \subseteq r.out /\ r.lost = m.lost /\ r.loaded = m.loaded /\ r.scans = m.scans
      /\ r.reading = m.reading /\ r.cont = m.cont
  BY <1>1, SentOffIs
<1>3. /\ \A t \in Loaded(r) : \E u \in Loaded(m) : t.slice = u.slice /\ t.run = u.run
      /\ \A u \in Loaded(m) : \E t \in Loaded(r) : t.slice = u.slice /\ t.run = u.run
      /\ r.queue \cap r.out = {} /\ Distinct(Loaded(r))
  BY <1>1, SentOffLoaded
<1> HIDE DEF r
<1>4. SlicesOf(Loaded(r)) = SlicesOf(Loaded(m))
  BY <1>3 DEF SlicesOf
<1>5. ASSUME NEW d \in Day PROVE r.loaded[d] = Cardinality(OfRun(r, d))
  <2>1. SlicesOf(OfRun(r, d)) = SlicesOf(OfRun(m, d))
    BY <1>3 DEF SlicesOf, OfRun
  <2>2. OfRun(r, d) \in SUBSET Task /\ Distinct(OfRun(r, d))
    BY <1>2, <1>3, LoadedFacts DEF OfRun, Distinct
  <2>3. Cardinality(OfRun(r, d)) = Cardinality(SlicesOf(OfRun(r, d)))
    BY <2>2, CountSlices
  <2>4. Cardinality(OfRun(m, d)) = Cardinality(SlicesOf(OfRun(m, d)))
    BY <1>1, Counted
  <2>5. r.loaded[d] = Cardinality(OfRun(m, d))
    BY <1>1, <1>2 DEF TasksOK
  <2> QED
    BY <2>1, <2>3, <2>4, <2>5
<1>6. TasksOK(r, today)
  <2>1. r.lost \subseteq r.out
    BY <1>1, <1>2 DEF TasksOK
  <2>2. \A t, u \in Loaded(r) : t.run = u.run
    BY <1>1, <1>3 DEF TasksOK
  <2>3. \A t \in Loaded(r) : t.run <= today
    BY <1>1, <1>3 DEF TasksOK
  <2> QED
    BY <1>3, <1>5, <2>1, <2>2, <2>3 DEF TasksOK
<1>7. Scanned(r) = Scanned(m)
  BY <1>2 DEF Scanned
<1>8. ScansOK(r, today)
  BY <1>2, <1>3, <1>7 DEF Sound, ScansOK
<1>9. ReadingOK(r)
  BY <1>2, <1>3, <1>7 DEF Sound, ReadingOK
<1>10. Sound(r, today)
  BY <1>2, <1>6, <1>8, <1>9 DEF Sound
<1>11. LoadedCount(r) = LoadedCount(m) /\ Awaited(r) = Awaited(m)
  <2>1. LoadedCount(r) = Cardinality(SlicesOf(Loaded(r))) /\ LoadedCount(m) = Cardinality(SlicesOf(Loaded(m)))
    BY <1>1, <1>2, <1>6, Counted
  <2> QED
    BY <1>2, <1>4, <2>1 DEF Awaited
<1>12. Dispatched(m, p) = Requested(r)
  BY DispatchedIs DEF r
<1> QED
  BY <1>10, <1>11 DEF Bounded, r

LEMMA SoundDispatched ==
  ASSUME NEW m, NEW today, Sound(m, today), NEW p \in Plans(m)
  PROVE  /\ Sound(Dispatched(m, p), today) /\ LoadedCount(Dispatched(m, p)) = LoadedCount(m)
         /\ Bounded(m) => Bounded(Dispatched(m, p))
  BY SoundSentOff, DispatchedIs, SoundRequested

LEMMA SoundDrained ==
  ASSUME NEW m, NEW today, Sound(m, today), NEW r \in Drained(m)
  PROVE  /\ Sound(r, today) /\ LoadedCount(r) = LoadedCount(m)
         /\ Bounded(m) => Bounded(r)
<1>1. PICK p \in Plans(m) : r = Dispatched(m, p)
  BY DEF Drained
<1> QED
  BY <1>1, SoundDispatched


-----------------------------------------------------------------------------
(* enqueueTask: what is taken is of slices that have no task, and of the   *)
(* run of the others.                                                      *)
Taken(m, tasks) ==
  {t \in tasks : /\ t.slice \notin SlicesOf(Loaded(m)) \cup ActiveSlices(m)
                 /\ m.recent[t.slice] # t.run}

LEMMA EnqueuedIs ==
  ASSUME NEW m \in Memory, NEW tasks \in SUBSET Task, Distinct(tasks)
  PROVE  LET e == Enqueued(m, tasks) IN
         /\ e \in Memory
         /\ e.queue = m.queue \cup Taken(m, tasks) /\ Loaded(e) = Loaded(m) \cup Taken(m, tasks)
         /\ \A d \in Day : e.loaded[d] = m.loaded[d] + Cardinality({t \in Taken(m, tasks) : t.run = d})
         /\ e.out = m.out /\ e.lost = m.lost /\ e.recent = m.recent /\ e.slots = m.slots
         /\ e.restored = m.restored
         /\ e.scans = m.scans /\ e.reading = m.reading /\ e.cont = m.cont
         /\ e.auto = m.auto /\ e.saving = m.saving
<1> DEFINE T == Taken(m, tasks)
           e == Enqueued(m, tasks)
           l == [d \in Day |-> m.loaded[d] + Cardinality({t \in T : t.run = d})]
<1>1. T \in SUBSET Task /\ Distinct(T)
  BY DEF Taken, Distinct
<1>2. IsFiniteSet(T)
  BY <1>1, CountSlices
<1>3. m.loaded \in [Day -> Nat]
  BY Fields
<1>4. l \in [Day -> Nat]
  <2>1. ASSUME NEW d \in Day PROVE Cardinality({t \in T : t.run = d}) \in Nat
    <3>1. {t \in T : t.run = d} \in SUBSET T
      OBVIOUS
    <3> QED
      BY <1>2, <3>1, FS_Subset, FS_CardinalityType
  <2>2. ASSUME NEW d \in Day PROVE m.loaded[d] + Cardinality({t \in T : t.run = d}) \in Nat
    BY <1>3, <2>1
  <2> QED
    BY <2>2
<1>5. e = [m EXCEPT !.queue = m.queue \cup T, !.loaded = l]
  <2>1. m.loaded = [d \in Day |-> m.loaded[d]] /\ DOMAIN m = DOMAIN [m EXCEPT !.queue = {}]
    BY <1>3
  <2> QED
    BY DEF Enqueued, Taken, Loaded, Memory
<1>6. m.queue \cup T \in SUBSET Task
  BY <1>1, Fields
<1> HIDE DEF T, l, e
<1>7. /\ e \in Memory /\ e.queue = m.queue \cup T /\ e.loaded = l
      /\ e.out = m.out /\ e.lost = m.lost /\ e.recent = m.recent /\ e.slots = m.slots
      /\ e.restored = m.restored
      /\ e.scans = m.scans /\ e.reading = m.reading /\ e.cont = m.cont
      /\ e.auto = m.auto /\ e.saving = m.saving
  BY <1>4, <1>5, <1>6 DEF Memory
<1>8. Loaded(e) = Loaded(m) \cup T
  BY <1>7 DEF Loaded
<1>9. \A d \in Day : e.loaded[d] = m.loaded[d] + Cardinality({t \in T : t.run = d})
  BY <1>7 DEF l
<1> QED
  BY <1>7, <1>8, <1>9 DEF T, e

LEMMA SoundEnqueued ==
  ASSUME NEW m, NEW today, Sound(m, today),
         NEW tasks \in SUBSET Task, Distinct(tasks),
         NEW run, \A t \in tasks : t.run = run, run <= today,
         \A u \in Loaded(m) : u.run = run,
         \A k \in Scanned(m) : run <= m.scans[k].run,
         m.reading # NotReading => m.scans[m.reading.key].run <= run
  PROVE  /\ Sound(Enqueued(m, tasks), today)
         /\ LoadedCount(Enqueued(m, tasks)) <= LoadedCount(m) + Cardinality(tasks)
<1> DEFINE e == Enqueued(m, tasks)
           T == Taken(m, tasks)
<1>0. m \in Memory /\ TasksOK(m, today) /\ m.queue \cap m.out = {} /\ Distinct(Loaded(m))
  BY DEF Sound, TasksOK
<1>1. /\ e \in Memory /\ e.queue = m.queue \cup T /\ Loaded(e) = Loaded(m) \cup T
      /\ \A d \in Day : e.loaded[d] = m.loaded[d] + Cardinality({t \in T : t.run = d})
      /\ e.out = m.out /\ e.lost = m.lost /\ e.scans = m.scans /\ e.reading = m.reading /\ e.cont = m.cont
  BY <1>0, EnqueuedIs
<1>2. T \in SUBSET tasks /\ \A t \in T : t.slice \notin SlicesOf(Loaded(m))
  BY DEF Taken
<1> HIDE DEF e, T
<1>3. \A t \in T, u \in Loaded(m) : t.slice # u.slice /\ t # u
  BY <1>2 DEF SlicesOf
<1>4. Distinct(Loaded(e))
  BY <1>0, <1>1, <1>2, <1>3 DEF Distinct
<1>5. e.queue \cap e.out = {}
  BY <1>0, <1>1, <1>3 DEF Loaded
<1>6. \A t \in Loaded(e) : t.run = run
  BY <1>1, <1>2
<1>7. ASSUME NEW d \in Day PROVE e.loaded[d] = Cardinality(OfRun(e, d))
  <2> DEFINE S == {t \in T : t.run = d}
  <2>1. OfRun(e, d) = OfRun(m, d) \cup S /\ OfRun(m, d) \cap S = {}
    BY <1>1, <1>3 DEF OfRun
  <2>2. IsFiniteSet(S)
    <3>1. S \in SUBSET Task /\ Distinct(S)
      BY <1>2 DEF Distinct
    <3> QED
      BY <3>1, CountSlices
  <2>3. IsFiniteSet(OfRun(m, d)) /\ m.loaded[d] = Cardinality(OfRun(m, d))
    BY <1>0, Counted DEF TasksOK
  <2>4. e.loaded[d] = m.loaded[d] + Cardinality(S)
    BY <1>1
  <2> HIDE DEF S
  <2>5. Cardinality(OfRun(e, d)) = Cardinality(OfRun(m, d)) + Cardinality(S)
    BY <2>1, <2>2, <2>3, CountDisjoint
  <2> QED
    BY <2>3, <2>4, <2>5
<1>8. TasksOK(e, today)
  BY <1>0, <1>1, <1>4, <1>5, <1>6, <1>7 DEF TasksOK
<1>9. Scanned(e) = Scanned(m)
  BY <1>1 DEF Scanned
<1>10. ScansOK(e, today)
  BY <1>1, <1>6, <1>9 DEF Sound, ScansOK
<1>11. ReadingOK(e)
  BY <1>1, <1>6, <1>9 DEF Sound, ReadingOK
<1>12. LoadedCount(e) <= LoadedCount(m) + Cardinality(tasks)
  <2>1. IsFiniteSet(T) /\ Cardinality(T) <= Cardinality(tasks) /\ Cardinality(tasks) \in Nat
    BY <1>2, CountSlices, FS_Subset
  <2>2. Loaded(m) \cap T = {} /\ IsFiniteSet(Loaded(m))
    BY <1>0, <1>3, Counted
  <2>3. Cardinality(Loaded(e)) = Cardinality(Loaded(m)) + Cardinality(T)
        /\ Cardinality(T) \in Nat /\ Cardinality(Loaded(m)) \in Nat
    BY <1>1, <2>1, <2>2, CountDisjoint
  <2>4. LoadedCount(e) = Cardinality(Loaded(e)) /\ LoadedCount(m) = Cardinality(Loaded(m))
    BY <1>0, <1>1, <1>8, Counted
  <2> QED
    BY <2>1, <2>3, <2>4
<1> QED
  BY <1>1, <1>8, <1>10, <1>11, <1>12 DEF Sound, e

-----------------------------------------------------------------------------
(* onTaskSettled: the task leaves, and comes back once more if it failed   *)
(* and has attempts left.                                                  *)
Tries(m, t) == m.attempts[t.slice][t.run] + 1
Retried(m, t, failed) == failed /\ Tries(m, t) <= MaxAttempts
Again(m, t) == [t EXCEPT !.attempt = Tries(m, t)]

Told(m, t, failed) ==
  [m EXCEPT
     !.out = @ \ {t},
     !.loaded[t.run] = @ - 1,
     !.attempts[t.slice][t.run] = IF Retried(m, t, failed) THEN Tries(m, t) ELSE 0,
     !.recent[t.slice] = IF Retried(m, t, failed) THEN @ ELSE t.run]

LEMMA SettledIs ==
  ASSUME NEW m, NEW t, NEW failed
  PROVE  Settled(m, t, failed) =
           IF Retried(m, t, failed) THEN Enqueued(Told(m, t, failed), {Again(m, t)})
           ELSE Told(m, t, failed)
  BY DEF Settled, Told, Retried, Tries, Again

LEMMA AgainFacts ==
  ASSUME NEW m \in Memory, NEW t \in Task, NEW failed, Retried(m, t, failed)
  PROVE  /\ Again(m, t) \in Task
         /\ Again(m, t).slice = t.slice /\ Again(m, t).run = t.run /\ Again(m, t).rust = t.rust
<1>1. m.attempts[t.slice][t.run] \in 0..MaxAttempts
  BY Fields, TaskFacts
<1>2. Tries(m, t) \in 0..MaxAttempts
  BY <1>1, Numbers DEF Retried, Tries
<1> QED
  BY <1>2, TaskFacts DEF Again, Task

LEMMA ToldIs ==
  ASSUME NEW m, NEW today, Sound(m, today), NEW t \in m.out, NEW failed
  PROVE  LET r == Told(m, t, failed) IN
         /\ r \in Memory /\ r.out = m.out \ {t} /\ r.queue = m.queue
         /\ Loaded(r) = Loaded(m) \ {t}
         /\ \A d \in Day : r.loaded[d] = IF d = t.run THEN m.loaded[d] - 1 ELSE m.loaded[d]
         /\ \A s \in Slice : r.recent[s] = IF s = t.slice /\ ~Retried(m, t, failed) THEN t.run
                                           ELSE m.recent[s]
         /\ r.lost = m.lost /\ r.slots = m.slots
         /\ r.restored = m.restored /\ r.scans = m.scans /\ r.reading = m.reading
         /\ r.cont = m.cont /\ r.auto = m.auto /\ r.saving = m.saving
<1>0. m \in Memory /\ TasksOK(m, today) /\ m.queue \cap m.out = {} /\ t \in Task
  BY Fields DEF Sound, TasksOK
<1> DEFINE l == [m.loaded EXCEPT ![t.run] = @ - 1]
           a == [m.attempts EXCEPT ![t.slice][t.run] = IF Retried(m, t, failed) THEN Tries(m, t) ELSE 0]
           c == [m.recent EXCEPT ![t.slice] = IF Retried(m, t, failed) THEN @ ELSE t.run]
<1>1. t.slice \in Slice /\ t.run \in Day /\ t \in OfRun(m, t.run)
  BY <1>0, TaskFacts DEF OfRun, Loaded
<1>2. m.loaded[t.run] \in Nat \ {0}
  <2>1. Cardinality(OfRun(m, t.run)) # 0 /\ Cardinality(OfRun(m, t.run)) \in Nat
    BY <1>0, <1>1, Counted, FS_EmptySet
  <2> QED
    BY <1>0, <1>1, <2>1 DEF TasksOK
<1>3. l \in [Day -> Nat] /\ \A d \in Day : l[d] = IF d = t.run THEN m.loaded[d] - 1 ELSE m.loaded[d]
  <2>1. m.loaded[t.run] - 1 \in Nat
    BY <1>2
  <2> QED
    BY <1>0, <1>1, <2>1, Fields
<1>4. a \in [Slice -> [Day -> 0..MaxAttempts]]
  <2>1. m.attempts[t.slice][t.run] \in 0..MaxAttempts
    BY <1>0, <1>1, Fields
  <2>2. (IF Retried(m, t, failed) THEN Tries(m, t) ELSE 0) \in 0..MaxAttempts
    BY <2>1, Numbers DEF Retried, Tries
  <2>3. m.attempts[t.slice] \in [Day -> 0..MaxAttempts]
    BY <1>0, <1>1, Fields
  <2>4. [m.attempts[t.slice] EXCEPT ![t.run] = IF Retried(m, t, failed) THEN Tries(m, t) ELSE 0]
          \in [Day -> 0..MaxAttempts]
    BY <1>1, <2>2, <2>3
  <2>5. a = [m.attempts EXCEPT ![t.slice] =
               [m.attempts[t.slice] EXCEPT ![t.run] = IF Retried(m, t, failed) THEN Tries(m, t) ELSE 0]]
    BY <1>0, <1>1, Fields
  <2> QED
    BY <1>0, <1>1, <2>4, <2>5, Fields
<1>5. c \in [Slice -> Day \cup {Never}]
      /\ \A s \in Slice : c[s] = IF s = t.slice /\ ~Retried(m, t, failed) THEN t.run ELSE m.recent[s]
  BY <1>0, <1>1, Fields
<1>6. Told(m, t, failed) = [m EXCEPT !.out = m.out \ {t}, !.loaded = l, !.attempts = a, !.recent = c]
  BY <1>0 DEF Told, Memory
<1> HIDE DEF l, a, c
<1> DEFINE r == Told(m, t, failed)
<1> HIDE DEF r
<1>7. /\ r \in Memory /\ r.out = m.out \ {t} /\ r.queue = m.queue /\ r.loaded = l /\ r.recent = c
      /\ r.lost = m.lost /\ r.slots = m.slots
      /\ r.restored = m.restored /\ r.scans = m.scans /\ r.reading = m.reading
      /\ r.cont = m.cont /\ r.auto = m.auto /\ r.saving = m.saving
  <2>1. r = [m EXCEPT !.out = m.out \ {t}, !.loaded = l, !.attempts = a, !.recent = c]
    BY <1>6 DEF r
  <2>2. m.out \ {t} \in SUBSET Task
    BY <1>0, Fields
  <2> QED
    BY <1>0, <1>3, <1>4, <1>5, <2>1, <2>2 DEF Memory
<1>8. Loaded(r) = Loaded(m) \ {t}
  BY <1>0, <1>7 DEF Loaded
<1> QED
  BY <1>3, <1>5, <1>7, <1>8 DEF r

LEMMA SoundTold ==
  ASSUME NEW m, NEW today, Sound(m, today), NEW t \in m.out, t \notin m.lost, NEW failed
  PROVE  /\ Sound(Told(m, t, failed), today)
         /\ LoadedCount(Told(m, t, failed)) = LoadedCount(m) - 1
<1> DEFINE r == Told(m, t, failed)
<1>0. m \in Memory /\ TasksOK(m, today) /\ t \in Loaded(m) /\ t \in Task /\ t.run \in Day
  BY Fields, TaskFacts DEF Sound, Loaded
<1>1. /\ r \in Memory /\ r.out = m.out \ {t} /\ r.queue = m.queue /\ Loaded(r) = Loaded(m) \ {t}
      /\ \A d \in Day : r.loaded[d] = IF d = t.run THEN m.loaded[d] - 1 ELSE m.loaded[d]
      /\ r.lost = m.lost /\ r.slots = m.slots
      /\ r.restored = m.restored /\ r.scans = m.scans /\ r.reading = m.reading
      /\ r.cont = m.cont
  BY ToldIs
<1> HIDE DEF r
<1>2. ASSUME NEW d \in Day PROVE r.loaded[d] = Cardinality(OfRun(r, d))
  <2>0. m.loaded[d] = Cardinality(OfRun(m, d)) /\ IsFiniteSet(OfRun(m, d))
    BY <1>0, Counted DEF TasksOK
  <2>1. CASE d = t.run
    <3>1. OfRun(r, d) = OfRun(m, d) \ {t} /\ t \in OfRun(m, d)
      BY <1>0, <1>1, <2>1 DEF OfRun
    <3>2. Cardinality(OfRun(m, d) \ {t}) = Cardinality(OfRun(m, d)) - 1
      BY <2>0, <3>1, FS_RemoveElement
    <3> QED
      BY <1>1, <2>0, <2>1, <3>1, <3>2
  <2>2. CASE d # t.run
    <3>1. OfRun(r, d) = OfRun(m, d)
      BY <1>1, <2>2 DEF OfRun
    <3> QED
      BY <1>1, <2>0, <2>2, <3>1
  <2> QED
    BY <2>1, <2>2
<1>3. TasksOK(r, today)
  BY <1>0, <1>1, <1>2 DEF TasksOK, Distinct
<1>4. Scanned(r) = Scanned(m)
  BY <1>1 DEF Scanned
<1>5. ScansOK(r, today)
  BY <1>1, <1>4 DEF Sound, ScansOK
<1>6. ReadingOK(r)
  BY <1>1, <1>4 DEF Sound, ReadingOK
<1>7. LoadedCount(r) = LoadedCount(m) - 1
  <2>1. Cardinality(Loaded(m) \ {t}) = Cardinality(Loaded(m)) - 1
    BY <1>0, Counted, FS_RemoveElement
  <2> QED
    BY <1>0, <1>1, <1>3, <2>1, Counted
<1> QED
  BY <1>1, <1>3, <1>5, <1>6, <1>7 DEF Sound, r

LEMMA SoundSettled ==
  ASSUME NEW m, NEW today, Sound(m, today), NEW t \in m.out, t \notin m.lost, NEW failed
  PROVE  /\ Sound(Settled(m, t, failed), today)
         /\ LoadedCount(Settled(m, t, failed)) <= LoadedCount(m)
         /\ Settled(m, t, failed).reading = m.reading
         /\ Bounded(m) => Bounded(Settled(m, t, failed))
<1> DEFINE r == Told(m, t, failed)
           e == Settled(m, t, failed)
<1>0. m \in Memory /\ TasksOK(m, today) /\ t \in Loaded(m) /\ t \in Task /\ t.run \in Day
      /\ ScansOK(m, today) /\ ReadingOK(m)
  BY Fields, TaskFacts DEF Sound, Loaded
<1>1. /\ r \in Memory /\ Loaded(r) = Loaded(m) \ {t} /\ r.scans = m.scans /\ r.reading = m.reading
      /\ Sound(r, today) /\ LoadedCount(r) = LoadedCount(m) - 1 /\ LoadedCount(m) \in Nat
  BY <1>0, ToldIs, SoundTold, Counted
<1>2. e = IF Retried(m, t, failed) THEN Enqueued(r, {Again(m, t)}) ELSE r
  BY SettledIs
<1> HIDE DEF r, e
<1>3. /\ Sound(e, today) /\ LoadedCount(e) <= LoadedCount(m) /\ e.reading = m.reading
      /\ LoadedCount(e) \in Nat
  <2>1. CASE ~Retried(m, t, failed)
    <3>1. e = r
      BY <1>2, <2>1
    <3>2. LoadedCount(r) \in Nat
      BY <1>1, Counted DEF Sound
    <3> QED
      BY <1>1, <3>1, <3>2
  <2>2. CASE Retried(m, t, failed)
    <3>1. {Again(m, t)} \in SUBSET Task /\ Distinct({Again(m, t)}) /\ Again(m, t).run = t.run
      BY <1>0, <2>2, AgainFacts DEF Distinct
    <3>2. \A u \in Loaded(r) : u.run = t.run
      BY <1>0, <1>1 DEF TasksOK
    <3>3. t.run <= today /\ \A k \in Scanned(r) : t.run <= r.scans[k].run
      BY <1>0, <1>1 DEF TasksOK, ScansOK, Scanned
    <3>4. r.reading # NotReading => r.scans[r.reading.key].run <= t.run
      BY <1>0, <1>1 DEF ReadingOK
    <3>5. e = Enqueued(r, {Again(m, t)})
      BY <1>2, <2>2
    <3>6. Sound(e, today) /\ LoadedCount(e) <= LoadedCount(r) + Cardinality({Again(m, t)})
      BY <1>1, <3>1, <3>2, <3>3, <3>4, <3>5, SoundEnqueued
    <3>7. Cardinality({Again(m, t)}) = 1
      BY FS_Singleton
    <3>8. e.reading = m.reading
      BY <1>1, <3>1, <3>5, EnqueuedIs
    <3>9. LoadedCount(e) \in Nat
      BY <3>6, Counted DEF Sound
    <3> QED
      BY <1>1, <3>6, <3>7, <3>8, <3>9
  <2> QED
    BY <2>1, <2>2
<1>4. Awaited(e) = Awaited(m) /\ Awaited(m) \in Nat
  BY <1>0, <1>3, AwaitedCount DEF Awaited
<1>5. Bounded(m) => Bounded(e)
  BY <1>1, <1>3, <1>4, Numbers DEF Bounded
<1> QED
  BY <1>3, <1>5 DEF e


-----------------------------------------------------------------------------
(* enqueueBacklog: a scan is begun or asked for again.                     *)
Fresh(today) ==
  [run |-> today, cursor |-> 0, failed |-> FALSE, next |-> Never, waiting |-> FALSE]

ScanAgain(scan, today) ==
  [scan EXCEPT !.next = IF scan.run # today THEN today ELSE @, !.failed = FALSE]

(* AskedFor, up to its requestScan.                                        *)
Asked(m, k, today) ==
  [m EXCEPT !.scans[BacklogKey(m, k)] =
     IF @ # NoScan THEN ScanAgain(m.scans[BacklogKey(m, k)], today) ELSE Fresh(today)]

LEMMA AskedForIs ==
  ASSUME NEW m, NEW k, NEW today
  PROVE  AskedFor(m, k, today) = Requested(Asked(m, k, today))
  BY DEF AskedFor, Asked, ScanAgain, Fresh

LEMMA AskedIs ==
  ASSUME NEW m \in Memory, NEW k \in Key, NEW today \in Day
  PROVE  LET r == Asked(m, k, today)
             b == BacklogKey(m, k) IN
         /\ b \in Key /\ (k = All => b = All)
         /\ r \in Memory
         /\ \A j \in Key : j # b => r.scans[j] = m.scans[j]
         /\ Scanned(r) = Scanned(m) \cup {b}
         /\ m.scans[b] = NoScan => /\ r.scans[b].run = today /\ r.scans[b].next = Never
                                   /\ r.scans[b].cursor = 0
         /\ m.scans[b] # NoScan => /\ r.scans[b].run = m.scans[b].run
                                   /\ r.scans[b].cursor = m.scans[b].cursor
                                   /\ r.scans[b].next = IF m.scans[b].run # today THEN today
                                                        ELSE m.scans[b].next
         /\ r.queue = m.queue /\ r.out = m.out /\ r.lost = m.lost /\ r.loaded = m.loaded
         /\ r.recent = m.recent /\ r.slots = m.slots
         /\ r.restored = m.restored /\ r.reading = m.reading /\ r.cont = m.cont
         /\ r.auto = m.auto /\ r.saving = m.saving
<1> DEFINE r == Asked(m, k, today)
           b == BacklogKey(m, k)
           x == IF m.scans[b] # NoScan THEN ScanAgain(m.scans[b], today) ELSE Fresh(today)
<1>1. b \in Key /\ (k = All => b = All)
  BY DEF BacklogKey, Key
<1>2. m.scans \in [Key -> Scan \cup {NoScan}]
  BY Fields
<1>3. /\ x \in Scan
      /\ m.scans[b] = NoScan => x.run = today /\ x.next = Never /\ x.cursor = 0
      /\ m.scans[b] # NoScan => /\ x.run = m.scans[b].run /\ x.cursor = m.scans[b].cursor
                                /\ x.next = IF m.scans[b].run # today THEN today ELSE m.scans[b].next
  <2>1. CASE m.scans[b] = NoScan
    BY <2>1, RowFacts DEF Fresh, Scan
  <2>2. CASE m.scans[b] # NoScan
    <3>1. m.scans[b] \in Scan
      BY <1>1, <1>2, <2>2, ScanFacts
    <3> QED
      BY <2>2, <3>1 DEF ScanAgain, Scan
  <2> QED
    BY <2>1, <2>2
<1>4. r = [m EXCEPT !.scans = [m.scans EXCEPT ![b] = x]]
  BY <1>1, <1>2 DEF Asked, Memory
<1> HIDE DEF x, b, r
<1>5. /\ r \in Memory /\ r.scans = [m.scans EXCEPT ![b] = x]
      /\ r.queue = m.queue /\ r.out = m.out /\ r.lost = m.lost /\ r.loaded = m.loaded
      /\ r.recent = m.recent /\ r.slots = m.slots
      /\ r.restored = m.restored /\ r.reading = m.reading /\ r.cont = m.cont
      /\ r.auto = m.auto /\ r.saving = m.saving
  <2>1. [m.scans EXCEPT ![b] = x] \in [Key -> Scan \cup {NoScan}]
    BY <1>1, <1>2, <1>3
  <2> QED
    BY <1>4, <2>1 DEF Memory
<1>6. r.scans[b] = x /\ \A j \in Key : j # b => r.scans[j] = m.scans[j]
  BY <1>1, <1>2, <1>5
<1>7. Scanned(r) = Scanned(m) \cup {b}
  <2>1. x # NoScan
    BY <1>3, ScanFacts
  <2> QED
    BY <1>1, <1>6, <2>1 DEF Scanned
<1> QED
  BY <1>1, <1>3, <1>5, <1>6, <1>7 DEF r, b

LEMMA SoundAsked ==
  ASSUME NEW m, NEW today, Sound(m, today), NEW k \in Key
  PROVE  /\ Sound(Asked(m, k, today), today)
         /\ Bounded(m) => Bounded(Asked(m, k, today))
<1> DEFINE r == Asked(m, k, today)
           b == BacklogKey(m, k)
<1>0. m \in Memory /\ today \in Day /\ today \in Nat
  BY Days DEF Sound
<1>1. /\ b \in Key /\ r \in Memory
      /\ \A j \in Key : j # b => r.scans[j] = m.scans[j]
      /\ Scanned(r) = Scanned(m) \cup {b}
      /\ m.scans[b] = NoScan => r.scans[b].run = today /\ r.scans[b].next = Never
      /\ m.scans[b] # NoScan => /\ r.scans[b].run = m.scans[b].run
                                /\ r.scans[b].next = IF m.scans[b].run # today THEN today
                                                     ELSE m.scans[b].next
      /\ r.queue = m.queue /\ r.out = m.out /\ r.lost = m.lost /\ r.loaded = m.loaded
      /\ r.reading = m.reading /\ r.cont = m.cont
  BY <1>0, AskedIs
<1> HIDE DEF r, b
<1>2. Loaded(r) = Loaded(m) /\ \A d : OfRun(r, d) = OfRun(m, d)
  BY <1>1 DEF Loaded, OfRun
<1>3. TasksOK(r, today)
  BY <1>1, <1>2 DEF Sound, TasksOK
<1>4. ASSUME NEW j \in Scanned(r)
      PROVE  /\ j \in Scanned(m) => r.scans[j].run = m.scans[j].run
             /\ j \notin Scanned(m) => r.scans[j].run = today /\ r.scans[j].next = Never
             /\ r.scans[j].next = today \/ (j \in Scanned(m) /\ r.scans[j].next = m.scans[j].next)
                \/ r.scans[j].next = Never
  BY <1>1 DEF Scanned
<1>5. ScansOK(r, today)
  <2> SUFFICES ASSUME NEW j \in Scanned(r)
               PROVE  /\ r.scans[j].run <= today
                      /\ r.scans[j].next # Never =>
                           r.scans[j].run <= r.scans[j].next /\ r.scans[j].next <= today
                      /\ \A t \in Loaded(r) : t.run <= r.scans[j].run
    BY DEF ScansOK
  <2>1. CASE j \in Scanned(m)
    <3>1. /\ m.scans[j].run <= today
          /\ m.scans[j].next # Never =>
               m.scans[j].run <= m.scans[j].next /\ m.scans[j].next <= today
          /\ \A t \in Loaded(m) : t.run <= m.scans[j].run
      BY <2>1 DEF Sound, ScansOK
    <3> QED
      BY <1>0, <1>2, <1>4, <2>1, <3>1
  <2>2. CASE j \notin Scanned(m)
    BY <1>0, <1>2, <1>4, <2>2 DEF Sound, TasksOK
  <2> QED
    BY <2>1, <2>2
<1>6. ReadingOK(r)
  <2> SUFFICES ASSUME r.reading # NotReading PROVE ReadingOK(r)
    BY DEF ReadingOK
  <2>1. ReadingOK(m) /\ m.reading # NotReading /\ m.reading.key \in Scanned(m)
    BY <1>1 DEF Sound, ReadingOK
  <2>2. r.reading.key \in Scanned(r) /\ r.scans[r.reading.key].run = m.scans[m.reading.key].run
    BY <1>1, <1>4, <2>1
  <2>3. m.scans[m.reading.key].run <= today
    BY <2>1 DEF Sound, ScansOK
  <2>4. \A j \in Scanned(r) : r.scans[r.reading.key].run <= r.scans[j].run
    BY <1>4, <2>1, <2>2, <2>3 DEF ReadingOK
  <2> QED
    BY <1>1, <1>2, <2>1, <2>2, <2>4 DEF ReadingOK
<1>7. LoadedCount(r) = LoadedCount(m) /\ Awaited(r) = Awaited(m)
  BY <1>1 DEF LoadedCount, Awaited
<1> QED
  BY <1>0, <1>1, <1>3, <1>5, <1>6, <1>7 DEF Sound, Bounded, r

LEMMA SoundAskedFor ==
  ASSUME NEW m, NEW today, Sound(m, today), NEW k \in Key
  PROVE  /\ Sound(AskedFor(m, k, today), today)
         /\ Bounded(m) => Bounded(AskedFor(m, k, today))
  BY AskedForIs, SoundAsked, SoundRequested

-----------------------------------------------------------------------------
(* The rows of a page.                                                     *)
LEMMA Least ==
  ASSUME NEW T \in SUBSET Nat, T # {}
  PROVE  \E x \in T : \A y \in T : x <= y
<1>1. PICK x \in T : \A y \in T : ~(<<y, x>> \in OpToRel(<, Nat))
  BY NatLessThanWellFounded, WFMin
<1>2. \A y \in T : x <= y
  <2> SUFFICES ASSUME NEW y \in T PROVE x <= y
    OBVIOUS
  <2>1. ~(<<y, x>> \in {ss \in Nat \X Nat : ss[1] < ss[2]})
    BY <1>1 DEF OpToRel
  <2> QED
    BY <2>1
<1> QED
  BY <1>2

LEMMA Greatest ==
  ASSUME NEW T \in SUBSET Nat, NEW n \in Nat, \A x \in T : x <= n, T # {}
  PROVE  \E x \in T : \A y \in T : y <= x
<1> DEFINE Above == {b \in Nat : \A x \in T : x <= b}
<1>1. n \in Above /\ Above \in SUBSET Nat
  OBVIOUS
<1> HIDE DEF Above
<1>2. PICK b \in Above : \A d \in Above : b <= d
  BY <1>1, Least
<1> USE DEF Above
<1>3. \A d \in Above : b <= d
  BY <1>2
<1>4. b \in T
  <2> SUFFICES ASSUME b \notin T PROVE FALSE
    OBVIOUS
  <2>1. \A x \in T : x <= b /\ x # b /\ x \in Nat
    BY <1>2
  <2>2. b >= 1
    <3>1. PICK x \in T : TRUE
      OBVIOUS
    <3>2. x <= b /\ x # b /\ x \in Nat /\ b \in Nat
      BY <2>1, <3>1
    <3> QED
      BY <3>2
  <2>3. b - 1 \in Above
    BY <2>1, <2>2
  <2> QED
    BY <1>3, <2>2, <2>3
<1> QED
  BY <1>4

LEMMA RangeFacts ==
  ASSUME NEW k \in Key, NEW scan \in Scan
  PROVE  /\ InRange(k, scan) \in SUBSET (1..Len(Rows)) /\ IsFiniteSet(InRange(k, scan))
         /\ InRange(k, scan) \in SUBSET Nat
         /\ \A i \in InRange(k, scan) : i > scan.cursor /\ i <= Len(Rows)
<1>1. scan.cursor \in Nat /\ Len(Rows) \in Nat
  BY ScanFacts, RowFacts
<1>2. InRange(k, scan) \in SUBSET (1..Len(Rows)) /\ InRange(k, scan) \in SUBSET Nat
      /\ \A i \in InRange(k, scan) : i > scan.cursor /\ i <= Len(Rows)
  BY <1>1 DEF InRange
<1>3. IsFiniteSet(1..Len(Rows))
  BY <1>1, FS_Interval
<1> QED
  BY <1>2, <1>3, FS_Subset

(* A page holds the first rows of the range, and no more than asked for.   *)
LEMMA PageFacts ==
  ASSUME NEW k \in Key, NEW scan \in Scan, NEW limit \in Nat
  PROVE  LET page == PageRows(k, scan, limit) IN
         /\ page \in SUBSET InRange(k, scan) /\ IsFiniteSet(page)
         /\ Cardinality(page) <= limit /\ Cardinality(page) \in Nat
         /\ page # {} => \E i \in page : \A j \in page : j <= i
<1> DEFINE range == InRange(k, scan)
           page == PageRows(k, scan, limit)
           UpTo(i) == {j \in range : j <= i}
<1>1. page = {i \in range : Cardinality(UpTo(i)) <= limit}
  BY DEF PageRows
<1>2. range \in SUBSET Nat /\ IsFiniteSet(range) /\ Len(Rows) \in Nat /\ \A i \in range : i <= Len(Rows)
  BY RangeFacts, RowFacts
<1>3. page \in SUBSET range /\ IsFiniteSet(page)
  BY <1>1, <1>2, FS_Subset
<1>4. Cardinality(page) \in Nat
  BY <1>3, FS_CardinalityType
<1> HIDE DEF page, range
<1>5. page # {} => \E i \in page : \A j \in page : j <= i
  <2>1. page \in SUBSET Nat /\ \A x \in page : x <= Len(Rows)
    BY <1>2, <1>3
  <2> QED
    BY <1>2, <2>1, Greatest
<1>6. Cardinality(page) <= limit
  <2>1. CASE page = {}
    BY <2>1, FS_EmptySet
  <2>2. CASE page # {}
    <3>1. PICK i \in page : \A j \in page : j <= i
      BY <1>5, <2>2
    <3>2. page \in SUBSET UpTo(i) /\ UpTo(i) \in SUBSET range
      BY <1>3, <3>1
    <3>3. IsFiniteSet(UpTo(i)) /\ Cardinality(UpTo(i)) \in Nat
      BY <1>2, <3>2, FS_Subset, FS_CardinalityType
    <3>4. Cardinality(page) <= Cardinality(UpTo(i))
      BY <3>2, <3>3, FS_Subset
    <3>5. Cardinality(UpTo(i)) <= limit
      BY <1>1, <3>1
    <3> QED
      BY <1>4, <3>3, <3>4, <3>5
  <2> QED
    BY <2>1, <2>2
<1> QED
  BY <1>3, <1>4, <1>5, <1>6 DEF page, range


LEMMA ImageCount ==
  ASSUME NEW S, IsFiniteSet(S), NEW f, DOMAIN f = S
  PROVE  /\ IsFiniteSet({f[x] : x \in S})
         /\ Cardinality({f[x] : x \in S}) <= Cardinality(S)
         /\ Cardinality({f[x] : x \in S}) \in Nat /\ Cardinality(S) \in Nat
<1> DEFINE T == {f[x] : x \in S}
           g == [x \in S |-> f[x]]
<1>1. g \in Surjection(S, T)
  BY DEF Surjection
<1>2. IsFiniteSet(T) /\ Cardinality(T) <= Cardinality(S)
  BY <1>1, FS_Surjection
<1> QED
  BY <1>2, FS_CardinalityType

-----------------------------------------------------------------------------
(* A change of the scans that keeps their runs.                            *)
LEMMA SoundScans ==
  ASSUME NEW m, NEW today, Sound(m, today), NEW r \in Memory,
         r.queue = m.queue, r.out = m.out, r.lost = m.lost, r.loaded = m.loaded,
         Scanned(r) \subseteq Scanned(m),
         \A k \in Scanned(r) : r.scans[k].run = m.scans[k].run /\ r.scans[k].next = m.scans[k].next,
         \/ r.reading = NotReading
         \/ r.reading = m.reading /\ r.cont = m.cont /\ Scanned(r) = Scanned(m)
  PROVE  Sound(r, today) /\ LoadedCount(r) = LoadedCount(m) /\ (Bounded(m) => Bounded(r))
<1>1. Loaded(r) = Loaded(m) /\ \A d : OfRun(r, d) = OfRun(m, d)
  BY DEF Loaded, OfRun
<1>2. TasksOK(r, today)
  BY <1>1 DEF Sound, TasksOK
<1>3. ScansOK(r, today)
  BY <1>1 DEF Sound, ScansOK
<1>4. ReadingOK(r)
  BY <1>1 DEF Sound, ReadingOK
<1>5. LoadedCount(r) = LoadedCount(m)
  BY DEF LoadedCount
<1>6. m \in Memory /\ TasksOK(m, today) /\ LoadedCount(m) \in Nat /\ Awaited(m) \in Nat
  BY Counted, AwaitedCount DEF Sound
<1>7. r.reading = NotReading => Awaited(r) = 0
  BY Fields, ReadingFacts DEF Awaited
<1>8. Awaited(r) <= Awaited(m)
  <2>1. CASE r.reading = NotReading
    BY <1>6, <1>7, <2>1
  <2>2. CASE r.reading = m.reading
    BY <1>6, <2>2 DEF Awaited
  <2> QED
    BY <2>1, <2>2
<1>9. Awaited(r) \in Nat
  BY AwaitedCount
<1>10. Bounded(m) => Bounded(r)
  BY <1>5, <1>6, <1>8, <1>9, Numbers DEF Bounded
<1> QED
  BY <1>2, <1>3, <1>4, <1>5, <1>10 DEF Sound

(* tick: failed scans may go on.                                           *)
Resumed(m) ==
  [m EXCEPT !.ticking = TRUE,
            !.scans = [k \in Key |-> IF @[k] = NoScan THEN NoScan ELSE [@[k] EXCEPT !.failed = FALSE]]]

LEMMA ResumedIs ==
  ASSUME NEW m \in Memory
  PROVE  LET r == Resumed(m) IN
         /\ r \in Memory /\ Scanned(r) = Scanned(m)
         /\ \A k \in Scanned(m) : /\ r.scans[k].run = m.scans[k].run
                                  /\ r.scans[k].next = m.scans[k].next
                                  /\ r.scans[k].cursor = m.scans[k].cursor
         /\ r.queue = m.queue /\ r.out = m.out /\ r.lost = m.lost /\ r.loaded = m.loaded
         /\ r.recent = m.recent /\ r.slots = m.slots
         /\ r.restored = m.restored /\ r.reading = m.reading /\ r.cont = m.cont
         /\ r.auto = m.auto /\ r.saving = m.saving
<1> DEFINE c == [k \in Key |-> IF m.scans[k] = NoScan THEN NoScan ELSE [m.scans[k] EXCEPT !.failed = FALSE]]
           r == Resumed(m)
<1>1. ASSUME NEW k \in Key, m.scans[k] # NoScan
      PROVE  /\ [m.scans[k] EXCEPT !.failed = FALSE] \in Scan
             /\ [m.scans[k] EXCEPT !.failed = FALSE].run = m.scans[k].run
             /\ [m.scans[k] EXCEPT !.failed = FALSE].next = m.scans[k].next
             /\ [m.scans[k] EXCEPT !.failed = FALSE].cursor = m.scans[k].cursor
  <2>1. m.scans[k] \in Scan
    BY <1>1, Fields, ScanFacts
  <2> QED
    BY <2>1 DEF Scan
<1>2. c \in [Key -> Scan \cup {NoScan}]
  BY <1>1
<1>3. \A k \in Key : c[k] # NoScan <=> m.scans[k] # NoScan
  BY <1>1, ScanFacts
<1>4. \A k \in Key : m.scans[k] # NoScan =>
        c[k].run = m.scans[k].run /\ c[k].next = m.scans[k].next /\ c[k].cursor = m.scans[k].cursor
  BY <1>1
<1>5. r = [m EXCEPT !.ticking = TRUE, !.scans = c]
  BY DEF Resumed, Memory
<1> HIDE DEF c, r
<1>6. /\ r \in Memory /\ r.scans = c
      /\ r.queue = m.queue /\ r.out = m.out /\ r.lost = m.lost /\ r.loaded = m.loaded
      /\ r.recent = m.recent /\ r.slots = m.slots
      /\ r.restored = m.restored /\ r.reading = m.reading /\ r.cont = m.cont
      /\ r.auto = m.auto /\ r.saving = m.saving
  BY <1>2, <1>5 DEF Memory
<1> QED
  BY <1>3, <1>4, <1>6 DEF Scanned, r

-----------------------------------------------------------------------------
(* The pieces of the handlers, for any mem.                                *)
Freed(m, s, n) == [m EXCEPT !.slots = @ \ {<<s, n>>}, !.restored = @ \ {<<s, n>>}]

LEMMA FreedIs ==
  ASSUME NEW m \in Memory, NEW s, NEW n
  PROVE  LET r == Freed(m, s, n) IN
         /\ r \in Memory
         /\ r.slots = m.slots \ {<<s, n>>} /\ r.restored = m.restored \ {<<s, n>>}
         /\ r.queue = m.queue /\ r.out = m.out /\ r.lost = m.lost /\ r.loaded = m.loaded
         /\ r.recent = m.recent /\ r.scans = m.scans /\ r.reading = m.reading /\ r.cont = m.cont
         /\ r.auto = m.auto /\ r.saving = m.saving /\ r.attempts = m.attempts
<1>1. m.slots \ {<<s, n>>} \in SUBSET Place /\ m.restored \ {<<s, n>>} \in SUBSET Place
  BY Fields
<1> QED
  BY <1>1 DEF Freed, Memory

LEMMA ReportedIs ==
  ASSUME NEW m, NEW s, NEW n, NEW failed, NEW r \in Reported(m, s, n, failed)
  PROVE  \E x : /\ r \in Drained(x)
                /\ \/ /\ x = Freed(m, s, n)
                      /\ (\A t \in m.out : t.slice # s) \/ <<s, n>> \notin m.slots
                   \/ \E t \in Freed(m, s, n).out :
                        /\ t \in m.out /\ t.slice = s /\ <<s, n>> \in m.slots
                        /\ x \in Drained(Settled(Freed(m, s, n), t, failed))
<1> DEFINE mine == {t \in m.out : t.slice = s /\ <<s, n>> \in m.slots}
           told == IF mine = {} THEN {Freed(m, s, n)}
                   ELSE Drained(Settled(Freed(m, s, n), CHOOSE t \in mine : TRUE, failed))
<1>1. PICK x \in told : r \in Drained(x)
  BY DEF Reported, Freed
<1>2. CASE mine = {}
  BY <1>1, <1>2
<1>3. CASE mine # {}
  <2>1. PICK t \in mine : t = CHOOSE u \in mine : TRUE
    BY <1>3
  <2>2. t \in Freed(m, s, n).out
    BY <2>1 DEF Freed
  <2> QED
    BY <1>1, <1>3, <2>1, <2>2
<1> QED
  BY <1>2, <1>3

LEMMA SoundReported ==
  ASSUME NEW m, NEW today, Sound(m, today), m.lost = {}, NEW s, NEW n, NEW failed,
         NEW r \in Reported(m, s, n, failed)
  PROVE  Sound(r, today) /\ (Bounded(m) => Bounded(r))
<1> DEFINE f == Freed(m, s, n)
<1>1. m \in Memory
  BY DEF Sound
<1>2. /\ f \in Memory /\ f.queue = m.queue /\ f.out = m.out /\ f.lost = m.lost /\ f.loaded = m.loaded
      /\ f.scans = m.scans /\ f.reading = m.reading /\ f.cont = m.cont
  BY <1>1, FreedIs
<1> HIDE DEF f
<1>3. Sound(f, today) /\ (Bounded(m) => Bounded(f))
  BY <1>2, SoundSame
<1>4. PICK x : /\ r \in Drained(x)
               /\ \/ x = f \/ \E t \in f.out : x \in Drained(Settled(f, t, failed))
  BY ReportedIs DEF f
<1>5. Sound(x, today) /\ (Bounded(f) => Bounded(x))
  <2>1. CASE x = f
    BY <1>3, <2>1
  <2>2. ASSUME NEW t \in f.out, x \in Drained(Settled(f, t, failed)) PROVE Sound(x, today) /\ (Bounded(f) => Bounded(x))
    BY <1>2, <1>3, <2>2, SoundSettled, SoundDrained
  <2> QED
    BY <1>4, <2>1, <2>2
<1> QED
  BY <1>3, <1>4, <1>5, SoundDrained


-----------------------------------------------------------------------------
(* Reading a page.                                                         *)
QueryFor(m, k, limit) ==
  [m EXCEPT !.cont = FALSE, !.reading = [stage |-> "query", key |-> k, limit |-> limit]]

LEMMA QueryForIs ==
  ASSUME NEW m \in Memory, NEW k \in Key, NEW limit \in 1..PageSize
  PROVE  LET r == QueryFor(m, k, limit) IN
         /\ r \in Memory /\ r.reading = [stage |-> "query", key |-> k, limit |-> limit] /\ ~r.cont
         /\ r.queue = m.queue /\ r.out = m.out /\ r.lost = m.lost /\ r.loaded = m.loaded
         /\ r.recent = m.recent /\ r.slots = m.slots /\ r.restored = m.restored /\ r.scans = m.scans
         /\ r.auto = m.auto /\ r.saving = m.saving
<1>1. [stage |-> "query", key |-> k, limit |-> limit] \in Reading
  BY DEF Reading
<1> QED
  BY <1>1 DEF QueryFor, Memory

LEMMA SoundQueryFor ==
  ASSUME NEW m, NEW today, Sound(m, today), Bounded(m), m.reading = NotReading,
         NEW k \in Ready(m), NEW limit \in 1..PageSize, LoadedCount(m) + limit <= MaxBuffered
  PROVE  Sound(QueryFor(m, k, limit), today) /\ Bounded(QueryFor(m, k, limit))
<1> DEFINE r == QueryFor(m, k, limit)
<1>0. m \in Memory /\ TasksOK(m, today) /\ k \in Scanned(m) /\ k \in Key
  BY DEF Sound, Ready, Scanned
<1>1. /\ r \in Memory /\ r.reading = [stage |-> "query", key |-> k, limit |-> limit] /\ ~r.cont
      /\ r.queue = m.queue /\ r.out = m.out /\ r.lost = m.lost /\ r.loaded = m.loaded
      /\ r.scans = m.scans
  BY <1>0, QueryForIs
<1> HIDE DEF r
<1>2. Loaded(r) = Loaded(m) /\ Scanned(r) = Scanned(m) /\ \A d : OfRun(r, d) = OfRun(m, d)
  BY <1>1 DEF Loaded, Scanned, OfRun
<1>3. TasksOK(r, today) /\ ScansOK(r, today)
  BY <1>1, <1>2 DEF Sound, TasksOK, ScansOK
<1>4. ReadingOK(r)
  <2>1. \A d \in Runs(m) : m.scans[k].run <= d
    BY DEF Ready
  <2>2. \A t \in Loaded(m) : m.scans[k].run <= t.run
    BY <1>0, <2>1, LoadedRuns
  <2>3. \A j \in Scanned(m) : m.scans[k].run <= m.scans[j].run
    BY <2>1 DEF Runs
  <2> QED
    BY <1>0, <1>1, <1>2, <2>2, <2>3 DEF ReadingOK
<1>5. Bounded(r)
  <2>1. r.reading.stage = "query" /\ r.reading # NotReading /\ r.reading.limit = limit
    BY <1>1 DEF NotReading
  <2> QED
    BY <1>1, <2>1 DEF Bounded, Awaited, LoadedCount
<1> QED
  BY <1>1, <1>3, <1>4, <1>5 DEF Sound, r

(* A page that is read further: the stage changes, and what is known of it.*)
LEMMA SoundStage ==
  ASSUME NEW m, NEW today, Sound(m, today), Bounded(m), m.reading # NotReading,
         NEW x \in Reading, x # NotReading, x.key = m.reading.key,
         x.stage = "ready" => /\ Cardinality(x.rows) <= m.reading.limit
                              /\ \A y, z \in x.rows : y[1] = z[1] => y = z,
         x.limit = m.reading.limit, m.reading.stage # "ready"
  PROVE  /\ Sound([m EXCEPT !.reading = x], today) /\ Bounded([m EXCEPT !.reading = x])
<1> DEFINE r == [m EXCEPT !.reading = x]
<1>0. m \in Memory /\ TasksOK(m, today) /\ LoadedCount(m) \in Nat
  BY Counted DEF Sound
<1>1. /\ r \in Memory /\ r.reading = x /\ r.cont = m.cont
      /\ r.queue = m.queue /\ r.out = m.out /\ r.lost = m.lost /\ r.loaded = m.loaded
      /\ r.scans = m.scans
  BY <1>0 DEF Memory
<1> HIDE DEF r
<1>2. Loaded(r) = Loaded(m) /\ Scanned(r) = Scanned(m) /\ \A d : OfRun(r, d) = OfRun(m, d)
  BY <1>1 DEF Loaded, Scanned, OfRun
<1>3. TasksOK(r, today) /\ ScansOK(r, today)
  BY <1>1, <1>2 DEF Sound, TasksOK, ScansOK
<1>4. ReadingOK(r)
  BY <1>1, <1>2 DEF Sound, ReadingOK
<1>5. Awaited(r) <= Awaited(m) /\ Awaited(r) \in Nat /\ Awaited(m) \in Nat /\ LoadedCount(r) = LoadedCount(m)
  <2>1. Awaited(m) = m.reading.limit /\ m.reading.limit \in Nat
    BY <1>0, Fields, ReadingFacts DEF Awaited
  <2>2. Awaited(r) <= m.reading.limit
    BY <1>1, <2>1, ReadingFacts DEF Awaited
  <2> QED
    BY <1>0, <1>1, <2>1, <2>2, AwaitedCount DEF LoadedCount
<1>6. Bounded(r)
  BY <1>0, <1>5, Numbers DEF Bounded
<1> QED
  BY <1>1, <1>3, <1>4, <1>6 DEF Sound, r

(* The page is there: which of its slices still have to be cleaned.        *)
Found(m) == {Rows[i] : i \in PageRows(m.reading.key, m.scans[m.reading.key], m.reading.limit)}
Unclean(m, k) ==
  {<<s, s \in k>> : s \in (Found(m) \ m.reading.completed) \cup (Found(m) \cap k)}

LEMMA FoundCount ==
  ASSUME NEW m \in Memory, m.reading # NotReading, m.reading.key \in Scanned(m)
  PROVE  /\ Found(m) \in SUBSET Slice /\ IsFiniteSet(Found(m))
         /\ Cardinality(Found(m)) <= m.reading.limit /\ Cardinality(Found(m)) \in Nat
<1> DEFINE page == PageRows(m.reading.key, m.scans[m.reading.key], m.reading.limit)
           f == [i \in page |-> Rows[i]]
<1>1. m.reading.key \in Key /\ m.scans[m.reading.key] \in Scan /\ m.reading.limit \in Nat
  BY Fields, ReadingFacts, ScanOf
<1>2. /\ page \in SUBSET InRange(m.reading.key, m.scans[m.reading.key]) /\ IsFiniteSet(page)
      /\ Cardinality(page) <= m.reading.limit /\ Cardinality(page) \in Nat
  BY <1>1, PageFacts
<1>3. page \in SUBSET (1..Len(Rows))
  BY <1>1, <1>2, RangeFacts
<1>4. Found(m) = {f[i] : i \in page}
  BY DEF Found
<1>5. Found(m) \in SUBSET Slice
  BY <1>3, <1>4, RowFacts
<1> HIDE DEF page, f
<1>6. DOMAIN f = page
  BY DEF f
<1>7. IsFiniteSet({f[i] : i \in page}) /\ Cardinality({f[i] : i \in page}) <= Cardinality(page)
      /\ Cardinality({f[i] : i \in page}) \in Nat
  BY <1>2, <1>6, ImageCount
<1> QED
  BY <1>1, <1>2, <1>4, <1>5, <1>7

LEMMA UncleanCount ==
  ASSUME NEW m \in Memory, m.reading # NotReading, m.reading.key \in Scanned(m), NEW k
  PROVE  /\ Unclean(m, k) \in SUBSET (Slice \X BOOLEAN)
         /\ Cardinality(Unclean(m, k)) <= m.reading.limit
         /\ \A x \in Unclean(m, k) : /\ x[1] \in Found(m) /\ x = <<x[1], x[1] \in k>>
                                     /\ x[1] \notin m.reading.completed \/ x[1] \in k
         /\ \A s \in Found(m) : s \notin m.reading.completed \/ s \in k => <<s, s \in k>> \in Unclean(m, k)
         /\ \A x, y \in Unclean(m, k) : x[1] = y[1] => x = y
<1> DEFINE X == (Found(m) \ m.reading.completed) \cup (Found(m) \cap k)
           f == [s \in X |-> <<s, s \in k>>]
<1>1. /\ Found(m) \in SUBSET Slice /\ IsFiniteSet(Found(m)) /\ m.reading.limit \in Nat
      /\ Cardinality(Found(m)) <= m.reading.limit /\ Cardinality(Found(m)) \in Nat
  BY FoundCount, Fields, ReadingFacts
<1>2. X \in SUBSET Found(m)
  OBVIOUS
<1>3. IsFiniteSet(X) /\ Cardinality(X) <= Cardinality(Found(m))
  BY <1>1, <1>2, FS_Subset
<1>4. Unclean(m, k) = {f[s] : s \in X}
  BY DEF Unclean
<1>5. \A x \in Unclean(m, k) : x[1] \in X /\ x = <<x[1], x[1] \in k>> /\ x \in Slice \X BOOLEAN
  <2> SUFFICES ASSUME NEW x \in Unclean(m, k) PROVE x[1] \in X /\ x = <<x[1], x[1] \in k>> /\ x \in Slice \X BOOLEAN
    OBVIOUS
  <2>1. PICK s \in X : x = <<s, s \in k>>
    BY DEF Unclean
  <2>2. s \in Slice /\ (s \in k) \in BOOLEAN
    BY <1>1, <1>2
  <2> QED
    BY <2>1, <2>2
<1>6. Cardinality({f[s] : s \in X}) <= Cardinality(X) /\ Cardinality({f[s] : s \in X}) \in Nat
      /\ Cardinality(X) \in Nat
  <2> HIDE DEF f, X
  <2>1. DOMAIN f = X
    BY DEF f
  <2> QED
    BY <1>3, <2>1, ImageCount
<1>7. \A s \in Found(m) : s \notin m.reading.completed \/ s \in k => <<s, s \in k>> \in Unclean(m, k)
  BY DEF Unclean
<1>8. \A x, y \in Unclean(m, k) : x[1] = y[1] => x = y
  <2> HIDE DEF X
  <2> SUFFICES ASSUME NEW x \in Unclean(m, k), NEW y \in Unclean(m, k), x[1] = y[1] PROVE x = y
    OBVIOUS
  <2>1. x = <<x[1], x[1] \in k>> /\ y = <<y[1], y[1] \in k>>
    BY <1>5
  <2> QED
    BY <2>1
<1> HIDE DEF f, X
<1>9. Cardinality(Unclean(m, k)) <= m.reading.limit
  BY <1>1, <1>3, <1>4, <1>6
<1>10. Unclean(m, k) \in SUBSET (Slice \X BOOLEAN)
  BY <1>5
<1>11. \A x \in Unclean(m, k) : /\ x[1] \in Found(m) /\ x = <<x[1], x[1] \in k>>
                                /\ x[1] \notin m.reading.completed \/ x[1] \in k
  BY <1>5 DEF X
<1> QED
  BY <1>7, <1>8, <1>9, <1>10, <1>11

(* The page is taken over, up to its drain.                                *)
PageTasks(m) ==
  {[slice |-> x[1], run |-> m.scans[m.reading.key].run, attempt |-> 0, rust |-> x[2]] :
     x \in m.reading.rows}

PageEnds(m) ==
  Cardinality(PageRows(m.reading.key, m.scans[m.reading.key], m.reading.limit)) < m.reading.limit

Moved(m) ==
  LET scan == m.scans[m.reading.key]
      page == PageRows(m.reading.key, scan, m.reading.limit)
  IN [scan EXCEPT !.cursor = IF page = {} THEN @
                             ELSE CHOOSE i \in page : \A j \in page : j <= i]

Arrived(m) ==
  [Enqueued(m, PageTasks(m)) EXCEPT
     !.reading = NotReading,
     !.scans[m.reading.key] = IF PageEnds(m) /\ m.scans[m.reading.key].next = Never THEN NoScan
                              ELSE [Moved(m) EXCEPT !.waiting = PageEnds(m)]]

LEMMA PageArrivesIs ==
  PageArrives => mem.reading.stage = "ready" /\ mem' \in Drained(Arrived(mem)) /\ Quiet
  BY DEF PageArrives, Arrived, PageTasks, PageEnds, Moved

LEMMA MovedIs ==
  ASSUME NEW m \in Memory, m.reading # NotReading, m.reading.key \in Scanned(m)
  PROVE  LET scan == m.scans[m.reading.key]
             page == PageRows(m.reading.key, scan, m.reading.limit)
             x == [Moved(m) EXCEPT !.waiting = PageEnds(m)] IN
         /\ x \in Scan /\ x.run = scan.run /\ x.next = scan.next /\ x.waiting = PageEnds(m)
         /\ page = {} => x.cursor = scan.cursor
         /\ page # {} => x.cursor \in page /\ \A j \in page : j <= x.cursor
<1> DEFINE scan == m.scans[m.reading.key]
           page == PageRows(m.reading.key, scan, m.reading.limit)
           c == IF page = {} THEN scan.cursor ELSE CHOOSE i \in page : \A j \in page : j <= i
           x == [Moved(m) EXCEPT !.waiting = PageEnds(m)]
<1>1. m.reading.key \in Key /\ scan \in Scan /\ m.reading.limit \in Nat
  BY Fields, ReadingFacts, ScanOf
<1>2. page \in SUBSET (1..Len(Rows)) /\ (page # {} => \E i \in page : \A j \in page : j <= i)
  BY <1>1, PageFacts, RangeFacts
<1>3. Moved(m) = [scan EXCEPT !.cursor = c]
  BY <1>1 DEF Moved, Scan
<1> HIDE DEF page
<1>4. /\ c \in 0..Len(Rows) /\ (page = {} => c = scan.cursor)
      /\ page # {} => c \in page /\ \A j \in page : j <= c
  <2>1. CASE page = {}
    BY <1>1, <2>1, ScanFacts
  <2>2. CASE page # {}
    <3>1. c \in page /\ \A j \in page : j <= c
      BY <1>2, <2>2
    <3>2. c \in 1..Len(Rows)
      BY <1>2, <3>1
    <3>3. c \in 0..Len(Rows)
      BY <3>2, RowFacts
    <3> QED
      BY <2>2, <3>1, <3>3
  <2> QED
    BY <2>1, <2>2
<1> HIDE DEF c
<1>5. PageEnds(m) \in BOOLEAN
  BY DEF PageEnds
<1>6. x = [[scan EXCEPT !.cursor = c] EXCEPT !.waiting = PageEnds(m)]
  BY <1>3
<1> HIDE DEF x, scan
<1>7. x \in Scan /\ x.run = scan.run /\ x.next = scan.next /\ x.waiting = PageEnds(m) /\ x.cursor = c
  BY <1>1, <1>4, <1>5, <1>6 DEF Scan
<1> QED
  BY <1>4, <1>7 DEF x, page, scan

LEMMA PageTasksAre ==
  ASSUME NEW m \in Memory, m.reading.stage = "ready", m.reading.key \in Scanned(m), ReadingOK(m)
  PROVE  /\ PageTasks(m) \in SUBSET Task /\ Distinct(PageTasks(m))
         /\ \A t \in PageTasks(m) : /\ t.run = m.scans[m.reading.key].run
                                    /\ <<t.slice, t.rust>> \in m.reading.rows
         /\ \A x \in m.reading.rows : \E t \in PageTasks(m) :
              t.slice = x[1] /\ t.run = m.scans[m.reading.key].run /\ t.rust = x[2]
         /\ Cardinality(PageTasks(m)) <= Cardinality(m.reading.rows)
         /\ Cardinality(m.reading.rows) \in Nat /\ Cardinality(PageTasks(m)) \in Nat
<1> DEFINE run == m.scans[m.reading.key].run
           task(x) == [slice |-> x[1], run |-> run, attempt |-> 0, rust |-> x[2]]
           f == [x \in m.reading.rows |-> task(x)]
<1>1. m.reading.rows \in SUBSET (Slice \X BOOLEAN) /\ m.reading # NotReading
  BY Fields, ReadingFacts
<1>2. run \in Day /\ 0 \in 0..MaxAttempts
  BY ScanOf, Numbers
<1>3. PageTasks(m) = {task(x) : x \in m.reading.rows}
  BY DEF PageTasks
<1>4. \A x \in m.reading.rows : task(x) \in Task /\ x = <<x[1], x[2]>>
  BY <1>1, <1>2 DEF Task
<1>5. PageTasks(m) \in SUBSET Task
  BY <1>3, <1>4
<1>6. Distinct(PageTasks(m))
  <2> SUFFICES ASSUME NEW x \in m.reading.rows, NEW y \in m.reading.rows, task(x).slice = task(y).slice
               PROVE  task(x) = task(y)
    BY <1>3 DEF Distinct
  <2>1. x[1] = y[1]
    OBVIOUS
  <2>2. x = y
    BY <1>1, <2>1 DEF ReadingOK
  <2> QED
    BY <2>2
<1>7. Cardinality(PageTasks(m)) <= Cardinality(m.reading.rows)
      /\ Cardinality(m.reading.rows) \in Nat /\ Cardinality(PageTasks(m)) \in Nat
  <2>1. IsFiniteSet(m.reading.rows) /\ PageTasks(m) = {f[x] : x \in m.reading.rows}
    BY <1>3, AwaitedCount
  <2> HIDE DEF f
  <2>2. DOMAIN f = m.reading.rows
    BY DEF f
  <2> QED
    BY <2>1, <2>2, ImageCount
<1>8. \A t \in PageTasks(m) : t.run = run /\ <<t.slice, t.rust>> \in m.reading.rows
  BY <1>3, <1>4
<1>9. \A x \in m.reading.rows : \E t \in PageTasks(m) : t.slice = x[1] /\ t.run = run /\ t.rust = x[2]
  <2> SUFFICES ASSUME NEW x \in m.reading.rows
               PROVE  \E t \in PageTasks(m) : t.slice = x[1] /\ t.run = run /\ t.rust = x[2]
    OBVIOUS
  <2>1. task(x) \in PageTasks(m)
    BY <1>3
  <2>2. task(x).slice = x[1] /\ task(x).run = run /\ task(x).rust = x[2]
    OBVIOUS
  <2> HIDE DEF task
  <2> QED
    BY <2>1, <2>2
<1> QED
  BY <1>5, <1>6, <1>7, <1>8, <1>9

LEMMA ArrivedIs ==
  ASSUME NEW m, NEW today, Sound(m, today), m.reading.stage = "ready"
  PROVE  LET r == Arrived(m)
             e == Enqueued(m, PageTasks(m))
             k == m.reading.key IN
         /\ e \in Memory /\ r \in Memory /\ r.reading = NotReading
         /\ \A j \in Key : j # k => r.scans[j] = m.scans[j]
         /\ IF PageEnds(m) /\ m.scans[k].next = Never THEN r.scans[k] = NoScan
            ELSE r.scans[k] = [Moved(m) EXCEPT !.waiting = PageEnds(m)]
         /\ r.queue = e.queue /\ r.out = e.out /\ r.lost = e.lost /\ r.loaded = e.loaded
         /\ r.recent = e.recent /\ r.slots = e.slots /\ r.restored = e.restored /\ r.cont = e.cont
         /\ r.auto = e.auto /\ r.saving = e.saving /\ e.scans = m.scans
<1> DEFINE e == Enqueued(m, PageTasks(m))
           r == Arrived(m)
           k == m.reading.key
           x == IF PageEnds(m) /\ m.scans[k].next = Never THEN NoScan
                ELSE [Moved(m) EXCEPT !.waiting = PageEnds(m)]
<1>1. m \in Memory /\ ReadingOK(m)
  BY DEF Sound
<1>2. m.reading # NotReading /\ k \in Scanned(m) /\ k \in Key
  BY <1>1, Fields, ReadingFacts DEF ReadingOK
<1>3. PageTasks(m) \in SUBSET Task /\ Distinct(PageTasks(m))
  BY <1>1, <1>2, PageTasksAre
<1>4. e \in Memory /\ e.scans = m.scans
  BY <1>1, <1>3, EnqueuedIs
<1>5. x \in Scan \cup {NoScan}
  BY <1>1, <1>2, MovedIs
<1>6. r = [e EXCEPT !.reading = NotReading, !.scans = [m.scans EXCEPT ![k] = x]]
  BY <1>4 DEF Arrived, Memory
<1>7. [m.scans EXCEPT ![k] = x] \in [Key -> Scan \cup {NoScan}]
  BY <1>1, <1>2, <1>5, Fields
<1>8. NotReading \in Reading
  BY DEF Reading
<1> HIDE DEF e, r, x, k
<1>9. /\ r \in Memory /\ r.reading = NotReading /\ r.scans = [m.scans EXCEPT ![k] = x]
      /\ r.queue = e.queue /\ r.out = e.out /\ r.lost = e.lost /\ r.loaded = e.loaded
      /\ r.recent = e.recent /\ r.slots = e.slots /\ r.restored = e.restored /\ r.cont = e.cont
      /\ r.auto = e.auto /\ r.saving = e.saving
  BY <1>4, <1>6, <1>7, <1>8 DEF Memory
<1>10. r.scans[k] = x /\ \A j \in Key : j # k => r.scans[j] = m.scans[j]
  BY <1>1, <1>2, <1>9, Fields
<1> QED
  BY <1>4, <1>9, <1>10 DEF e, r, x, k

LEMMA SoundArrived ==
  ASSUME NEW m, NEW today, Sound(m, today), Bounded(m), m.reading.stage = "ready"
  PROVE  Sound(Arrived(m), today) /\ Bounded(Arrived(m))
<1> DEFINE e == Enqueued(m, PageTasks(m))
           r == Arrived(m)
           k == m.reading.key
           run == m.scans[k].run
<1>1. m \in Memory /\ ReadingOK(m) /\ ScansOK(m, today) /\ TasksOK(m, today)
  BY DEF Sound
<1>2. m.reading # NotReading /\ k \in Scanned(m) /\ k \in Key
  BY <1>1, Fields, ReadingFacts DEF ReadingOK
<1>3. /\ PageTasks(m) \in SUBSET Task /\ Distinct(PageTasks(m)) /\ \A t \in PageTasks(m) : t.run = run
      /\ Cardinality(PageTasks(m)) <= Cardinality(m.reading.rows)
      /\ Cardinality(m.reading.rows) \in Nat /\ Cardinality(PageTasks(m)) \in Nat
  BY <1>1, <1>2, PageTasksAre
<1>4. run \in Nat /\ run <= today
  BY <1>1, <1>2, ScanOf DEF ScansOK
<1>5. \A u \in Loaded(m) : u.run = run
  <2>1. \A u \in Loaded(m) : u.run <= run /\ run <= u.run /\ u.run \in Nat
    BY <1>1, <1>2, LoadedFacts, TaskFacts DEF ScansOK, ReadingOK
  <2> QED
    BY <1>4, <2>1
<1>6. \A j \in Scanned(m) : run <= m.scans[j].run
  BY <1>1, <1>2 DEF ReadingOK
<1>7. Sound(e, today) /\ LoadedCount(e) <= LoadedCount(m) + Cardinality(PageTasks(m))
  BY <1>3, <1>4, <1>5, <1>6, SoundEnqueued
<1>8. /\ r \in Memory /\ r.reading = NotReading
      /\ \A j \in Key : j # k => r.scans[j] = m.scans[j]
      /\ IF PageEnds(m) /\ m.scans[k].next = Never THEN r.scans[k] = NoScan
         ELSE r.scans[k] = [Moved(m) EXCEPT !.waiting = PageEnds(m)]
      /\ r.queue = e.queue /\ r.out = e.out /\ r.lost = e.lost /\ r.loaded = e.loaded
      /\ e.scans = m.scans
  BY ArrivedIs
<1>9. LET x == [Moved(m) EXCEPT !.waiting = PageEnds(m)] IN x.run = run /\ x.next = m.scans[k].next
  BY <1>1, <1>2, MovedIs
<1> HIDE DEF e, r
<1>10. \A j \in Scanned(r) : j \in Scanned(e) /\ r.scans[j].run = e.scans[j].run
                                               /\ r.scans[j].next = e.scans[j].next
  BY <1>2, <1>8, <1>9 DEF Scanned
<1>11. Sound(r, today) /\ LoadedCount(r) = LoadedCount(e)
  BY <1>7, <1>8, <1>10, SoundScans
<1>12. Bounded(r)
  <2>1. Awaited(r) = 0
    BY <1>8 DEF Awaited, NotReading
  <2>2. Awaited(m) = Cardinality(m.reading.rows)
    BY DEF Awaited
  <2>3. LoadedCount(e) \in Nat /\ LoadedCount(m) \in Nat
    BY <1>1, <1>7, Counted DEF Sound
  <2> QED
    BY <1>3, <1>7, <1>11, <2>1, <2>2, <2>3, Numbers DEF Bounded
<1> QED
  BY <1>11, <1>12 DEF r

(* A query fails.                                                          *)
Failed(m) == [m EXCEPT !.scans[m.reading.key].failed = TRUE, !.reading = NotReading]

LEMMA FailedIs ==
  ASSUME NEW m \in Memory, m.reading # NotReading, m.reading.key \in Scanned(m)
  PROVE  LET r == Failed(m) IN
         /\ r \in Memory /\ r.reading = NotReading /\ Scanned(r) = Scanned(m)
         /\ \A k \in Scanned(m) : /\ r.scans[k].run = m.scans[k].run
                                  /\ r.scans[k].next = m.scans[k].next
                                  /\ r.scans[k].cursor = m.scans[k].cursor
         /\ r.queue = m.queue /\ r.out = m.out /\ r.lost = m.lost /\ r.loaded = m.loaded
         /\ r.recent = m.recent /\ r.slots = m.slots /\ r.restored = m.restored /\ r.cont = m.cont
         /\ r.auto = m.auto /\ r.saving = m.saving
<1> DEFINE k == m.reading.key
           x == [m.scans[k] EXCEPT !.failed = TRUE]
           r == Failed(m)
<1>1. k \in Key /\ m.scans[k] \in Scan /\ m.scans \in [Key -> Scan \cup {NoScan}]
  BY Fields, ReadingFacts, ScanOf
<1>2. /\ x \in Scan /\ x.run = m.scans[k].run /\ x.next = m.scans[k].next
      /\ x.cursor = m.scans[k].cursor /\ x # NoScan
  <2>1. /\ x \in Scan /\ x.run = m.scans[k].run /\ x.next = m.scans[k].next
        /\ x.cursor = m.scans[k].cursor
    BY <1>1 DEF Scan
  <2> QED
    BY <2>1, ScanFacts
<1>3. r = [m EXCEPT !.scans = [m.scans EXCEPT ![k] = x], !.reading = NotReading]
  BY <1>1 DEF Failed, Memory
<1>4. [m.scans EXCEPT ![k] = x] \in [Key -> Scan \cup {NoScan}] /\ NotReading \in Reading
  BY <1>1, <1>2 DEF Reading
<1> HIDE DEF x, r, k
<1>5. /\ r \in Memory /\ r.reading = NotReading /\ r.scans = [m.scans EXCEPT ![k] = x]
      /\ r.queue = m.queue /\ r.out = m.out /\ r.lost = m.lost /\ r.loaded = m.loaded
      /\ r.recent = m.recent /\ r.slots = m.slots /\ r.restored = m.restored /\ r.cont = m.cont
      /\ r.auto = m.auto /\ r.saving = m.saving
  BY <1>3, <1>4 DEF Memory
<1>6. \A j \in Key : r.scans[j] = IF j = k THEN x ELSE m.scans[j]
  BY <1>1, <1>5
<1>7. k \in Scanned(m)
  BY DEF k
<1>8. Scanned(r) = Scanned(m)
  BY <1>2, <1>6, <1>7 DEF Scanned
<1>9. \A j \in Scanned(m) : /\ r.scans[j].run = m.scans[j].run /\ r.scans[j].next = m.scans[j].next
                            /\ r.scans[j].cursor = m.scans[j].cursor
  BY <1>2, <1>6 DEF Scanned
<1> QED
  BY <1>5, <1>8, <1>9 DEF r

-----------------------------------------------------------------------------
(* The service after a start, on a later day, and with tasks lost.         *)
LEMMA SoundBooted ==
  ASSUME NEW today \in Day
  PROVE  Sound(Booted, today) /\ Bounded(Booted) /\ LoadedCount(Booted) = 0
<1>1. Booted \in Memory
  <2>1. NoScan \in {NoScan} /\ NotReading \in Reading
    BY DEF Reading
  <2>2. 0 \in 0..MaxAttempts /\ 0 \in Nat
    BY Numbers
  <2>3. [s \in Slice |-> [d \in Day |-> 0]] \in [Slice -> [Day -> 0..MaxAttempts]]
    BY <2>2
  <2> QED
    BY <2>1, <2>2, <2>3 DEF Booted, Memory
<1>2. /\ Loaded(Booted) = {} /\ Scanned(Booted) = {} /\ Booted.lost = {}
      /\ Booted.reading = NotReading /\ Booted.queue = {} /\ Booted.out = {}
  BY DEF Loaded, Scanned, Booted
<1>3. \A d \in Day : Booted.loaded[d] = 0 /\ OfRun(Booted, d) = {}
  BY <1>2 DEF OfRun, Booted
<1>4. Cardinality({}) = 0
  BY FS_EmptySet
<1>5. TasksOK(Booted, today)
  BY <1>2, <1>3, <1>4 DEF TasksOK, Distinct
<1>6. ScansOK(Booted, today) /\ ReadingOK(Booted)
  BY <1>2 DEF ScansOK, ReadingOK
<1>7. LoadedCount(Booted) = 0 /\ Awaited(Booted) = 0
  BY <1>2, <1>4 DEF LoadedCount, Awaited, NotReading
<1> QED
  BY <1>1, <1>5, <1>6, <1>7, Numbers DEF Sound, Bounded

LEMMA SoundLater ==
  ASSUME NEW m, NEW today, Sound(m, today), today + 1 \in Day
  PROVE  Sound(m, today + 1)
<1>1. m \in Memory /\ today \in Nat
  BY Days DEF Sound
<1>2. TasksOK(m, today + 1)
  BY <1>1, LoadedFacts, TaskFacts DEF Sound, TasksOK
<1>3. ScansOK(m, today + 1)
  <2>1. \A k \in Scanned(m) : m.scans[k].run \in Nat /\ m.scans[k].next \in Nat
    BY <1>1, ScanOf
  <2> QED
    BY <1>1, <2>1 DEF Sound, ScansOK
<1> QED
  BY <1>2, <1>3 DEF Sound

LEMMA SoundLost ==
  ASSUME NEW m, NEW today, Sound(m, today), NEW r \in Memory,
         r.queue = m.queue, r.out = m.out, r.lost \subseteq m.out, r.loaded = m.loaded,
         r.scans = m.scans, r.reading = m.reading, r.cont = m.cont
  PROVE  Sound(r, today) /\ (Bounded(m) => Bounded(r))
<1>1. Loaded(r) = Loaded(m) /\ Scanned(r) = Scanned(m) /\ \A d : OfRun(r, d) = OfRun(m, d)
  BY DEF Loaded, Scanned, OfRun
<1>2. TasksOK(r, today)
  BY <1>1 DEF Sound, TasksOK
<1>3. ScansOK(r, today) /\ ReadingOK(r)
  BY <1>1 DEF Sound, ScansOK, ReadingOK
<1>4. LoadedCount(r) = LoadedCount(m) /\ Awaited(r) = Awaited(m)
  BY DEF LoadedCount, Awaited
<1> QED
  BY <1>2, <1>3, <1>4 DEF Sound, Bounded

-----------------------------------------------------------------------------
(* The steps of the service.                                               *)
SchedInv == TypeOK /\ Sound(mem, day) /\ Bounded(mem)

(* The types of what is known of the nodes.                                *)
NodesTyped ==
  /\ away \subseteq Place /\ vacant \subseteq Place
  /\ answered \subseteq Place /\ unheard \subseteq Place
  /\ orphans \subseteq Slice /\ adrift \subseteq orphans

LEMMA NodesSame ==
  ASSUME NodesTyped, UNCHANGED <<nodeVars, histVars>>
  PROVE  NodesTyped'
  BY DEF NodesTyped, nodeVars, histVars

LEMMA PlaceFacts ==
  ASSUME mem \in Memory, NodesTyped
  PROVE  /\ Records(mem) \subseteq Place /\ Executing \subseteq Place /\ OnNodes \subseteq Slice
         /\ \A x \in Place : x = <<x[1], x[2]>> /\ x[1] \in Slice /\ x[2] \in Node
         /\ ActiveSlices(mem) \subseteq Slice
<1>1. Records(mem) \subseteq Place /\ Executing \subseteq Place
  BY Fields DEF Records, Executing, NodesTyped
<1>2. \A x \in Place : x = <<x[1], x[2]>> /\ x[1] \in Slice /\ x[2] \in Node
  BY DEF Place
<1> QED
  BY <1>1, <1>2 DEF OnNodes, ActiveSlices

Kept == Sound(mem', day) /\ Bounded(mem')

LEMMA AskStep ==
  ASSUME SchedInv, NEW k \in Key, CleanNow(k)
  PROVE  Kept
  BY SoundAskedFor, SoundDrained DEF SchedInv, CleanNow, Kept

LEMMA TickBeginStep ==
  ASSUME SchedInv, TickBegin
  PROVE  Kept
<1>1. mem' = Requested(Resumed(mem))
  BY DEF TickBegin, Resumed
<1>2. mem \in Memory /\ Sound(mem, day) /\ Bounded(mem)
  BY DEF SchedInv, Sound
<1>3. Sound(Resumed(mem), day) /\ Bounded(Resumed(mem))
  <2> DEFINE r == Resumed(mem)
  <2>1. /\ r \in Memory /\ Scanned(r) = Scanned(mem)
        /\ \A k \in Scanned(mem) : r.scans[k].run = mem.scans[k].run /\ r.scans[k].next = mem.scans[k].next
        /\ r.queue = mem.queue /\ r.out = mem.out /\ r.lost = mem.lost /\ r.loaded = mem.loaded
        /\ r.reading = mem.reading /\ r.cont = mem.cont
    BY <1>2, ResumedIs
  <2> HIDE DEF r
  <2>2. Sound(r, day) /\ Bounded(r)
    BY <1>2, <2>1, SoundScans
  <2> QED
    BY <2>2 DEF r
<1> QED
  BY <1>1, <1>3, SoundRequested DEF Kept

LEMMA TickEndStep ==
  ASSUME SchedInv, NEW due \in BOOLEAN, TickEnd(due)
  PROVE  Kept
<1> DEFINE m == [mem EXCEPT !.ticking = FALSE]
           a == AskedFor(m, All, day)
<1>1. mem \in Memory /\ Sound(mem, day) /\ Bounded(mem) /\ day \in Day
  BY DEF SchedInv, Sound
<1>2. /\ m \in Memory /\ m.queue = mem.queue /\ m.out = mem.out /\ m.lost = mem.lost
      /\ m.loaded = mem.loaded /\ m.scans = mem.scans /\ m.reading = mem.reading /\ m.cont = mem.cont
  BY <1>1 DEF Memory
<1>3. mem' \in Drained(m) \/ mem' = m \/ mem' \in Drained([a EXCEPT !.auto = day])
  BY DEF TickEnd
<1> HIDE DEF m
<1>4. Sound(m, day) /\ Bounded(m)
  BY <1>1, <1>2, SoundSame
<1>5. Sound(a, day) /\ Bounded(a) /\ a \in Memory
  BY <1>4, SoundAskedFor DEF Sound, Key
<1> HIDE DEF a
<1>6. Sound([a EXCEPT !.auto = day], day) /\ Bounded([a EXCEPT !.auto = day])
  <2> DEFINE r == [a EXCEPT !.auto = day]
  <2>1. /\ r \in Memory /\ r.queue = a.queue /\ r.out = a.out /\ r.lost = a.lost
        /\ r.loaded = a.loaded /\ r.scans = a.scans /\ r.reading = a.reading /\ r.cont = a.cont
    BY <1>1, <1>5 DEF Memory
  <2> HIDE DEF r
  <2>2. Sound(r, day) /\ Bounded(r)
    BY <1>5, <2>1, SoundSame
  <2> QED
    BY <2>2 DEF r
<1> QED
  BY <1>3, <1>4, <1>6, SoundDrained DEF Kept

LEMMA DrainStep ==
  ASSUME SchedInv, DrainTurn
  PROVE  Kept
<1> DEFINE m == [mem EXCEPT !.turn = FALSE]
<1>1. mem \in Memory /\ Sound(mem, day) /\ Bounded(mem)
  BY DEF SchedInv, Sound
<1>2. /\ m \in Memory /\ m.queue = mem.queue /\ m.out = mem.out /\ m.lost = mem.lost
      /\ m.loaded = mem.loaded /\ m.scans = mem.scans /\ m.reading = mem.reading /\ m.cont = mem.cont
  BY <1>1 DEF Memory
<1>3. mem' \in Drained(m)
  BY DEF DrainTurn
<1> HIDE DEF m
<1>4. Sound(m, day) /\ Bounded(m)
  BY <1>1, <1>2, SoundSame
<1> QED
  BY <1>3, <1>4, SoundDrained DEF Kept

LEMMA SaveStep ==
  ASSUME SchedInv, NEW ok \in BOOLEAN, SaveDay(ok)
  PROVE  Kept /\ lastRun' \in Day \cup {Never}
<1> DEFINE x == IF ok /\ mem.auto = mem.saving THEN Never ELSE mem.auto
           m == [mem EXCEPT !.saving = Never, !.auto = x]
<1>1. mem \in Memory /\ Sound(mem, day) /\ Bounded(mem)
      /\ lastRun \in Day \cup {Never} /\ mem.saving \in Day \cup {Never}
  BY Fields DEF SchedInv, Sound, TypeOK
<1>2. x \in Day \cup {Never}
  BY <1>1, Fields
<1>3. mem' = m
  BY <1>1 DEF SaveDay, Memory
<1> HIDE DEF x
<1>4. /\ m \in Memory /\ m.queue = mem.queue /\ m.out = mem.out /\ m.lost = mem.lost
      /\ m.loaded = mem.loaded /\ m.scans = mem.scans /\ m.reading = mem.reading /\ m.cont = mem.cont
  BY <1>1, <1>2 DEF Memory
<1> HIDE DEF m
<1>5. Sound(m, day) /\ Bounded(m)
  BY <1>1, <1>4, SoundSame
<1> QED
  BY <1>1, <1>3, <1>5 DEF Kept, SaveDay

LEMMA LoadStep ==
  ASSUME SchedInv, LoadPage
  PROVE  Kept
<1> DEFINE m == [mem EXCEPT !.cont = FALSE]
           room == MaxBuffered - LoadedCount(m)
           l == IF room < PageSize THEN room ELSE PageSize
<1>1. mem \in Memory /\ Sound(mem, day) /\ Bounded(mem) /\ mem.reading = NotReading
  BY DEF SchedInv, Sound, LoadPage, ReadingOK
<1>2. /\ m \in Memory /\ m.queue = mem.queue /\ m.out = mem.out /\ m.lost = mem.lost
      /\ m.loaded = mem.loaded /\ m.scans = mem.scans /\ m.reading = mem.reading /\ ~m.cont
  BY <1>1 DEF Memory
<1>3. \/ mem' = m
      \/ room > 0 /\ \E k \in Ready(m) :
           mem' = [m EXCEPT !.reading = [stage |-> "query", key |-> k, limit |-> l]]
  <2>1. LoadedCount(m) = LoadedCount(mem)
    BY <1>2 DEF LoadedCount
  <2>2. LoadedCount(mem) \in Nat
    BY <1>1, Counted DEF Sound
  <2> HIDE DEF m
  <2>3. CASE room <= 0 \/ Idle(m) = {} \/ Ready(m) = {}
    BY <2>3 DEF LoadPage, m
  <2>4. CASE ~(room <= 0 \/ Idle(m) = {} \/ Ready(m) = {})
    <3>1. \E k \in Ready(m) : mem' = [m EXCEPT !.reading = [stage |-> "query", key |-> k, limit |-> l]]
      BY <2>4 DEF LoadPage, m
    <3>2. room > 0
      BY <2>1, <2>2, <2>4, Numbers
    <3> QED
      BY <3>1, <3>2
  <2> QED
    BY <2>3, <2>4
<1> HIDE DEF m
<1>4. Sound(m, day) /\ Bounded(m)
  BY <1>1, <1>2, SoundSame
<1>5. CASE mem' = m
  BY <1>4, <1>5 DEF Kept
<1>6. ASSUME room > 0, NEW k \in Ready(m),
             mem' = [m EXCEPT !.reading = [stage |-> "query", key |-> k, limit |-> l]]
      PROVE  Kept
  <2>1. LoadedCount(m) \in Nat
    BY <1>4, Counted DEF Sound
  <2>2. l \in 1..PageSize /\ LoadedCount(m) + l <= MaxBuffered
    BY <1>6, <2>1, Numbers
  <2> HIDE DEF l
  <2>3. mem' = QueryFor(m, k, l)
    BY <1>2, <1>6 DEF QueryFor, Memory
  <2> QED
    BY <1>1, <1>2, <1>4, <2>2, <2>3, SoundQueryFor DEF Kept
<1> QED
  BY <1>3, <1>5, <1>6

LEMMA CompletedStep ==
  ASSUME SchedInv, QueryCompleted
  PROVE  Kept
<1> DEFINE x == [stage |-> "marks", key |-> mem.reading.key, limit |-> mem.reading.limit,
                 completed |-> written]
<1>1. mem \in Memory /\ Sound(mem, day) /\ Bounded(mem) /\ mem.reading \in Reading
      /\ written \in SUBSET Slice
  BY Fields DEF SchedInv, Sound, TypeOK
<1>2. mem.reading # NotReading /\ mem.reading.stage # "ready"
  BY <1>1, ReadingFacts DEF QueryCompleted
<1>3. mem.reading.key \in Key /\ mem.reading.limit \in 1..PageSize
  BY <1>1, <1>2, ReadingFacts
<1>4. x \in Reading /\ x # NotReading /\ x.key = mem.reading.key /\ x.limit = mem.reading.limit
      /\ x.stage # "ready"
  BY <1>1, <1>3 DEF Reading, NotReading
<1>5. mem' = [mem EXCEPT !.reading = x]
  BY <1>1 DEF QueryCompleted, Memory
<1> HIDE DEF x
<1> QED
  BY <1>1, <1>2, <1>4, <1>5, SoundStage DEF Kept

LEMMA MarksStep ==
  ASSUME SchedInv, QueryMarks
  PROVE  Kept
<1> DEFINE x == [stage |-> "ready", key |-> mem.reading.key, limit |-> mem.reading.limit,
                 rows |-> Unclean(mem, marked)]
<1>1. mem \in Memory /\ Sound(mem, day) /\ Bounded(mem) /\ mem.reading \in Reading
  BY Fields DEF SchedInv, Sound
<1>2. mem.reading # NotReading /\ mem.reading.stage # "ready"
  BY <1>1, ReadingFacts DEF QueryMarks
<1>3. mem.reading.key \in Key /\ mem.reading.limit \in 1..PageSize /\ mem.reading.key \in Scanned(mem)
  BY <1>1, <1>2, ReadingFacts DEF Sound, ReadingOK
<1>4. /\ Unclean(mem, marked) \in SUBSET (Slice \X BOOLEAN)
      /\ Cardinality(Unclean(mem, marked)) <= mem.reading.limit
      /\ \A y, z \in Unclean(mem, marked) : y[1] = z[1] => y = z
  BY <1>1, <1>2, <1>3, UncleanCount
<1>5. x \in Reading /\ x # NotReading /\ x.key = mem.reading.key /\ x.limit = mem.reading.limit
      /\ x.rows = Unclean(mem, marked)
  <2> DEFINE u == Unclean(mem, marked)
  <2> HIDE DEF u
  <2>1. u \in SUBSET (Slice \X BOOLEAN)
    BY <1>4 DEF u
  <2>2. [stage |-> "ready", key |-> mem.reading.key, limit |-> mem.reading.limit, rows |-> u] \in Reading
    BY <1>3, <2>1 DEF Reading
  <2>3. x.stage # NotReading.stage
    BY DEF NotReading
  <2> QED
    BY <2>2, <2>3 DEF u
<1>6. mem' = [mem EXCEPT !.reading = x]
  BY DEF QueryMarks, Unclean, Found
<1> HIDE DEF x
<1> QED
  BY <1>1, <1>2, <1>4, <1>5, <1>6, SoundStage DEF Kept

LEMMA ArrivesStep ==
  ASSUME SchedInv, PageArrives
  PROVE  Kept
<1>1. Sound(Arrived(mem), day) /\ Bounded(Arrived(mem))
  BY PageArrivesIs, SoundArrived DEF SchedInv
<1> QED
  BY <1>1, PageArrivesIs, SoundDrained DEF Kept

LEMMA FailsStep ==
  ASSUME SchedInv, PageFails
  PROVE  Kept
<1> DEFINE r == Failed(mem)
<1>1. mem \in Memory /\ Sound(mem, day) /\ Bounded(mem) /\ mem.reading # NotReading
      /\ mem.reading.key \in Scanned(mem)
  BY DEF SchedInv, Sound, PageFails, ReadingOK
<1>2. /\ r \in Memory /\ r.reading = NotReading /\ Scanned(r) = Scanned(mem)
      /\ \A k \in Scanned(mem) : r.scans[k].run = mem.scans[k].run /\ r.scans[k].next = mem.scans[k].next
      /\ r.queue = mem.queue /\ r.out = mem.out /\ r.lost = mem.lost /\ r.loaded = mem.loaded
  BY <1>1, FailedIs
<1>3. mem' \in Drained(r)
  BY DEF PageFails, Failed
<1> HIDE DEF r
<1>4. Sound(r, day) /\ Bounded(r)
  BY <1>1, <1>2, SoundScans
<1> QED
  BY <1>3, <1>4, SoundDrained DEF Kept

LEMMA EndsStep ==
  ASSUME SchedInv, NodesTyped, Quiet, NEW s \in Slice, NEW n \in Node, NEW failed \in BOOLEAN,
         Ends(s, n, failed)
  PROVE  Kept /\ NodesTyped'
<1>1. Sound(mem, day) /\ Bounded(mem) /\ mem.lost = {}
  BY DEF SchedInv, Quiet
<1>2. <<s, n>> \in Place /\ ResultKept(s, n) \subseteq Place
  BY DEF Place, ResultKept
<1>3. CASE EndHeard(s, n, failed)
  <2>1. Kept
    BY <1>1, <1>3, SoundReported DEF EndHeard, Kept
  <2> QED
    BY <1>2, <1>3, <2>1 DEF EndHeard, NodesTyped, histVars
<1>4. CASE EndAway(s, n)
  BY <1>1, <1>2, <1>4 DEF EndAway, NodesTyped, histVars, Kept
<1>5. CASE EndMissed(s, n)
  BY <1>1, <1>2, <1>5 DEF EndMissed, NodesTyped, Kept
<1> QED
  BY <1>3, <1>4, <1>5 DEF Ends

(* A node stops being alive, or is given up by the status timer: its       *)
(* records are freed, gone, and some tasks are to be settled as lost.      *)
LEMMA GoneStep ==
  ASSUME SchedInv, NEW n, NodeGone(n)
  PROVE  Kept
<1> DEFINE r == [mem EXCEPT !.online = @ \ {n}]
<1>1. mem \in Memory /\ Sound(mem, day) /\ Bounded(mem)
  BY DEF SchedInv, Sound
<1>2. mem' = r
  BY DEF NodeGone
<1>3. /\ r \in Memory /\ r.queue = mem.queue /\ r.out = mem.out /\ r.lost = mem.lost
      /\ r.loaded = mem.loaded /\ r.scans = mem.scans /\ r.reading = mem.reading /\ r.cont = mem.cont
  BY <1>1 DEF Memory
<1> HIDE DEF r
<1> QED
  BY <1>1, <1>2, <1>3, SoundSame DEF Kept

LEMMA SettleBusyStep ==
  ASSUME SchedInv, NodesTyped, NEW n \in Node, SettleIfBusy(n)
  PROVE  Kept /\ NodesTyped'
<1> DEFINE gone == OfNode(Records(mem), n)
           lost == {t \in mem.out : <<t.slice, n>> \in mem.slots}
           r == [mem EXCEPT !.slots = @ \ gone, !.restored = @ \ gone, !.lost = lost]
<1>1. mem \in Memory /\ Sound(mem, day) /\ Bounded(mem)
  BY DEF SchedInv, Sound
<1>2. mem' = r
  BY DEF SettleIfBusy
<1>3. lost \in SUBSET mem.out
  OBVIOUS
<1>4. gone \subseteq Place /\ \A x \in gone : x[1] \in Slice
  BY <1>1, PlaceFacts DEF OfNode
<1>5. NodesTyped'
  BY <1>4 DEF SettleIfBusy, NodesTyped
<1> HIDE DEF lost, gone
<1>6. /\ r \in Memory /\ r.queue = mem.queue /\ r.out = mem.out /\ r.lost = lost
      /\ r.loaded = mem.loaded /\ r.scans = mem.scans /\ r.reading = mem.reading /\ r.cont = mem.cont
  BY <1>1, <1>3 DEF Memory
<1> HIDE DEF r
<1> QED
  BY <1>1, <1>2, <1>3, <1>5, <1>6, SoundLost DEF Kept

LEMMA NotifyStep ==
  ASSUME SchedInv, NEW t \in mem.lost, NotifyLost(t)
  PROVE  Kept
<1> DEFINE r == [mem EXCEPT !.lost = @ \ {t}]
<1>1. mem \in Memory /\ Sound(mem, day) /\ Bounded(mem) /\ mem.lost \subseteq mem.out
  BY DEF SchedInv, Sound, TasksOK
<1>2. mem' \in Drained(Settled(r, t, TRUE))
  BY DEF NotifyLost
<1>3. /\ r \in Memory /\ r.queue = mem.queue /\ r.out = mem.out /\ r.lost = mem.lost \ {t}
      /\ r.loaded = mem.loaded /\ r.scans = mem.scans /\ r.reading = mem.reading /\ r.cont = mem.cont
  BY <1>1 DEF Memory
<1> HIDE DEF r
<1>4. Sound(r, day) /\ Bounded(r) /\ t \in r.out /\ t \notin r.lost
  BY <1>1, <1>3, SoundLost
<1>5. Sound(Settled(r, t, TRUE), day) /\ Bounded(Settled(r, t, TRUE))
  BY <1>4, SoundSettled
<1> QED
  BY <1>2, <1>5, SoundDrained DEF Kept

(* A node dials in: what it lists, the records that are freed and those it *)
(* takes again, and the tasks lost.                                        *)
Listed(n) == OfNode(Executing \cup unheard, n)
Missing(n) == OfNode(Records(mem), n) \ Listed(n)
Lost(n) == {t \in mem.out : <<t.slice, n>> \in mem.slots \cap Missing(n)}
Joined(n) ==
  [mem EXCEPT !.online = @ \cup {n},
              !.slots = @ \ Missing(n),
              !.restored = (@ \ Missing(n)) \cup (Listed(n) \ mem.slots),
              !.lost = Lost(n)]

LEMMA NodeJoinsIs ==
  ASSUME NEW n, NodeJoins(n)
  PROVE  /\ mem.lost = {} /\ (mem' \in Drained(Joined(n)) \/ mem' = Joined(n))
         /\ away' = away \ OfNode(away, n)
         /\ vacant' = (vacant \ OfNode(vacant, n)) \cup (Listed(n) \ Executing)
         /\ orphans' = orphans \cup {x[1] : x \in Listed(n) \ mem.slots}
         /\ adrift' = adrift \cup {x[1] : x \in Listed(n) \ mem.slots}
         /\ UNCHANGED <<day, answered, unheard, dataVars, lastRun, limitVars>>
  BY DEF NodeJoins, Joined, Listed, Missing, Lost, Quiet

LEMMA JoinedIs ==
  ASSUME mem \in Memory, NodesTyped, NEW n \in Node
  PROVE  LET r == Joined(n) IN
         /\ r \in Memory
         /\ r.slots = mem.slots \ Missing(n)
         /\ r.restored = (mem.restored \ Missing(n)) \cup (Listed(n) \ mem.slots)
         /\ r.lost = Lost(n) /\ Lost(n) \subseteq mem.out
         /\ r.queue = mem.queue /\ r.out = mem.out /\ r.loaded = mem.loaded
         /\ r.recent = mem.recent /\ r.scans = mem.scans /\ r.reading = mem.reading
         /\ r.cont = mem.cont /\ r.auto = mem.auto /\ r.saving = mem.saving
         /\ Listed(n) \subseteq Place /\ \A x \in Listed(n) : x[1] \in Slice
<1>1. Listed(n) \subseteq Place /\ \A x \in Listed(n) : x[1] \in Slice
  BY PlaceFacts DEF Listed, OfNode, NodesTyped
<1>2. /\ mem.slots \ Missing(n) \in SUBSET Place
      /\ (mem.restored \ Missing(n)) \cup (Listed(n) \ mem.slots) \in SUBSET Place
      /\ Lost(n) \in SUBSET Task /\ Lost(n) \subseteq mem.out
      /\ mem.online \cup {n} \in SUBSET Node
  <2>1. mem.online \in SUBSET Node
    BY DEF Memory
  <2> QED
    BY <1>1, <2>1, Fields DEF Lost
<1> QED
  BY <1>1, <1>2 DEF Joined, Memory

LEMMA JoinStep ==
  ASSUME SchedInv, NodesTyped, NEW n \in Node, NodeJoins(n)
  PROVE  Kept /\ NodesTyped'
<1>1. mem \in Memory /\ Sound(mem, day) /\ Bounded(mem)
  BY DEF SchedInv, Sound
<1>2. mem' \in Drained(Joined(n)) \/ mem' = Joined(n)
  BY NodeJoinsIs
<1>3. /\ Joined(n) \in Memory /\ Joined(n).lost \subseteq mem.out
      /\ Joined(n).queue = mem.queue /\ Joined(n).out = mem.out /\ Joined(n).loaded = mem.loaded
      /\ Joined(n).scans = mem.scans /\ Joined(n).reading = mem.reading
      /\ Joined(n).cont = mem.cont
  BY <1>1, JoinedIs
<1>4. Sound(Joined(n), day) /\ Bounded(Joined(n))
  BY <1>1, <1>3, SoundLost
<1>5. NodesTyped'
  <2>1. Listed(n) \subseteq Place /\ \A x \in Listed(n) : x[1] \in Slice
    BY <1>1, JoinedIs
  <2> QED
    BY <2>1, NodeJoinsIs DEF NodesTyped
<1> QED
  BY <1>2, <1>4, <1>5, SoundDrained DEF Kept

(* A node is killed, or a result it kept is sent again.                    *)
LEMMA DiesStep ==
  ASSUME SchedInv, NodesTyped, NEW n \in Node, NodeDies(n)
  PROVE  Kept /\ NodesTyped'
<1>1. mem \in Memory /\ Kept
  BY DEF SchedInv, Sound, Kept, NodeDies
<1>2. OfNode(Records(mem), n) \subseteq Place
  BY <1>1, PlaceFacts DEF OfNode
<1> QED
  BY <1>1, <1>2 DEF NodeDies, NodesTyped, histVars

LEMMA ReplayedStep ==
  ASSUME SchedInv, NodesTyped, NEW s \in Slice, NEW n \in Node, ResultReplayed(s, n)
  PROVE  Kept /\ NodesTyped'
<1>1. Sound(mem, day) /\ Bounded(mem) /\ mem.lost = {}
  BY DEF SchedInv, ResultReplayed, Quiet
<1>2. Kept
  BY <1>1, SoundReported DEF ResultReplayed, Kept
<1> QED
  BY <1>2 DEF ResultReplayed, NodesTyped, histVars

(* A step keeps the memory sound, whatever else it changes.                *)
LEMMA SchedStep ==
  ASSUME SchedInv, Next
  PROVE  SchedInv'
<1>0. /\ TypeOK /\ Sound(mem, day) /\ Bounded(mem) /\ day \in Day /\ day \in Nat
      /\ NodesTyped /\ written \in SUBSET Slice /\ marked \in SUBSET Slice
      /\ lastRun \in Day \cup {Never} /\ boots \in 0..MaxBoots /\ asks \in 0..MaxAsks
      /\ faults \in 0..MaxFaults /\ boots \in Nat /\ asks \in Nat /\ faults \in Nat
  <2>1. TypeOK /\ Sound(mem, day) /\ Bounded(mem)
    BY DEF SchedInv
  <2>2. NodesTyped
    BY <2>1 DEF TypeOK, NodesTyped
  <2> QED
    BY <2>1, <2>2, Days, Numbers DEF TypeOK
<1>1. ASSUME Kept, day' = day, NodesTyped', written' \in SUBSET Slice,
             marked' \in SUBSET Slice, lastRun' \in Day \cup {Never}, boots' \in 0..MaxBoots,
             asks' \in 0..MaxAsks, faults' \in 0..MaxFaults
      PROVE  SchedInv'
  <2>1. mem' \in Memory /\ day' \in Day /\ Sound(mem', day') /\ Bounded(mem')
    BY <1>0, <1>1 DEF Kept, Sound
  <2>2. /\ {away', vacant', answered', unheard'} \subseteq SUBSET Place
        /\ orphans' \in SUBSET Slice /\ adrift' \in SUBSET orphans'
    BY <1>1 DEF NodesTyped
  <2> QED
    BY <1>1, <2>1, <2>2 DEF SchedInv, TypeOK
<1>a. ASSUME Kept, UNCHANGED <<day, nodeVars, histVars, dataVars, lastRun, limitVars>>
       PROVE  SchedInv'
  BY <1>0, <1>1, <1>a, NodesSame DEF dataVars, limitVars
<1>b. ASSUME Kept, UNCHANGED worldVars
       PROVE  SchedInv'
  BY <1>a, <1>b DEF worldVars
<1>c. ASSUME UNCHANGED <<nodeVars, histVars>>
       PROVE  NodesTyped'
  BY <1>0, <1>c, NodesSame
<1>2. faults < MaxFaults /\ faults' = faults + 1 => faults' \in 0..MaxFaults
  BY <1>0, Numbers
<1>3. ASSUME NEW k \in Key, CleanNow(k) PROVE SchedInv'
  <2>1. asks' \in 0..MaxAsks
    BY <1>0, <1>3, Numbers DEF CleanNow
  <2>2. NodesTyped'
    BY <1>c, <1>3 DEF CleanNow
  <2> QED
    BY <1>0, <1>1, <1>3, <2>1, <2>2, AskStep DEF CleanNow, dataVars
<1>4. CASE TickBegin
  BY <1>b, <1>4, TickBeginStep DEF TickBegin
<1>5. ASSUME NEW due \in BOOLEAN, TickEnd(due) PROVE SchedInv'
  BY <1>b, <1>5, TickEndStep DEF TickEnd
<1>6. CASE DrainTurn
  BY <1>b, <1>6, DrainStep DEF DrainTurn
<1>7. ASSUME NEW ok \in BOOLEAN, SaveDay(ok) PROVE SchedInv'
  <2>1. faults' \in 0..MaxFaults
    BY <1>0, <1>7, Numbers DEF SaveDay
  <2>2. NodesTyped'
    BY <1>c, <1>7 DEF SaveDay
  <2> QED
    BY <1>0, <1>1, <1>7, <2>1, <2>2, SaveStep DEF SaveDay, dataVars
<1>8. CASE LoadPage
  <2>1. NodesTyped'
    BY <1>0, <1>8 DEF LoadPage, NodesTyped, nodeVars
  <2> QED
    BY <1>0, <1>1, <1>8, <2>1, LoadStep DEF LoadPage, dataVars, limitVars
<1>9. CASE QueryCompleted
  BY <1>b, <1>9, CompletedStep DEF QueryCompleted
<1>10. CASE QueryMarks
  BY <1>b, <1>10, MarksStep DEF QueryMarks
<1>11. CASE PageArrives
  BY <1>b, <1>11, ArrivesStep DEF PageArrives
<1>12. CASE PageFails
  <2>1. NodesTyped'
    BY <1>c, <1>12 DEF PageFails
  <2> QED
    BY <1>0, <1>1, <1>2, <1>12, <2>1, FailsStep DEF PageFails, dataVars
<1>13. ASSUME NEW s \in Slice, NEW n \in Node, TaskSucceeds(s, n) PROVE SchedInv'
  <2>1. Kept /\ NodesTyped'
    BY <1>0, <1>13, EndsStep DEF TaskSucceeds
  <2> QED
    BY <1>0, <1>1, <1>13, <2>1 DEF TaskSucceeds, limitVars
<1>14. ASSUME NEW s \in Slice, NEW n \in Node, TaskFails(s, n) PROVE SchedInv'
  <2>1. Kept /\ NodesTyped'
    BY <1>0, <1>14, EndsStep DEF TaskFails
  <2> QED
    BY <1>0, <1>1, <1>2, <1>14, <2>1 DEF TaskFails, dataVars
<1>15. ASSUME NEW s \in Slice, NEW n \in Node, RustMarks(s, n) PROVE SchedInv'
  <2>1. NodesTyped'
    BY <1>c, <1>15 DEF RustMarks
  <2> QED
    BY <1>0, <1>1, <1>15, <2>1 DEF RustMarks, Kept, limitVars
<1>16. ASSUME NEW s \in Slice, NEW n \in Node, RustWrites(s, n) PROVE SchedInv'
  <2>1. NodesTyped'
    BY <1>c, <1>16 DEF RustWrites
  <2> QED
    BY <1>0, <1>1, <1>16, <2>1 DEF RustWrites, Kept, limitVars
<1>17. ASSUME NEW n \in Node, NodeGone(n) PROVE SchedInv'
  <2>1. NodesTyped'
    BY <1>c, <1>17 DEF NodeGone
  <2> QED
    BY <1>0, <1>1, <1>2, <1>17, <2>1, GoneStep DEF NodeGone, dataVars
<1>18. ASSUME NEW t \in mem.lost, NotifyLost(t) PROVE SchedInv'
  BY <1>b, <1>18, NotifyStep DEF NotifyLost
<1>19. ASSUME NEW n \in Node, NodeJoins(n) PROVE SchedInv'
  BY <1>0, <1>1, <1>19, JoinStep DEF NodeJoins, dataVars, limitVars
<1>22. ASSUME NEW n \in Node, NodeDies(n) PROVE SchedInv'
  BY <1>0, <1>1, <1>22, DiesStep DEF NodeDies, dataVars, limitVars
<1>23. ASSUME NEW n \in Node, SettleIfBusy(n) PROVE SchedInv'
  BY <1>0, <1>1, <1>23, SettleBusyStep DEF SettleIfBusy, dataVars, limitVars
<1>24. ASSUME NEW s \in Slice, NEW n \in RustNode, ResultReplayed(s, n) PROVE SchedInv'
  <2>1. n \in Node
    BY ScheduleAssumption DEF ScheduleAssumption
  <2> QED
    BY <1>0, <1>1, <1>24, <2>1, ReplayedStep DEF ResultReplayed, dataVars, limitVars
<1>20. CASE Restart
  <2>1. Kept
    BY <1>0, <1>20, SoundBooted DEF Restart, Kept
  <2>2. boots' \in 0..MaxBoots
    BY <1>0, <1>20, Numbers DEF Restart
  <2>3. NodesTyped'
    <3>1. mem \in Memory
      BY <1>0 DEF Sound
    <3>2. Executing \subseteq Place /\ OnNodes \subseteq Slice
      BY <1>0, <3>1, PlaceFacts
    <3> QED
      BY <1>0, <1>20, <3>2 DEF Restart, NodesTyped
  <2> QED
    BY <1>0, <1>1, <1>20, <2>1, <2>2, <2>3 DEF Restart, dataVars
<1>21. CASE NextDay
  <2>1. day' = day + 1 /\ day' \in Day
    BY <1>0, <1>21, Numbers DEF NextDay, Day
  <2>2. Sound(mem, day')
    BY <1>0, <2>1, SoundLater
  <2> QED
    BY <1>0, <1>21, <2>1, <2>2
       DEF NextDay, SchedInv, TypeOK, nodeVars, histVars, dataVars, limitVars
<1> QED
  BY <1>3, <1>4, <1>5, <1>6, <1>7, <1>8, <1>9, <1>10, <1>11, <1>12, <1>13, <1>14, <1>15, <1>16,
     <1>17, <1>18, <1>19, <1>20, <1>21, <1>22, <1>23, <1>24 DEF Next

LEMMA SchedInvariant == Spec => []SchedInv
<1>1. Init => SchedInv
  <2>1. 1 \in Day /\ 0 \in 0..MaxBoots /\ 0 \in 0..MaxAsks /\ 0 \in 0..MaxFaults
    BY Days, Numbers
  <2> QED
    BY <2>1, SoundBooted DEF Init, SchedInv, TypeOK, Sound
<1>2. SchedInv /\ [Next]_vars => SchedInv'
  <2>1. CASE UNCHANGED vars
    BY <2>1 DEF vars, worldVars, nodeVars, histVars, dataVars, limitVars, SchedInv, TypeOK
  <2> QED
    BY <2>1, SchedStep
<1> QED
  BY <1>1, <1>2, PTL DEF Spec

(* The fields of the service keep their types in every handler.            *)
THEOREM TypeCorrect == Spec => []TypeOK
<1>1. SchedInv => TypeOK
  BY DEF SchedInv
<1> QED
  BY <1>1, SchedInvariant, PTL

(* No handler, in any order, loads a task of a newer run while one of an   *)
(* older run is queued or with a node, and loadedRuns, by which they tell, *)
(* counts the tasks of each run exactly (loadNextPage, enqueueTask,        *)
(* onTaskSettled).                                                         *)
THEOREM RunsDoNotOverlap == Spec => []OneRunAtATime
<1>1. SchedInv => OneRunAtATime
  BY DEF SchedInv, Sound, TasksOK, OneRunAtATime, Loaded, OfRun
<1> QED
  BY <1>1, SchedInvariant, PTL

(* The tasks in memory, with those the page being read may still bring,    *)
(* never exceed maxBufferedTasks, whatever is settled, retried or asked    *)
(* for while the queries of the page run.                                  *)
THEOREM MemoryIsBounded == Spec => []BufferBounded
<1>1. SchedInv => BufferBounded
  BY DEF SchedInv, Bounded, Awaited, BufferBounded
<1> QED
  BY <1>1, SchedInvariant, PTL

-----------------------------------------------------------------------------
(* Each task on a node is one in flight, the tasks loaded are of slices    *)
(* still to be cleaned, and a page being read is out of date only where    *)
(* recentSlices knows better.  Of slices adrift, o, none of this is said:  *)
(* they are left out of the tables, so that they pass for not cleaned.     *)
CleanIn(s, w, k) == s \in w /\ s \notin k

SlotsOK(m, o) ==
  /\ \A x, y \in m.slots : x[1] = y[1] => x = y \/ x[1] \in o
  /\ \A x \in m.slots :
       \/ x[1] \in o
       \/ \E t \in m.out \ m.lost : t.slice = x[1] /\ (t.rust <=> x[2] \in RustNode)
  /\ \A x \in m.restored : x[1] \in o

Uncleaned(m, w, k) ==
  \A t \in Loaded(m) : ~CleanIn(t.slice, w, k) /\ (t.slice \in k => t.rust)

UpToDate(m, s) == m.recent[s] = m.scans[m.reading.key].run

PageFresh(m, w, k) ==
  /\ m.reading.stage = "marks" =>
       \A s \in Slice : CleanIn(s, w, k) /\ s \notin m.reading.completed => UpToDate(m, s)
  /\ m.reading.stage = "ready" =>
       \A x \in m.reading.rows :
         /\ CleanIn(x[1], w, k) => UpToDate(m, x[1])
         /\ x[1] \in k /\ ~x[2] => x[1] \in SlicesOf(Loaded(m)) \/ UpToDate(m, x[1])

Good(m, w, k, o) ==
  SlotsOK(m, o) /\ Uncleaned(m, w, k) /\ PageFresh(m, w, k) /\ w \cap o = {} /\ k \cap o = {}

(* The more slices are adrift, the less is said.                           *)
LEMMA GoodWider ==
  ASSUME NEW m, NEW w, NEW k, NEW o, Good(m, w, k, o), NEW p, o \subseteq p
  PROVE  Good(m, w \ p, k \ p, p)
<1>1. SlotsOK(m, p)
  BY DEF Good, SlotsOK
<1>2. \A s : /\ CleanIn(s, w \ p, k \ p) => CleanIn(s, w, k)
             /\ s \in k \ p => s \in k
  BY DEF CleanIn
<1>3. Uncleaned(m, w \ p, k \ p) /\ PageFresh(m, w \ p, k \ p)
  BY <1>2 DEF Good, Uncleaned, PageFresh
<1> QED
  BY <1>1, <1>3 DEF Good

LEMMA GoodSame ==
  ASSUME NEW m, NEW w, NEW k, NEW o, Good(m, w, k, o), NEW r,
         r.queue = m.queue, r.out = m.out, r.lost = m.lost, r.slots = m.slots,
         r.restored = m.restored, r.recent = m.recent,
         \/ r.reading = NotReading
         \/ r.reading = m.reading /\ r.scans[m.reading.key].run = m.scans[m.reading.key].run
  PROVE  Good(r, w, k, o)
<1>1. Loaded(r) = Loaded(m)
  BY DEF Loaded
<1>2. SlotsOK(r, o) /\ Uncleaned(r, w, k) /\ w \cap o = {} /\ k \cap o = {}
  BY <1>1 DEF Good, SlotsOK, Uncleaned
<1>3. CASE r.reading = NotReading
  BY <1>2, <1>3 DEF Good, PageFresh, NotReading
<1>4. CASE r.reading = m.reading /\ r.scans[m.reading.key].run = m.scans[m.reading.key].run
  <2>1. \A s : UpToDate(r, s) <=> UpToDate(m, s)
    BY <1>4 DEF UpToDate
  <2> QED
    BY <1>1, <1>2, <1>4, <2>1 DEF Good, PageFresh
<1> QED
  BY <1>3, <1>4

LEMMA GoodRequested ==
  ASSUME NEW m \in Memory, NEW w, NEW k, NEW o, Good(m, w, k, o)
  PROVE  Good(Requested(m), w, k, o)
<1> DEFINE r == Requested(m)
<1>1. /\ r.queue = m.queue /\ r.out = m.out /\ r.lost = m.lost /\ r.slots = m.slots
      /\ r.restored = m.restored
      /\ r.recent = m.recent /\ r.reading = m.reading
      /\ r.scans = m.scans \/ m.reading = NotReading
  BY RequestedIs
<1> HIDE DEF r
<1>2. Good(r, w, k, o)
  BY <1>1, GoodSame
<1> QED
  BY <1>2 DEF r

LEMMA GoodSentOff ==
  ASSUME NEW m, NEW today, Sound(m, today), NEW w, NEW k, NEW o, Good(m, w, k, o), NEW p \in Plans(m)
  PROVE  Good(SentOff(m, p), w, k, o)
<1> DEFINE r == SentOff(m, p)
           sent == {Sent(t, p[t]) : t \in DOMAIN p}
           new == {<<t.slice, p[t]>> : t \in DOMAIN p}
<1>1. /\ m \in Memory /\ Distinct(Loaded(m)) /\ m.queue \subseteq Task /\ m.out \subseteq Task
      /\ m.lost \subseteq m.out /\ m.queue \cap m.out = {} /\ m.slots \subseteq Slice \X Node
  BY Fields DEF Sound, TasksOK
<1>2. /\ DOMAIN p \subseteq m.queue /\ DOMAIN p \subseteq Task /\ DOMAIN p \subseteq Loaded(m)
      /\ \A t \in DOMAIN p : /\ t.slice \notin ActiveSlices(m)
                             /\ p[t] \in Node /\ (t.rust => p[t] \in RustNode)
  BY <1>1, PlanFacts DEF Loaded
<1>3. /\ r.queue = m.queue \ DOMAIN p /\ r.out = m.out \cup sent /\ r.slots = m.slots \cup new
      /\ r.restored = m.restored
      /\ r.lost = m.lost /\ r.recent = m.recent /\ r.scans = m.scans /\ r.reading = m.reading
  BY <1>1, SentOffIs
<1>4. \A t \in DOMAIN p : /\ Sent(t, p[t]) \in sent /\ Sent(t, p[t]).slice = t.slice
                          /\ Sent(t, p[t]).rust <=> p[t] \in RustNode
                          /\ t.rust => Sent(t, p[t]).rust
                          /\ Sent(t, p[t]) \notin m.lost
  <2> SUFFICES ASSUME NEW t \in DOMAIN p
               PROVE  /\ Sent(t, p[t]) \in sent /\ Sent(t, p[t]).slice = t.slice
                      /\ Sent(t, p[t]).rust <=> p[t] \in RustNode
                      /\ t.rust => Sent(t, p[t]).rust
                      /\ Sent(t, p[t]) \notin m.lost
    OBVIOUS
  <2>1. Sent(t, p[t]).slice = t.slice /\ (Sent(t, p[t]).rust <=> t.rust \/ p[t] \in RustNode)
    BY <1>2, SentFacts
  <2>2. t.rust => p[t] \in RustNode
    BY <1>2
  <2>3. ASSUME Sent(t, p[t]) \in m.lost PROVE FALSE
    <3>1. Sent(t, p[t]) \in m.out /\ Sent(t, p[t]) \in Loaded(m) /\ t \in Loaded(m) /\ t \in m.queue
      BY <1>1, <1>2, <2>3 DEF Loaded
    <3>2. Sent(t, p[t]) = t
      BY <1>1, <2>1, <3>1 DEF Distinct
    <3> QED
      BY <1>1, <3>1, <3>2
  <2>4. Sent(t, p[t]) \in sent
    OBVIOUS
  <2> QED
    BY <2>1, <2>2, <2>3, <2>4
<1>5. \A x \in sent : \E t \in DOMAIN p : x = Sent(t, p[t])
  OBVIOUS
<1>6. \A x \in new : \E t \in DOMAIN p : x = <<t.slice, p[t]>> /\ x[1] = t.slice /\ x[2] = p[t]
  OBVIOUS
<1> HIDE DEF r, sent, new
<1>7. Loaded(r) = (m.queue \ DOMAIN p) \cup m.out \cup sent
  BY <1>3 DEF Loaded
<1>8. \A t \in Loaded(r) : \E u \in Loaded(m) : u.slice = t.slice /\ (u.rust => t.rust)
  <2> SUFFICES ASSUME NEW t \in Loaded(r) PROVE \E u \in Loaded(m) : u.slice = t.slice /\ (u.rust => t.rust)
    OBVIOUS
  <2>1. CASE t \in sent
    <3>1. PICK u \in DOMAIN p : t = Sent(u, p[u])
      BY <1>5, <2>1
    <3> QED
      BY <1>2, <1>4, <3>1
  <2>2. CASE t \in Loaded(m)
    BY <2>2
  <2> QED
    BY <1>7, <2>1, <2>2 DEF Loaded
<1>9. SlicesOf(Loaded(m)) \subseteq SlicesOf(Loaded(r))
  <2> SUFFICES ASSUME NEW t \in Loaded(m) PROVE \E u \in Loaded(r) : u.slice = t.slice
    BY DEF SlicesOf
  <2>1. CASE t \in DOMAIN p
    BY <1>4, <1>7, <2>1
  <2>2. CASE t \notin DOMAIN p
    BY <1>7, <2>2 DEF Loaded
  <2> QED
    BY <2>1, <2>2
<1>10. SlotsOK(r, o)
  <2>1. \A x, y \in r.slots : x[1] = y[1] => x = y \/ x[1] \in o
    <3> SUFFICES ASSUME NEW x \in r.slots, NEW y \in r.slots, x[1] = y[1], x[1] \notin o PROVE x = y
      OBVIOUS
    <3>1. CASE x \in m.slots /\ y \in m.slots
      BY <3>1 DEF Good, SlotsOK
    <3>2. \A z \in m.slots : z[1] \in ActiveSlices(m)
      BY DEF ActiveSlices, Records
    <3>3. CASE x \in new /\ y \in m.slots
      BY <1>2, <1>6, <3>2, <3>3
    <3>4. CASE x \in m.slots /\ y \in new
      BY <1>2, <1>6, <3>2, <3>4
    <3>5. CASE x \in new /\ y \in new
      <4>1. PICK t \in DOMAIN p : x = <<t.slice, p[t]>> /\ x[1] = t.slice
        BY <1>6, <3>5
      <4>2. PICK u \in DOMAIN p : y = <<u.slice, p[u]>> /\ y[1] = u.slice
        BY <1>6, <3>5
      <4>3. t = u
        BY <1>1, <1>2, <4>1, <4>2 DEF Distinct
      <4> QED
        BY <4>1, <4>2, <4>3
    <3> QED
      BY <1>3, <3>1, <3>3, <3>4, <3>5
  <2>2. \A x \in r.slots :
          \/ x[1] \in o
          \/ \E t \in r.out \ r.lost : t.slice = x[1] /\ (t.rust <=> x[2] \in RustNode)
    <3> SUFFICES ASSUME NEW x \in r.slots, x[1] \notin o
                 PROVE  \E t \in r.out \ r.lost : t.slice = x[1] /\ (t.rust <=> x[2] \in RustNode)
      OBVIOUS
    <3>1. CASE x \in m.slots
      BY <1>3, <3>1 DEF Good, SlotsOK
    <3>2. CASE x \in new
      <4>1. PICK t \in DOMAIN p : x = <<t.slice, p[t]>> /\ x[1] = t.slice /\ x[2] = p[t]
        BY <1>6, <3>2
      <4>2. Sent(t, p[t]) \in r.out \ r.lost
        BY <1>3, <1>4
      <4> QED
        BY <1>4, <4>1, <4>2
    <3> QED
      BY <1>3, <3>1, <3>2
  <2>3. \A x \in r.restored : x[1] \in o
    BY <1>3 DEF Good, SlotsOK
  <2> QED
    BY <2>1, <2>2, <2>3 DEF SlotsOK
<1>11. Uncleaned(r, w, k)
  BY <1>8 DEF Good, Uncleaned
<1>12. PageFresh(r, w, k)
  <2>1. \A s : UpToDate(r, s) <=> UpToDate(m, s)
    BY <1>3 DEF UpToDate
  <2> QED
    BY <1>3, <1>9, <2>1 DEF Good, PageFresh
<1>13. Good(r, w, k, o)
  BY <1>10, <1>11, <1>12 DEF Good
<1> QED
  BY <1>13 DEF r

LEMMA GoodDrained ==
  ASSUME NEW m, NEW today, Sound(m, today), NEW w, NEW k, NEW o, Good(m, w, k, o), NEW r \in Drained(m)
  PROVE  Good(r, w, k, o)
<1>1. PICK p \in Plans(m) : r = Requested(SentOff(m, p))
  BY DispatchedIs DEF Drained
<1>2. SentOff(m, p) \in Memory
  BY SentOffIs DEF Sound
<1> QED
  BY <1>1, <1>2, GoodSentOff, GoodRequested

(* A task that ends, for good: what became of its slice does not matter.   *)
LEMMA GoodOver ==
  ASSUME NEW m, NEW today, Sound(m, today), NEW w, NEW k, NEW o, Good(m, w, k, o),
         NEW t \in m.out, NEW failed, ~Retried(m, t, failed),
         t.slice \in o \/ t.slice \notin ActiveSlices(m),
         NEW w2, NEW k2, w2 \cap o = {}, k2 \cap o = {}, \A s : s # t.slice => (s \in w2 <=> s \in w) /\ (s \in k2 <=> s \in k)
  PROVE  Good(Told(m, t, failed), w2, k2, o)
<1> DEFINE r == Told(m, t, failed)
<1>1. /\ r \in Memory /\ r.out = m.out \ {t} /\ Loaded(r) = Loaded(m) \ {t}
      /\ \A s \in Slice : r.recent[s] = IF s = t.slice THEN t.run ELSE m.recent[s]
      /\ r.lost = m.lost /\ r.slots = m.slots
      /\ r.restored = m.restored /\ r.scans = m.scans /\ r.reading = m.reading
  BY ToldIs
<1> HIDE DEF r
<1>2. /\ m \in Memory /\ Distinct(Loaded(m)) /\ m.out \subseteq Task /\ t \in Loaded(m) /\ t \in Task
      /\ ReadingOK(m) /\ ScansOK(m, today)
  BY Fields DEF Sound, TasksOK, Loaded
<1>3. \A u \in Loaded(r) : u.slice # t.slice
  BY <1>1, <1>2 DEF Distinct
<1>4. SlotsOK(r, o)
  <2>1. \A x \in m.slots : x[1] # t.slice \/ x[1] \in o
    BY DEF ActiveSlices, Records
  <2> QED
    BY <1>1, <2>1 DEF Good, SlotsOK
<1>5. Uncleaned(r, w2, k2)
  <2>1. \A u \in Loaded(r) : /\ CleanIn(u.slice, w2, k2) <=> CleanIn(u.slice, w, k)
                             /\ u.slice \in k2 <=> u.slice \in k
    BY <1>3 DEF CleanIn
  <2> QED
    BY <1>1, <2>1 DEF Good, Uncleaned
<1>6. PageFresh(r, w2, k2)
  <2>1. ASSUME m.reading # NotReading PROVE UpToDate(r, t.slice)
    <3>1. m.reading.key \in Scanned(m) /\ m.scans[m.reading.key].run \in Nat
      BY <1>2, <2>1, ScanOf DEF ReadingOK
    <3>2. m.scans[m.reading.key].run <= t.run /\ t.run <= m.scans[m.reading.key].run /\ t.run \in Nat
          /\ t.slice \in Slice
      BY <1>2, <2>1, <3>1, TaskFacts DEF ReadingOK, ScansOK
    <3>3. r.recent[t.slice] = t.run
      BY <1>1, <3>2
    <3> QED
      BY <1>1, <3>1, <3>2, <3>3 DEF UpToDate
  <2>2. \A s \in Slice : s # t.slice => /\ UpToDate(r, s) <=> UpToDate(m, s)
                                        /\ CleanIn(s, w2, k2) <=> CleanIn(s, w, k)
                                        /\ s \in k2 <=> s \in k
                                        /\ s \in SlicesOf(Loaded(m)) => s \in SlicesOf(Loaded(r))
    BY <1>1 DEF UpToDate, CleanIn, SlicesOf
  <2>3. m.reading.stage # "none" => m.reading # NotReading
    BY DEF NotReading
  <2>4. m.reading \in Reading
    BY <1>2, Fields
  <2>5. ASSUME m.reading.stage = "marks", NEW s \in Slice, CleanIn(s, w2, k2), s \notin m.reading.completed
        PROVE  UpToDate(r, s)
    BY <2>1, <2>2, <2>3, <2>5 DEF Good, PageFresh
  <2>6. ASSUME m.reading.stage = "ready", NEW x \in m.reading.rows
        PROVE  /\ CleanIn(x[1], w2, k2) => UpToDate(r, x[1])
               /\ x[1] \in k2 /\ ~x[2] => x[1] \in SlicesOf(Loaded(r)) \/ UpToDate(r, x[1])
    <3>1. x[1] \in Slice
      BY <2>4, <2>6, ReadingFacts
    <3>2. CASE x[1] = t.slice
      BY <2>1, <2>3, <2>6, <3>2
    <3>3. CASE x[1] # t.slice
      BY <2>2, <2>6, <3>1, <3>3 DEF Good, PageFresh
    <3> QED
      BY <3>2, <3>3
  <2> QED
    BY <1>1, <2>5, <2>6 DEF PageFresh
<1>7. Good(r, w2, k2, o)
  BY <1>4, <1>5, <1>6 DEF Good
<1> QED
  BY <1>7 DEF r

(* A task that ends, and comes back to the queue if it may be tried again. *)
LEMMA GoodSettled ==
  ASSUME NEW m, NEW today, Sound(m, today), NEW w, NEW k, NEW o, Good(m, w, k, o),
         NEW t \in m.out, NEW failed, t.slice \in o \/ t.slice \notin ActiveSlices(m)
  PROVE  Good(Settled(m, t, failed), w, k, o)
<1> DEFINE r == Told(m, t, failed)
           e == Settled(m, t, failed)
           a == Again(m, t)
<1>0. w \cap o = {} /\ k \cap o = {}
  BY DEF Good
<1>1. CASE ~Retried(m, t, failed)
  BY <1>0, <1>1, GoodOver, SettledIs
<1>2. CASE Retried(m, t, failed)
  <2>1. /\ r \in Memory /\ r.out = m.out \ {t} /\ Loaded(r) = Loaded(m) \ {t}
        /\ \A s \in Slice : r.recent[s] = m.recent[s]
        /\ r.lost = m.lost /\ r.slots = m.slots
        /\ r.restored = m.restored /\ r.scans = m.scans /\ r.reading = m.reading
    BY <1>2, ToldIs
  <2>2. /\ m \in Memory /\ Distinct(Loaded(m)) /\ m.out \subseteq Task /\ t \in Loaded(m) /\ t \in Task
        /\ ReadingOK(m) /\ ScansOK(m, today)
    BY Fields DEF Sound, TasksOK, Loaded
  <2>3. a \in Task /\ a.slice = t.slice /\ a.run = t.run /\ a.rust = t.rust
    BY <1>2, <2>2, AgainFacts
  <2>4. e = Enqueued(r, {a})
    BY <1>2, SettledIs
  <2> HIDE DEF r, e, a
  <2>5. /\ Loaded(e) = Loaded(r) \cup Taken(r, {a}) /\ e.out = r.out /\ e.lost = r.lost
        /\ e.recent = r.recent /\ e.slots = r.slots
        /\ e.restored = r.restored /\ e.scans = r.scans /\ e.reading = r.reading
    <3>1. {a} \in SUBSET Task /\ Distinct({a})
      BY <2>3 DEF Distinct
    <3> QED
      BY <2>1, <2>4, <3>1, EnqueuedIs
  <2>6. Taken(r, {a}) \subseteq {a}
    BY DEF Taken
  <2>7. \A u \in Loaded(r) : u.slice # t.slice
    BY <2>1, <2>2 DEF Distinct
  <2>8. SlotsOK(e, o)
    <3>1. \A x \in m.slots : x[1] # t.slice \/ x[1] \in o
      BY DEF ActiveSlices, Records
    <3> QED
      BY <2>1, <2>5, <3>1 DEF Good, SlotsOK
  <2>9. Uncleaned(e, w, k)
    <3>1. \A u \in Loaded(e) : \E v \in Loaded(m) : u.slice = v.slice /\ u.rust = v.rust
      BY <2>1, <2>2, <2>3, <2>5, <2>6
    <3> QED
      BY <3>1 DEF Good, Uncleaned
  <2>10. PageFresh(e, w, k)
    <3>1. \A s \in Slice : UpToDate(e, s) <=> UpToDate(m, s)
      BY <2>1, <2>5 DEF UpToDate
    <3>2. \A s \in Slice : s # t.slice /\ s \in SlicesOf(Loaded(m)) => s \in SlicesOf(Loaded(e))
      BY <2>1, <2>5 DEF SlicesOf
    <3>3. ASSUME m.reading # NotReading, t.slice \notin o
          PROVE  t.slice \in SlicesOf(Loaded(e)) \/ UpToDate(e, t.slice)
      <4>1. CASE m.recent[t.slice] = t.run
        <5>1. m.reading.key \in Scanned(m) /\ m.scans[m.reading.key].run \in Nat
          BY <2>2, <3>3, ScanOf DEF ReadingOK
        <5>2. m.scans[m.reading.key].run <= t.run /\ t.run <= m.scans[m.reading.key].run
              /\ t.run \in Nat /\ t.slice \in Slice
          BY <2>2, <3>3, <5>1, TaskFacts DEF ReadingOK, ScansOK
        <5>3. UpToDate(m, t.slice)
          BY <4>1, <5>1, <5>2 DEF UpToDate
        <5> QED
          BY <3>1, <5>2, <5>3
      <4>2. CASE m.recent[t.slice] # t.run
        <5>1. t.slice \in Slice /\ r.recent[t.slice] # t.run
          BY <2>1, <2>2, <4>2, TaskFacts
        <5>2. t.slice \notin SlicesOf(Loaded(r)) \cup ActiveSlices(r)
          BY <2>1, <2>7, <3>3 DEF SlicesOf, ActiveSlices, Records
        <5>3. a \in Taken(r, {a})
          BY <2>3, <5>1, <5>2 DEF Taken
        <5> QED
          BY <2>3, <2>5, <5>3 DEF SlicesOf
      <4> QED
        BY <4>1, <4>2
    <3>4. m.reading \in Reading
      BY <2>2, Fields
    <3>5. ASSUME m.reading.stage = "ready", NEW x \in m.reading.rows
          PROVE  /\ CleanIn(x[1], w, k) => UpToDate(e, x[1])
                 /\ x[1] \in k /\ ~x[2] => x[1] \in SlicesOf(Loaded(e)) \/ UpToDate(e, x[1])
      <4>1. x[1] \in Slice /\ m.reading # NotReading
        BY <3>4, <3>5, ReadingFacts
      <4>2. CASE x[1] = t.slice
        <5>1. CleanIn(x[1], w, k) => UpToDate(e, x[1])
          BY <3>1, <3>5, <4>1 DEF Good, PageFresh
        <5>2. x[1] \in k => t.slice \notin o
          BY <4>2 DEF Good
        <5> QED
          BY <3>3, <4>1, <4>2, <5>1, <5>2
      <4>3. CASE x[1] # t.slice
        BY <3>1, <3>2, <3>5, <4>1, <4>3 DEF Good, PageFresh
      <4> QED
        BY <4>2, <4>3
    <3>6. ASSUME m.reading.stage = "marks", NEW s \in Slice, CleanIn(s, w, k), s \notin m.reading.completed
          PROVE  UpToDate(e, s)
      BY <3>1, <3>6 DEF Good, PageFresh
    <3>7. e.reading = m.reading
      BY <2>1, <2>5
    <3> QED
      BY <3>5, <3>6, <3>7 DEF PageFresh
  <2>11. Good(e, w, k, o)
    BY <2>8, <2>9, <2>10 DEF Good
  <2> QED
    BY <2>11 DEF e
<1> QED
  BY <1>1, <1>2

(* The tables are the same but for a slice.                                *)
OnlyAt(s, w, k, w2, k2) == \A u : u # s => (u \in w2 <=> u \in w) /\ (u \in k2 <=> u \in k)

(* The end of a task is reported: its slice is not active any more, and    *)
(* the world may have changed for this slice only.                         *)
LEMMA GoodReported ==
  ASSUME NEW m, NEW today, Sound(m, today), m.lost = {}, NEW s, NEW n, NEW failed,
         NEW r \in Reported(m, s, n, failed),
         NEW w, NEW k, NEW o, Good(m, w, k, o), NEW w2, NEW k2,
         \/ w2 = w /\ k2 = k
         \/ /\ s \notin o /\ <<s, n>> \in m.slots /\ failed = FALSE
            /\ OnlyAt(s, w, k, w2, k2) /\ w2 \cap o = {} /\ k2 \cap o = {}
  PROVE  Good(r, w2, k2, o)
<1> DEFINE f == Freed(m, s, n)
<1>1. m \in Memory
  BY DEF Sound
<1>2. /\ f \in Memory /\ f.slots = m.slots \ {<<s, n>>} /\ f.recent = m.recent
      /\ f.restored = m.restored \ {<<s, n>>}
      /\ f.queue = m.queue /\ f.out = m.out /\ f.lost = m.lost /\ f.loaded = m.loaded
      /\ f.scans = m.scans /\ f.reading = m.reading /\ f.cont = m.cont
  BY <1>1, FreedIs
<1>3. PICK x : /\ r \in Drained(x)
               /\ \/ /\ x = f
                     /\ (\A t \in m.out : t.slice # s) \/ <<s, n>> \notin m.slots
                  \/ \E t \in f.out : /\ t \in m.out /\ t.slice = s /\ <<s, n>> \in m.slots
                                      /\ x \in Drained(Settled(f, t, failed))
  BY ReportedIs
<1>4. s \notin o /\ <<s, n>> \in m.slots => \E t \in m.out : t.slice = s
  <2>1. <<s, n>>[1] = s
    OBVIOUS
  <2> QED
    BY <2>1 DEF Good, SlotsOK
<1> HIDE DEF f
<1>5. Sound(f, today)
  BY <1>2, SoundSame
<1>6. <<s, n>> \in m.slots => s \in o \/ s \notin ActiveSlices(f)
  <2> SUFFICES ASSUME <<s, n>> \in m.slots, s \notin o, NEW y \in Records(f), y[1] = s
               PROVE  FALSE
    BY DEF ActiveSlices
  <2>1. y \notin m.restored
    BY DEF Good, SlotsOK
  <2>2. y \in m.slots /\ y # <<s, n>>
    BY <1>2, <2>1 DEF Records
  <2>3. <<s, n>>[1] = s
    OBVIOUS
  <2> QED
    BY <2>2, <2>3 DEF Good, SlotsOK
<1>7. Good(f, w, k, o)
  <2>1. Loaded(f) = Loaded(m) /\ \A u : UpToDate(f, u) <=> UpToDate(m, u)
    BY <1>2 DEF Loaded, UpToDate
  <2>2. SlotsOK(f, o)
    BY <1>2 DEF Good, SlotsOK
  <2>3. Uncleaned(f, w, k) /\ PageFresh(f, w, k)
    BY <1>2, <2>1 DEF Good, Uncleaned, PageFresh
  <2> QED
    BY <2>2, <2>3 DEF Good
<1>8. CASE x = f /\ ((\A t \in m.out : t.slice # s) \/ <<s, n>> \notin m.slots)
  <2>1. w2 = w /\ k2 = k
    BY <1>4, <1>8
  <2> QED
    BY <1>3, <1>5, <1>7, <1>8, <2>1, GoodDrained
<1>9. ASSUME NEW t \in f.out, t \in m.out, t.slice = s, <<s, n>> \in m.slots,
             x \in Drained(Settled(f, t, failed))
      PROVE  Good(r, w2, k2, o)
  <2>1. Sound(Settled(f, t, failed), today)
    BY <1>2, <1>5, <1>9, SoundSettled
  <2>2. Good(Settled(f, t, failed), w2, k2, o)
    <3>1. CASE w2 = w /\ k2 = k
      BY <1>5, <1>6, <1>7, <1>9, <3>1, GoodSettled
    <3>2. CASE s \notin o /\ failed = FALSE /\ OnlyAt(s, w, k, w2, k2) /\ w2 \cap o = {} /\ k2 \cap o = {}
      <4>1. ~Retried(f, t, failed)
        BY <3>2 DEF Retried
      <4> QED
        BY <1>5, <1>6, <1>7, <1>9, <3>2, <4>1, GoodOver, SettledIs DEF OnlyAt
    <3> QED
      BY <3>1, <3>2
  <2>3. Sound(x, today) /\ Good(x, w2, k2, o)
    BY <1>9, <2>1, <2>2, SoundDrained, GoodDrained
  <2> QED
    BY <1>3, <2>3, GoodDrained
<1> QED
  BY <1>3, <1>8, <1>9

(* The tasks of a page are of slices still to be cleaned, for all that     *)
(* happened since it was read.                                             *)
LEMMA GoodArrived ==
  ASSUME NEW m, NEW today, Sound(m, today), m.reading.stage = "ready",
         NEW w, NEW k, NEW o, Good(m, w, k, o)
  PROVE  Good(Arrived(m), w, k, o)
<1> DEFINE T == PageTasks(m)
           e == Enqueued(m, T)
           r == Arrived(m)
           run == m.scans[m.reading.key].run
<1>1. m \in Memory /\ ReadingOK(m)
  BY DEF Sound
<1>2. m.reading # NotReading /\ m.reading.key \in Scanned(m)
  BY <1>1, Fields, ReadingFacts DEF ReadingOK
<1>3. /\ T \in SUBSET Task /\ Distinct(T)
      /\ \A t \in T : t.run = run /\ <<t.slice, t.rust>> \in m.reading.rows
  BY <1>1, <1>2, PageTasksAre
<1>4. /\ Loaded(e) = Loaded(m) \cup Taken(m, T) /\ e.out = m.out /\ e.lost = m.lost
      /\ e.recent = m.recent /\ e.slots = m.slots /\ e.restored = m.restored
  BY <1>1, <1>3, EnqueuedIs
<1>5. /\ r.reading = NotReading /\ r.queue = e.queue /\ r.out = e.out /\ r.lost = e.lost
      /\ r.slots = e.slots /\ r.restored = e.restored
  BY ArrivedIs
<1> HIDE DEF r, e, T
<1>6. Loaded(r) = Loaded(m) \cup Taken(m, T)
  BY <1>4, <1>5 DEF Loaded
<1>7. SlotsOK(r, o)
  BY <1>4, <1>5 DEF Good, SlotsOK
<1>8. \A t \in Taken(m, T) : ~CleanIn(t.slice, w, k) /\ (t.slice \in k => t.rust)
  <2> SUFFICES ASSUME NEW t \in Taken(m, T)
               PROVE  ~CleanIn(t.slice, w, k) /\ (t.slice \in k => t.rust)
    OBVIOUS
  <2>1. t \in T /\ t.slice \notin SlicesOf(Loaded(m)) /\ m.recent[t.slice] # t.run
    BY DEF Taken
  <2>2. ~UpToDate(m, t.slice)
    BY <1>3, <2>1 DEF UpToDate
  <2>3. <<t.slice, t.rust>> \in m.reading.rows
    BY <1>3, <2>1
  <2>4. <<t.slice, t.rust>>[1] = t.slice /\ <<t.slice, t.rust>>[2] = t.rust
    OBVIOUS
  <2> QED
    BY <2>1, <2>2, <2>3, <2>4 DEF Good, PageFresh
<1>9. Uncleaned(r, w, k)
  BY <1>6, <1>8 DEF Good, Uncleaned
<1>10. Good(r, w, k, o)
  BY <1>5, <1>7, <1>9 DEF Good, PageFresh, NotReading
<1> QED
  BY <1>10 DEF r

LEMMA GoodAskedFor ==
  ASSUME NEW m, NEW today, Sound(m, today), NEW w, NEW k, NEW o, Good(m, w, k, o), NEW key \in Key
  PROVE  Good(AskedFor(m, key, today), w, k, o)
<1> DEFINE r == Asked(m, key, today)
           b == BacklogKey(m, key)
<1>1. m \in Memory /\ ReadingOK(m) /\ today \in Day
  BY DEF Sound
<1>2. /\ r \in Memory /\ \A j \in Key : j # b => r.scans[j] = m.scans[j]
      /\ m.scans[b] # NoScan => r.scans[b].run = m.scans[b].run
      /\ r.queue = m.queue /\ r.out = m.out /\ r.lost = m.lost
      /\ r.recent = m.recent /\ r.slots = m.slots
      /\ r.restored = m.restored /\ r.reading = m.reading
  BY <1>1, AskedIs
<1> HIDE DEF r, b
<1>3. r.reading = NotReading \/ r.scans[m.reading.key].run = m.scans[m.reading.key].run
  <2>1. m.reading # NotReading => m.reading.key \in Key /\ m.scans[m.reading.key] # NoScan
    BY <1>1 DEF ReadingOK, Scanned
  <2> QED
    BY <1>2, <2>1
<1>4. Good(r, w, k, o)
  BY <1>2, <1>3, GoodSame
<1>5. AskedFor(m, key, today) = Requested(r)
  BY AskedForIs DEF r
<1> QED
  BY <1>2, <1>4, <1>5, GoodRequested

-----------------------------------------------------------------------------
(* The steps.  Of a slice adrift the tables are taken to say nothing.      *)
GoodNow == Good(mem, written \ adrift, marked \ adrift, adrift)
GoodInv == (\A x \in away : x[1] \in adrift) /\ GoodNow

LEMMA GoodMemStep ==
  ASSUME SchedInv, NEW w, NEW k, NEW o, Good(mem, w, k, o),
         \/ \E j \in Key : CleanNow(j)
         \/ TickBegin
         \/ \E due \in BOOLEAN : TickEnd(due)
         \/ DrainTurn
         \/ \E ok \in BOOLEAN : SaveDay(ok)
         \/ PageArrives
         \/ PageFails
  PROVE  Good(mem', w, k, o)
<1>1. Sound(mem, day) /\ mem \in Memory /\ ReadingOK(mem) /\ day \in Day /\ All \in Key
  BY DEF SchedInv, Sound, Key
<1>2. ASSUME NEW j \in Key, CleanNow(j) PROVE Good(mem', w, k, o)
  BY <1>1, <1>2, SoundAskedFor, GoodAskedFor, GoodDrained DEF CleanNow
<1>3. CASE TickBegin
  <2> DEFINE r == Resumed(mem)
  <2>1. mem' = Requested(r)
    BY <1>3 DEF TickBegin, Resumed
  <2>2. /\ r \in Memory /\ \A j \in Scanned(mem) : r.scans[j].run = mem.scans[j].run
        /\ r.queue = mem.queue /\ r.out = mem.out /\ r.lost = mem.lost /\ r.recent = mem.recent
        /\ r.slots = mem.slots /\ r.restored = mem.restored /\ r.reading = mem.reading
    BY <1>1, ResumedIs
  <2> HIDE DEF r
  <2>3. Good(r, w, k, o)
    BY <1>1, <2>2, GoodSame DEF ReadingOK
  <2> QED
    BY <2>1, <2>2, <2>3, GoodRequested
<1>4. ASSUME NEW due \in BOOLEAN, TickEnd(due) PROVE Good(mem', w, k, o)
  <2> DEFINE m == [mem EXCEPT !.ticking = FALSE]
             a == AskedFor(m, All, day)
             b == [a EXCEPT !.auto = day]
  <2>1. /\ m \in Memory /\ m.queue = mem.queue /\ m.out = mem.out /\ m.lost = mem.lost
        /\ m.loaded = mem.loaded /\ m.scans = mem.scans /\ m.reading = mem.reading /\ m.cont = mem.cont
        /\ m.slots = mem.slots /\ m.restored = mem.restored /\ m.recent = mem.recent
    BY <1>1 DEF Memory
  <2>2. mem' \in Drained(m) \/ mem' = m \/ mem' \in Drained(b)
    BY <1>4 DEF TickEnd
  <2> HIDE DEF m
  <2>3. Sound(m, day) /\ Good(m, w, k, o)
    BY <1>1, <2>1, SoundSame, GoodSame
  <2>4. Sound(a, day) /\ Good(a, w, k, o) /\ a \in Memory
    BY <1>1, <2>3, SoundAskedFor, GoodAskedFor DEF Sound
  <2> HIDE DEF a
  <2>5. /\ b \in Memory /\ b.queue = a.queue /\ b.out = a.out /\ b.lost = a.lost
        /\ b.loaded = a.loaded /\ b.scans = a.scans /\ b.reading = a.reading /\ b.cont = a.cont
        /\ b.slots = a.slots /\ b.restored = a.restored /\ b.recent = a.recent
    BY <1>1, <2>4 DEF Memory
  <2> HIDE DEF b
  <2>6. Sound(b, day) /\ Good(b, w, k, o)
    BY <2>4, <2>5, SoundSame, GoodSame
  <2> QED
    BY <2>2, <2>3, <2>6, GoodDrained
<1>5. CASE DrainTurn
  <2> DEFINE m == [mem EXCEPT !.turn = FALSE]
  <2>1. /\ m \in Memory /\ m.queue = mem.queue /\ m.out = mem.out /\ m.lost = mem.lost
        /\ m.loaded = mem.loaded /\ m.scans = mem.scans /\ m.reading = mem.reading /\ m.cont = mem.cont
        /\ m.slots = mem.slots /\ m.restored = mem.restored /\ m.recent = mem.recent
    BY <1>1 DEF Memory
  <2>2. mem' \in Drained(m)
    BY <1>5 DEF DrainTurn
  <2> HIDE DEF m
  <2>3. Sound(m, day) /\ Good(m, w, k, o)
    BY <1>1, <2>1, SoundSame, GoodSame
  <2> QED
    BY <2>2, <2>3, GoodDrained
<1>6. ASSUME NEW ok \in BOOLEAN, SaveDay(ok) PROVE Good(mem', w, k, o)
  <2>1. /\ mem'.queue = mem.queue /\ mem'.out = mem.out /\ mem'.lost = mem.lost
        /\ mem'.scans = mem.scans /\ mem'.reading = mem.reading
        /\ mem'.slots = mem.slots /\ mem'.restored = mem.restored /\ mem'.recent = mem.recent
    BY <1>1, <1>6 DEF SaveDay, Memory
  <2> QED
    BY <2>1, GoodSame
<1>7. CASE PageArrives
  <2>1. Sound(Arrived(mem), day) /\ Good(Arrived(mem), w, k, o)
    BY <1>1, <1>7, PageArrivesIs, SoundArrived, GoodArrived DEF SchedInv
  <2> QED
    BY <1>7, <2>1, PageArrivesIs, GoodDrained
<1>8. CASE PageFails
  <2> DEFINE r == Failed(mem)
  <2>1. mem.reading # NotReading /\ mem.reading.key \in Scanned(mem)
    BY <1>1, <1>8 DEF PageFails, ReadingOK
  <2>2. /\ r \in Memory /\ r.reading = NotReading /\ Scanned(r) = Scanned(mem)
        /\ \A j \in Scanned(mem) : r.scans[j].run = mem.scans[j].run /\ r.scans[j].next = mem.scans[j].next
        /\ r.queue = mem.queue /\ r.out = mem.out /\ r.lost = mem.lost /\ r.loaded = mem.loaded
        /\ r.slots = mem.slots /\ r.restored = mem.restored /\ r.recent = mem.recent
    BY <1>1, <2>1, FailedIs
  <2>3. mem' \in Drained(r)
    BY <1>8 DEF PageFails, Failed
  <2> HIDE DEF r
  <2>4. Sound(r, day) /\ Good(r, w, k, o)
    BY <1>1, <2>2, SoundScans, GoodSame
  <2> QED
    BY <2>3, <2>4, GoodDrained
<1> QED
  BY <1>2, <1>3, <1>4, <1>5, <1>6, <1>7, <1>8

(* A slice that is no longer adrift has no task and is on no node.         *)
LEMMA GoodLoadStep ==
  ASSUME SchedInv, GoodNow, LoadPage
  PROVE  GoodNow'
<1> DEFINE w == written \ adrift
           k == marked \ adrift
           w2 == written \ adrift'
           k2 == marked \ adrift'
<1>1. mem \in Memory /\ mem.reading = NotReading
  BY DEF SchedInv, Sound, ReadingOK, LoadPage
<1>2. /\ mem'.queue = mem.queue /\ mem'.out = mem.out /\ mem'.lost = mem.lost
      /\ mem'.slots = mem.slots /\ mem'.restored = mem.restored
      /\ mem'.reading = NotReading \/ mem'.reading.stage = "query"
  <2> DEFINE m == [mem EXCEPT !.cont = FALSE]
             page(j, l) == [stage |-> "query", key |-> j, limit |-> l]
  <2>1. /\ m \in Memory /\ m.queue = mem.queue /\ m.out = mem.out /\ m.lost = mem.lost
        /\ m.slots = mem.slots /\ m.restored = mem.restored /\ m.reading = mem.reading
    BY <1>1 DEF Memory
  <2>2. mem' = m \/ \E j, l : mem' = [m EXCEPT !.reading = page(j, l)]
    BY DEF LoadPage
  <2>3. \A j, l : page(j, l).stage = "query"
    OBVIOUS
  <2> HIDE DEF m, page
  <2> QED
    BY <1>1, <2>1, <2>2, <2>3 DEF Memory
<1>3. /\ adrift' \subseteq adrift
      /\ \A s \in adrift \ adrift' : s \notin SlicesOf(Loaded(mem)) /\ s \notin ActiveSlices(mem)
      /\ written' = written /\ marked' = marked
  BY DEF LoadPage, Loaded, dataVars
<1>4. Loaded(mem') = Loaded(mem)
  BY <1>2 DEF Loaded
<1>5. SlotsOK(mem', adrift')
  <2>1. ASSUME NEW x \in Records(mem), x[1] \in adrift PROVE x[1] \in adrift'
    BY <1>3, <2>1 DEF ActiveSlices
  <2> QED
    BY <1>2, <2>1 DEF GoodNow, Good, SlotsOK, Records
<1>6. Uncleaned(mem', w2, k2)
  <2> SUFFICES ASSUME NEW t \in Loaded(mem)
               PROVE  ~CleanIn(t.slice, w2, k2) /\ (t.slice \in k2 => t.rust)
    BY <1>4 DEF Uncleaned
  <2>1. t.slice \in adrift => t.slice \in adrift'
    BY <1>3 DEF SlicesOf
  <2>2. ~CleanIn(t.slice, w, k) /\ (t.slice \in k => t.rust)
    BY DEF GoodNow, Good, Uncleaned
  <2> QED
    BY <1>3, <2>1, <2>2 DEF CleanIn
<1>7. PageFresh(mem', w2, k2)
  BY <1>2 DEF PageFresh, NotReading
<1> QED
  BY <1>3, <1>5, <1>6, <1>7 DEF GoodNow, Good

(* The reader's queries: what they find is up to date when they find it.   *)
LEMMA GoodQueryStep ==
  ASSUME SchedInv, GoodNow, QueryCompleted \/ QueryMarks
  PROVE  GoodNow'
<1> DEFINE w == written \ adrift
           k == marked \ adrift
<1>1. mem \in Memory /\ ReadingOK(mem) /\ mem.reading \in Reading
  BY Fields DEF SchedInv, Sound
<1>2. /\ mem'.queue = mem.queue /\ mem'.out = mem.out /\ mem'.lost = mem.lost
      /\ mem'.slots = mem.slots
      /\ mem'.restored = mem.restored /\ mem'.recent = mem.recent /\ mem'.scans = mem.scans
  BY <1>1 DEF QueryCompleted, QueryMarks, Memory
<1>3. Loaded(mem') = Loaded(mem) /\ written' = written /\ marked' = marked /\ adrift' = adrift
  BY <1>2 DEF Loaded, QueryCompleted, QueryMarks, worldVars, histVars, dataVars
<1>4. SlotsOK(mem', adrift) /\ Uncleaned(mem', w, k)
  BY <1>2, <1>3 DEF GoodNow, Good, SlotsOK, Uncleaned
<1>5. PageFresh(mem', w, k) => GoodNow'
  BY <1>3, <1>4 DEF GoodNow, Good
<1>6. CASE QueryCompleted
  <2>1. mem'.reading.stage = "marks" /\ mem'.reading.completed = written
    BY <1>1, <1>6 DEF QueryCompleted, Memory
  <2>2. PageFresh(mem', w, k)
    BY <2>1 DEF PageFresh, CleanIn
  <2> QED
    BY <1>5, <2>2
<1>7. CASE QueryMarks
  <2>1. /\ mem.reading.stage = "marks" /\ mem'.reading.stage = "ready"
        /\ mem'.reading.key = mem.reading.key /\ mem'.reading.rows = Unclean(mem, marked)
    BY <1>1, <1>7 DEF QueryMarks, Memory, Unclean, Found
  <2>2. mem.reading # NotReading /\ mem.reading.key \in Scanned(mem)
    BY <1>1, <2>1, ReadingFacts DEF ReadingOK
  <2>3. /\ Unclean(mem, marked) \in SUBSET (Slice \X BOOLEAN)
        /\ \A x \in Unclean(mem, marked) : /\ x = <<x[1], x[1] \in marked>>
                                           /\ x[1] \notin mem.reading.completed \/ x[1] \in marked
    BY <1>1, <2>2, UncleanCount
  <2>4. ASSUME NEW x \in Unclean(mem, marked)
        PROVE  /\ CleanIn(x[1], w, k) => UpToDate(mem', x[1])
               /\ x[1] \in k => x[2]
    <3>1. x[1] \in Slice /\ (x[1] \in k => x[2])
      BY <2>3
    <3>2. ASSUME CleanIn(x[1], w, k) PROVE UpToDate(mem', x[1])
      <4>1. x[1] \notin mem.reading.completed
        BY <2>3, <3>2 DEF CleanIn
      <4> HIDE DEF w, k
      <4>2. UpToDate(mem, x[1])
        BY <2>1, <3>1, <3>2, <4>1 DEF w, k, GoodNow, Good, PageFresh
      <4> QED
        BY <1>2, <2>1, <4>2 DEF UpToDate
    <3> QED
      BY <3>1, <3>2
  <2>5. PageFresh(mem', w, k)
    <3> HIDE DEF w, k
    <3> QED
      BY <2>1, <2>4 DEF PageFresh
  <2> QED
    BY <1>5, <2>5
<1> QED
  BY <1>6, <1>7

(* A task ends, and the tables change for its slice only: for nothing that *)
(* counts when the slice is adrift, as it is when the service has no       *)
(* record of the task, took it back, or does not hear its end.             *)
LEMMA GoodEndsStep ==
  ASSUME SchedInv, GoodInv, NEW s \in Slice, NEW n \in Node,
         TaskSucceeds(s, n) \/ TaskFails(s, n)
  PROVE  GoodInv'
<1> DEFINE w == written \ adrift
           k == marked \ adrift
           w2 == written' \ adrift
           k2 == marked' \ adrift
<1>1. Sound(mem, day) /\ mem.lost = {} /\ <<s, n>> \in Executing
  BY DEF SchedInv, TaskSucceeds, TaskFails, Quiet
<1>2. PICK failed \in BOOLEAN : Ends(s, n, failed) /\ (failed => w2 = w /\ k2 = k)
  <2>1. Ends(s, n, FALSE) \/ (Ends(s, n, TRUE) /\ w2 = w /\ k2 = k)
    BY DEF TaskSucceeds, TaskFails, dataVars
  <2> HIDE DEF w, k, w2, k2
  <2>2. CASE Ends(s, n, FALSE)
    BY <2>2, Zenon
  <2>3. CASE Ends(s, n, TRUE) /\ w2 = w /\ k2 = k
    BY <2>3, Zenon
  <2> QED
    BY <2>1, <2>2, <2>3
<1>3. OnlyAt(s, w, k, w2, k2) /\ (s \in adrift => w2 = w /\ k2 = k)
  BY DEF TaskSucceeds, TaskFails, OnlyAt, dataVars
<1>4. w2 \cap adrift = {} /\ k2 \cap adrift = {} /\ Good(mem, w, k, adrift)
  BY DEF GoodInv, GoodNow
<1>5. ASSUME Good(mem', w2, k2, adrift), away' \subseteq away, adrift' = adrift
      PROVE  GoodInv'
  BY <1>5 DEF GoodInv, GoodNow
<1>6. CASE EndHeard(s, n, failed)
  <2>1. s \in adrift \/ <<s, n>> \in mem.slots
    <3>1. <<s, n>>[1] = s
      OBVIOUS
    <3> QED
      BY <1>1, <3>1 DEF Executing, Records, GoodInv, GoodNow, Good, SlotsOK
  <2>2. mem' \in Reported(mem, s, n, failed) /\ away' = away /\ adrift' = adrift
    BY <1>6 DEF EndHeard, histVars
  <2> HIDE DEF w, k, w2, k2
  <2>3. \/ w2 = w /\ k2 = k
        \/ s \notin adrift /\ <<s, n>> \in mem.slots /\ failed = FALSE
    BY <1>2, <1>3, <2>1
  <2>4. Good(mem', w2, k2, adrift)
    BY <1>1, <1>3, <1>4, <2>2, <2>3, GoodReported
  <2> QED
    BY <1>5, <2>2, <2>4
<1>7. CASE EndAway(s, n)
  <2>1. s \in adrift
    BY <1>7 DEF EndAway, GoodInv
  <2>2. mem' = mem /\ away' \subseteq away /\ adrift' = adrift
    BY <1>7 DEF EndAway, histVars
  <2> HIDE DEF w, k, w2, k2
  <2> QED
    BY <1>3, <1>4, <1>5, <2>1, <2>2
<1>8. CASE EndMissed(s, n)
  <2>1. mem' = mem /\ away' = away /\ adrift' = adrift \cup {s}
    BY <1>8 DEF EndMissed
  <2>2. Good(mem, w \ adrift', k \ adrift', adrift')
    BY <1>4, <2>1, GoodWider
  <2>3. w \ adrift' = written' \ adrift' /\ k \ adrift' = marked' \ adrift'
    BY <1>3, <2>1 DEF OnlyAt
  <2> HIDE DEF w, k, w2, k2
  <2> QED
    BY <2>1, <2>2, <2>3 DEF GoodInv, GoodNow
<1> QED
  BY <1>2, <1>6, <1>7, <1>8 DEF Ends

(* What a Rust node writes meanwhile is of a slice that is marked, and     *)
(* whose task is one for Rust.                                             *)
LEMMA GoodRustStep ==
  ASSUME SchedInv, GoodInv, NEW s \in Slice, NEW n \in Node,
         RustMarks(s, n) \/ RustWrites(s, n)
  PROVE  GoodNow'
<1> DEFINE w == written \ adrift
           k == marked \ adrift
           w2 == written' \ adrift
           k2 == marked' \ adrift
<1>0. mem' = mem /\ adrift' = adrift /\ Good(mem, w, k, adrift)
  BY DEF RustMarks, RustWrites, GoodInv, GoodNow, histVars
<1>1. Sound(mem, day) /\ mem \in Memory /\ Distinct(Loaded(mem)) /\ mem.reading \in Reading
  BY Fields DEF SchedInv, Sound, TasksOK
<1>2. CASE s \in adrift
  <2>1. w2 = w /\ k2 = k
    BY <1>2 DEF RustMarks, RustWrites
  <2> QED
    BY <1>0, <2>1 DEF GoodNow
<1>3. CASE s \notin adrift
  <2>1. <<s, n>> \in mem.slots /\ n \in RustNode
    <3>1. <<s, n>> \in Executing /\ n \in RustNode /\ <<s, n>>[1] = s
      BY DEF RustMarks, RustWrites
    <3> QED
      BY <1>0, <1>3, <3>1 DEF Executing, Records, GoodInv, Good, SlotsOK
  <2>2. PICK t \in mem.out : t.slice = s /\ (t.rust <=> n \in RustNode)
    <3>1. <<s, n>>[1] = s /\ <<s, n>>[2] = n
      OBVIOUS
    <3> QED
      BY <1>0, <1>3, <2>1, <3>1 DEF Good, SlotsOK
  <2>3. t \in Loaded(mem) /\ t.rust
    BY <2>1, <2>2 DEF Loaded
  <2>4. /\ \A u : CleanIn(u, w2, k2) => CleanIn(u, w, k)
        /\ s \in k2 /\ \A u : u # s => (u \in k2 <=> u \in k)
    BY <1>3 DEF RustMarks, RustWrites, CleanIn
  <2>5. w2 \cap adrift = {} /\ k2 \cap adrift = {}
    OBVIOUS
  <2>6. GoodNow' <=> Good(mem, w2, k2, adrift)
    BY <1>0 DEF GoodNow
  <2> HIDE DEF w, k, w2, k2
  <2>7. Uncleaned(mem, w2, k2)
    <3> SUFFICES ASSUME NEW u \in Loaded(mem)
                 PROVE  ~CleanIn(u.slice, w2, k2) /\ (u.slice \in k2 => u.rust)
      BY DEF Uncleaned
    <3>1. ~CleanIn(u.slice, w, k) /\ (u.slice \in k => u.rust)
      BY <1>0 DEF Good, Uncleaned
    <3>2. u.slice = s => u.rust
      BY <1>1, <2>2, <2>3 DEF Distinct
    <3> QED
      BY <2>4, <3>1, <3>2
  <2>8. PageFresh(mem, w2, k2)
    <3>1. s \in SlicesOf(Loaded(mem))
      BY <2>2, <2>3 DEF SlicesOf
    <3>2. ASSUME mem.reading.stage = "marks", NEW u \in Slice, CleanIn(u, w2, k2),
                 u \notin mem.reading.completed
          PROVE  UpToDate(mem, u)
      BY <1>0, <2>4, <3>2 DEF Good, PageFresh
    <3>3. ASSUME mem.reading.stage = "ready", NEW x \in mem.reading.rows
          PROVE  /\ CleanIn(x[1], w2, k2) => UpToDate(mem, x[1])
                 /\ x[1] \in k2 /\ ~x[2] => x[1] \in SlicesOf(Loaded(mem)) \/ UpToDate(mem, x[1])
      <4>1. /\ CleanIn(x[1], w, k) => UpToDate(mem, x[1])
            /\ x[1] \in k /\ ~x[2] => x[1] \in SlicesOf(Loaded(mem)) \/ UpToDate(mem, x[1])
        BY <1>0, <3>3 DEF Good, PageFresh
      <4> QED
        BY <2>4, <3>1, <4>1
    <3> QED
      BY <3>2, <3>3 DEF PageFresh
  <2> QED
    BY <1>0, <2>5, <2>6, <2>7, <2>8 DEF Good
<1> QED
  BY <1>2, <1>3

(* Records of a node are freed; its tasks are settled one by one then.     *)
LEMMA GoodFreed ==
  ASSUME SchedInv, mem.lost = {}, NEW w, NEW k, NEW o, Good(mem, w, k, o),
         NEW n, NEW gone, \A x \in gone : x[2] = n, NEW r,
         r.queue = mem.queue, r.out = mem.out, r.recent = mem.recent,
         r.scans = mem.scans, r.reading = mem.reading,
         r.slots = mem.slots \ gone, \A x \in r.restored : x[1] \in o,
         \A t \in r.lost : <<t.slice, n>> \in mem.slots \cap gone
  PROVE  Good(r, w, k, o)
<1>1. Loaded(r) = Loaded(mem) /\ \A s : UpToDate(r, s) <=> UpToDate(mem, s)
  BY DEF Loaded, UpToDate
<1>2. SlotsOK(r, o)
  <2>1. \A x, y \in r.slots : x[1] = y[1] => x = y \/ x[1] \in o
    BY DEF Good, SlotsOK
  <2>2. ASSUME NEW x \in r.slots, x[1] \notin o
        PROVE  \E t \in r.out \ r.lost : t.slice = x[1] /\ (t.rust <=> x[2] \in RustNode)
    <3>1. x \in mem.slots /\ x \notin gone
      BY <2>2
    <3>2. PICK t \in mem.out : t.slice = x[1] /\ (t.rust <=> x[2] \in RustNode)
      BY <2>2, <3>1 DEF Good, SlotsOK
    <3>3. <<t.slice, n>> \notin mem.slots \cap gone
      <4>1. <<t.slice, n>>[1] = t.slice
        OBVIOUS
      <4> QED
        BY <2>2, <3>1, <3>2, <4>1 DEF Good, SlotsOK
    <3>4. t \in r.out \ r.lost
      BY <3>2, <3>3
    <3> QED
      BY <3>2, <3>4
  <2> QED
    BY <2>1, <2>2 DEF SlotsOK
<1> QED
  BY <1>1, <1>2 DEF Good, Uncleaned, PageFresh

LEMMA GoodNotifyStep ==
  ASSUME SchedInv, NEW w, NEW k, NEW o, Good(mem, w, k, o), NEW t \in mem.lost, NotifyLost(t)
  PROVE  Good(mem', w, k, o)
<1> DEFINE r == [mem EXCEPT !.lost = @ \ {t}]
<1>1. /\ mem \in Memory /\ Sound(mem, day) /\ mem.lost \subseteq mem.out /\ mem.out \subseteq Loaded(mem)
      /\ Distinct(Loaded(mem))
  BY DEF SchedInv, Sound, TasksOK, Loaded
<1>2. mem' \in Drained(Settled(r, t, TRUE))
  BY DEF NotifyLost
<1>3. /\ r \in Memory /\ r.queue = mem.queue /\ r.out = mem.out /\ r.lost = mem.lost \ {t}
      /\ r.loaded = mem.loaded /\ r.scans = mem.scans /\ r.reading = mem.reading /\ r.cont = mem.cont
      /\ r.slots = mem.slots /\ r.restored = mem.restored /\ r.recent = mem.recent
  BY <1>1 DEF Memory
<1> HIDE DEF r
<1>4. Sound(r, day) /\ t \in r.out /\ t \notin r.lost
  BY <1>1, <1>3, SoundLost
<1>5. Good(r, w, k, o)
  <2>1. Loaded(r) = Loaded(mem) /\ \A s : UpToDate(r, s) <=> UpToDate(mem, s)
    BY <1>3 DEF Loaded, UpToDate
  <2>2. SlotsOK(r, o)
    BY <1>3 DEF Good, SlotsOK
  <2>3. Uncleaned(r, w, k) /\ PageFresh(r, w, k)
    BY <1>3, <2>1 DEF Good, Uncleaned, PageFresh
  <2> QED
    BY <2>2, <2>3 DEF Good
<1>6. t.slice \in o \/ t.slice \notin ActiveSlices(r)
  <2> SUFFICES ASSUME NEW x \in Records(mem), x[1] = t.slice, x[1] \notin o PROVE FALSE
    BY <1>3 DEF ActiveSlices, Records
  <2>1. PICK u \in mem.out \ mem.lost : u.slice = x[1]
    BY DEF Good, SlotsOK, Records
  <2>2. u = t
    BY <1>1, <2>1 DEF Distinct
  <2> QED
    BY <2>1, <2>2
<1>7. Sound(Settled(r, t, TRUE), day) /\ Good(Settled(r, t, TRUE), w, k, o)
  BY <1>4, <1>5, <1>6, SoundSettled, GoodSettled
<1> QED
  BY <1>2, <1>7, GoodDrained

(* What a node that joins brings along beyond the records is adrift.       *)
LEMMA GoodJoinStep ==
  ASSUME SchedInv, NodesTyped, GoodInv, NEW n \in Node, NodeJoins(n)
  PROVE  GoodInv'
<1> DEFINE w == written \ adrift'
           k == marked \ adrift'
           r == Joined(n)
<1>1. mem \in Memory /\ Sound(mem, day)
  BY DEF SchedInv, Sound
<1>2. /\ r \in Memory
      /\ r.slots = mem.slots \ Missing(n)
      /\ r.restored = (mem.restored \ Missing(n)) \cup (Listed(n) \ mem.slots)
      /\ r.lost = Lost(n) /\ Lost(n) \subseteq mem.out
      /\ r.queue = mem.queue /\ r.out = mem.out /\ r.loaded = mem.loaded
      /\ r.recent = mem.recent /\ r.scans = mem.scans /\ r.reading = mem.reading
      /\ r.cont = mem.cont
  BY <1>1, JoinedIs
<1>3. /\ mem.lost = {} /\ (mem' \in Drained(r) \/ mem' = r) /\ away' \subseteq away
      /\ adrift' = adrift \cup {x[1] : x \in Listed(n) \ mem.slots}
      /\ written' = written /\ marked' = marked
  BY NodeJoinsIs DEF dataVars
<1> HIDE DEF r
<1>4. Good(mem, w, k, adrift')
  <2>1. Good(mem, written \ adrift, marked \ adrift, adrift) /\ adrift \subseteq adrift'
    BY <1>3 DEF GoodInv, GoodNow
  <2>2. (written \ adrift) \ adrift' = w /\ (marked \ adrift) \ adrift' = k
    BY <2>1
  <2> HIDE DEF w, k
  <2> QED
    BY <2>1, <2>2, GoodWider
<1> HIDE DEF w, k
<1>5. Good(r, w, k, adrift')
  <2>1. \A x \in Missing(n) : x[2] = n
    BY DEF Missing, OfNode
  <2>2. \A x \in r.restored : x[1] \in adrift'
    BY <1>2, <1>3, <1>4 DEF Good, SlotsOK
  <2>3. \A t \in r.lost : <<t.slice, n>> \in mem.slots \cap Missing(n)
    BY <1>2 DEF Lost
  <2> QED
    BY <1>2, <1>3, <1>4, <2>1, <2>2, <2>3, GoodFreed
<1>6. Sound(r, day)
  BY <1>1, <1>2, SoundLost
<1>7. Good(mem', w, k, adrift')
  BY <1>3, <1>5, <1>6, GoodDrained
<1> QED
  BY <1>3, <1>7 DEF GoodInv, GoodNow, w, k

(* The status timer gives a node up: what it executes is adrift from here. *)
LEMMA GoodSettleStep ==
  ASSUME SchedInv, NodesTyped, GoodInv, NEW n \in Node, SettleIfBusy(n)
  PROVE  GoodInv'
<1> DEFINE w == written \ adrift'
           k == marked \ adrift'
           gone == OfNode(Records(mem), n)
<1>1. mem \in Memory /\ mem.lost = {}
  BY DEF SchedInv, Sound, SettleIfBusy, Quiet
<1>2. /\ mem'.slots = mem.slots \ gone /\ mem'.restored = mem.restored \ gone
      /\ mem'.lost = {t \in mem.out : <<t.slice, n>> \in mem.slots}
      /\ mem'.queue = mem.queue /\ mem'.out = mem.out /\ mem'.recent = mem.recent
      /\ mem'.scans = mem.scans /\ mem'.reading = mem.reading
  BY <1>1 DEF SettleIfBusy, Memory
<1>3. /\ away' = away \cup (gone \ vacant)
      /\ adrift' = adrift \cup {x[1] : x \in gone \ vacant}
      /\ written' = written /\ marked' = marked
  BY DEF SettleIfBusy, dataVars
<1>4. /\ \A x \in gone : x[2] = n
      /\ \A t : <<t.slice, n>> \in mem.slots <=> <<t.slice, n>> \in mem.slots \cap gone
  BY DEF OfNode, Records
<1> HIDE DEF gone
<1>5. Good(mem, w, k, adrift')
  <2>1. Good(mem, written \ adrift, marked \ adrift, adrift) /\ adrift \subseteq adrift'
    BY <1>3 DEF GoodInv, GoodNow
  <2>2. (written \ adrift) \ adrift' = w /\ (marked \ adrift) \ adrift' = k
    BY <2>1
  <2> HIDE DEF w, k
  <2> QED
    BY <2>1, <2>2, GoodWider
<1> HIDE DEF w, k
<1>6. Good(mem', w, k, adrift')
  <2>1. \A x \in mem'.restored : x[1] \in adrift'
    BY <1>2, <1>5 DEF Good, SlotsOK
  <2>2. \A t \in mem'.lost : <<t.slice, n>> \in mem.slots \cap gone
    BY <1>2, <1>4
  <2> QED
    BY <1>1, <1>2, <1>4, <1>5, <2>1, <2>2, GoodFreed
<1>7. \A x \in away' : x[1] \in adrift'
  BY <1>3 DEF GoodInv
<1> QED
  BY <1>3, <1>6, <1>7 DEF GoodInv, GoodNow, w, k

(* A result sent again is of a task taken back, whose slice is adrift.     *)
LEMMA GoodReplayedStep ==
  ASSUME SchedInv, GoodInv, NEW s \in Slice, NEW n \in RustNode, ResultReplayed(s, n)
  PROVE  GoodInv'
<1>1. /\ Sound(mem, day) /\ mem.lost = {} /\ mem' \in Reported(mem, s, n, FALSE)
      /\ away' = away /\ adrift' = adrift /\ written' = written /\ marked' = marked
  BY DEF SchedInv, ResultReplayed, Quiet, histVars, dataVars
<1>2. Good(mem', written \ adrift, marked \ adrift, adrift)
  BY <1>1, GoodReported DEF GoodInv, GoodNow
<1> QED
  BY <1>1, <1>2 DEF GoodInv, GoodNow

(* What the service starts with, whatever the tables say.                  *)
LEMMA GoodBooted ==
  ASSUME NEW w, NEW k, NEW o
  PROVE  Good(Booted, w \ o, k \ o, o)
<1>1. /\ Loaded(Booted) = {} /\ Booted.slots = {} /\ Booted.restored = {}
      /\ Booted.reading = NotReading
  BY DEF Loaded, Booted
<1>2. SlotsOK(Booted, o) /\ Uncleaned(Booted, w \ o, k \ o) /\ PageFresh(Booted, w \ o, k \ o)
  BY <1>1 DEF SlotsOK, Uncleaned, PageFresh, NotReading
<1> QED
  BY <1>2 DEF Good

LEMMA GoodStep ==
  ASSUME SchedInv, GoodInv, Next
  PROVE  GoodInv'
<1> DEFINE w == written \ adrift
           k == marked \ adrift
<1>1. GoodNow /\ Good(mem, w, k, adrift) /\ \A x \in away : x[1] \in adrift
  BY DEF GoodInv, GoodNow
<1>0. NodesTyped
  BY DEF SchedInv, TypeOK, NodesTyped
<1>2. ASSUME UNCHANGED <<written, marked, adrift>>, Good(mem', w, k, adrift), away' \subseteq away
      PROVE  GoodInv'
  BY <1>1, <1>2 DEF GoodInv, GoodNow
<1> HIDE DEF w, k
<1>3. CASE \/ \E j \in Key : CleanNow(j)
           \/ TickBegin
           \/ \E due \in BOOLEAN : TickEnd(due)
           \/ DrainTurn
           \/ \E ok \in BOOLEAN : SaveDay(ok)
           \/ PageArrives
           \/ PageFails
  <2>1. Good(mem', w, k, adrift)
    BY <1>1, <1>3, GoodMemStep
  <2>2. UNCHANGED <<away, written, marked, adrift>>
    BY <1>3 DEF CleanNow, TickBegin, TickEnd, DrainTurn, SaveDay, PageArrives, PageFails,
                worldVars, nodeVars, histVars, dataVars
  <2> QED
    BY <1>2, <2>1, <2>2
<1>4. CASE LoadPage
  <2>1. ASSUME NEW x \in away PROVE x[1] \in adrift'
    BY <1>1, <1>4 DEF LoadPage, OnNodes, Executing
  <2>2. away' = away
    BY <1>4 DEF LoadPage, nodeVars
  <2> QED
    BY <1>1, <1>4, <2>1, <2>2, GoodLoadStep DEF GoodInv
<1>5. CASE QueryCompleted \/ QueryMarks
  <2>1. away' = away /\ adrift' = adrift
    BY <1>5 DEF QueryCompleted, QueryMarks, worldVars, nodeVars, histVars
  <2> QED
    BY <1>1, <1>5, <2>1, GoodQueryStep DEF GoodInv
<1>6. ASSUME NEW s \in Slice, NEW n \in Node, TaskSucceeds(s, n) \/ TaskFails(s, n) PROVE GoodInv'
  BY <1>6, GoodEndsStep
<1>7. ASSUME NEW s \in Slice, NEW n \in Node, RustMarks(s, n) \/ RustWrites(s, n) PROVE GoodInv'
  <2>1. away' = away /\ adrift' = adrift
    BY <1>7 DEF RustMarks, RustWrites, nodeVars, histVars
  <2> QED
    BY <1>1, <1>7, <2>1, GoodRustStep DEF GoodInv
<1>8. ASSUME NEW n \in Node, NodeGone(n) PROVE GoodInv'
  <2>1. /\ mem'.queue = mem.queue /\ mem'.out = mem.out /\ mem'.lost = mem.lost
        /\ mem'.scans = mem.scans /\ mem'.reading = mem.reading
        /\ mem'.slots = mem.slots /\ mem'.restored = mem.restored /\ mem'.recent = mem.recent
    BY <1>8 DEF NodeGone, SchedInv, Sound, Memory
  <2>2. Good(mem', w, k, adrift)
    BY <1>1, <2>1, GoodSame
  <2> QED
    BY <1>2, <1>8, <2>2 DEF NodeGone, nodeVars, histVars, dataVars
<1>9. ASSUME NEW t \in mem.lost, NotifyLost(t) PROVE GoodInv'
  <2>1. Good(mem', w, k, adrift)
    BY <1>1, <1>9, GoodNotifyStep
  <2> QED
    BY <1>2, <1>9, <2>1 DEF NotifyLost, worldVars, nodeVars, histVars, dataVars
<1>10. ASSUME NEW n \in Node, NodeJoins(n) PROVE GoodInv'
  BY <1>0, <1>10, GoodJoinStep
<1>11. CASE Restart
  <2>1. mem' = Booted /\ \A x \in away' : x[1] \in adrift'
    BY <1>11 DEF Restart, OnNodes, dataVars
  <2>2. Good(Booted, written' \ adrift', marked' \ adrift', adrift')
    BY GoodBooted
  <2> QED
    BY <2>1, <2>2 DEF GoodInv, GoodNow
<1>12. CASE NextDay
  BY <1>1, <1>2, <1>12 DEF NextDay, nodeVars, histVars, dataVars
<1>13. ASSUME NEW n \in Node, NodeDies(n) PROVE GoodInv'
  BY <1>1, <1>2, <1>13 DEF NodeDies, histVars, dataVars
<1>14. ASSUME NEW n \in Node, SettleIfBusy(n) PROVE GoodInv'
  BY <1>0, <1>14, GoodSettleStep
<1>15. ASSUME NEW s \in Slice, NEW n \in RustNode, ResultReplayed(s, n) PROVE GoodInv'
  BY <1>15, GoodReplayedStep
<1> QED
  BY <1>3, <1>4, <1>5, <1>6, <1>7, <1>8, <1>9, <1>10, <1>11, <1>12, <1>13, <1>14, <1>15 DEF Next

LEMMA GoodInvariant == Spec => []GoodInv
<1>1. Init => GoodInv
  <2>1. Good(Booted, {} \ {}, {} \ {}, {})
    BY GoodBooted
  <2> QED
    BY <2>1 DEF Init, GoodInv, GoodNow
<1>2. SchedInv /\ GoodInv /\ [Next]_vars => GoodInv'
  <2>1. CASE UNCHANGED vars
    BY <2>1 DEF vars, worldVars, nodeVars, histVars, dataVars, GoodInv, GoodNow
  <2> QED
    BY <2>1, GoodStep
<1> QED
  BY <1>1, <1>2, SchedInvariant, PTL DEF Spec

(* No slice is with two nodes, and no node cleans one that is clean        *)
(* already, however many pages, asked for or of the timer, list it before  *)
(* and after its task ends (enqueueTask, recentSlices).  That goes for     *)
(* every slice but those whose execution or end the service lost track of  *)
(* (kept by a node over a restart, given up while the node worked on,      *)
(* ended unheard, taken back when a node dialled in), and for each of      *)
(* these again from the first page that begins with it nowhere.            *)
THEOREM SlicesCleanedOnce == Spec => []CleanedOnce
<1>1. SchedInv /\ GoodInv => CleanedOnce
  <2> SUFFICES ASSUME SchedInv, GoodInv PROVE CleanedOnce
    OBVIOUS
  <2>1. /\ SlotsOK(mem, adrift) /\ Uncleaned(mem, written \ adrift, marked \ adrift)
        /\ \A x \in Executing : x[1] \notin adrift => x \in mem.slots
    BY DEF GoodInv, GoodNow, Good, SlotsOK, Executing, Records
  <2>2. ASSUME NEW x \in Executing, Clean(x[1]) PROVE x[1] \in adrift
    <3> SUFFICES ASSUME x[1] \notin adrift PROVE FALSE
      OBVIOUS
    <3>1. PICK t \in mem.out : t.slice = x[1]
      BY <2>1 DEF SlotsOK
    <3> QED
      BY <2>1, <2>2, <3>1 DEF Uncleaned, Loaded, Clean, CleanIn
  <2>3. ASSUME NEW x \in Executing, NEW y \in Executing, x[1] = y[1] PROVE x = y \/ x[1] \in adrift
    BY <2>1, <2>3 DEF SlotsOK
  <2> QED
    BY <2>2, <2>3 DEF CleanedOnce
<1> QED
  BY <1>1, SchedInvariant, GoodInvariant, PTL

(* What a Rust node left incomplete is only with Rust nodes: the runtime   *)
(* required is right although the marker may be set after the page was     *)
(* read and the task queued.  Slices whose execution or end the service    *)
(* lost track of are left out, as in SlicesCleanedOnce.                    *)
THEOREM RustKeepsItsOwn == Spec => []RustFinishesItsOwn
<1>1. SchedInv /\ GoodInv => RustFinishesItsOwn
  <2> SUFFICES ASSUME SchedInv, GoodInv, NEW x \in Executing, x[1] \in marked, x[1] \notin adrift
               PROVE  x[2] \in RustNode
    BY DEF RustFinishesItsOwn
  <2>1. /\ x \in mem.slots /\ SlotsOK(mem, adrift)
        /\ Uncleaned(mem, written \ adrift, marked \ adrift)
    BY DEF GoodInv, GoodNow, Good, SlotsOK, Executing, Records
  <2>2. PICK t \in mem.out : t.slice = x[1] /\ (t.rust <=> x[2] \in RustNode)
    BY <2>1 DEF SlotsOK
  <2>3. t \in Loaded(mem)
    BY DEF Loaded
  <2> QED
    BY <2>1, <2>2, <2>3 DEF Uncleaned
<1> QED
  BY <1>1, SchedInvariant, GoodInvariant, PTL

-----------------------------------------------------------------------------
(* What the record of a day's run rests on.  A slice is handled, for a run *)
(* of day d, if it is clean, was given up in this run or a later one, or   *)
(* has a task of one.                                                      *)
Given(m, s, d, w, k) == CleanIn(s, w, k) \/ m.recent[s] >= d
Handled(m, s, d, w, k) ==
  Given(m, s, d, w, k) \/ \E t \in Loaded(m) : t.slice = s /\ t.run >= d

RecentOK(m, today) ==
  \A s \in Slice : /\ m.recent[s] <= today
                   /\ \A t \in Loaded(m) : m.recent[s] <= t.run
                   /\ \A j \in Scanned(m) : m.recent[s] <= m.scans[j].run

(* A slice due in the full scan is handled, or a row of it lies ahead.     *)
Ahead(m, s) == \E i \in 1..Len(Rows) : i > m.scans[All].cursor /\ Rows[i] = s
Covered(m, w, k) ==
  All \in Scanned(m) =>
    \A s \in Slice : Date[s] < m.scans[All].run =>
                       Handled(m, s, m.scans[All].run, w, k) \/ Ahead(m, s)

(* The run of the day is still being scanned, or all due in it is handled. *)
Due(m) == All \in Scanned(m) /\ (m.scans[All].run >= m.auto \/ m.scans[All].next >= m.auto)
AutoOK(m, today, w, k) ==
  m.auto # Never =>
    /\ m.auto <= today
    /\ Due(m) \/ \A s \in Slice : Date[s] < m.auto => Handled(m, s, m.auto, w, k)

SavingOK(m, w, k) ==
  m.saving # Never => \A s \in Slice : Date[s] < m.saving => Given(m, s, m.saving, w, k)

(* The rows of a page that are not listed are clean.                       *)
PageOf(m) == PageRows(m.reading.key, m.scans[m.reading.key], m.reading.limit)
PageOK(m, w, k) ==
  /\ m.reading.stage = "marks" => m.reading.completed \subseteq w
  /\ m.reading.stage = "ready" =>
       \A i \in PageOf(m) : CleanIn(Rows[i], w, k) \/ \E x \in m.reading.rows : x[1] = Rows[i]

Tracked(m, today, w, k) ==
  /\ RecentOK(m, today) /\ Covered(m, w, k) /\ AutoOK(m, today, w, k)
  /\ SavingOK(m, w, k) /\ PageOK(m, w, k)

LEMMA DayFields ==
  ASSUME NEW m \in Memory
  PROVE  (\A s \in Slice : m.recent[s] \in Nat) /\ m.auto \in Nat /\ m.saving \in Nat
<1>1. Day \cup {Never} \subseteq Nat
  BY Days
<1>2. /\ m.recent \in [Slice -> Day \cup {Never}] /\ m.auto \in Day \cup {Never}
      /\ m.saving \in Day \cup {Never}
  BY Fields
<1>3. \A s \in Slice : m.recent[s] \in Day \cup {Never}
  BY <1>2
<1> QED
  BY <1>1, <1>2, <1>3

(* The tables change, but what is clean stays clean.                       *)
LEMMA TrackedWorld ==
  ASSUME NEW m, NEW today, NEW w, NEW k, Tracked(m, today, w, k), NEW w2, NEW k2,
         w \subseteq w2, \A s : CleanIn(s, w, k) => CleanIn(s, w2, k2)
  PROVE  Tracked(m, today, w2, k2)
<1>1. \A s, d : Given(m, s, d, w, k) => Given(m, s, d, w2, k2)
  BY DEF Given
<1>2. \A s, d : Handled(m, s, d, w, k) => Handled(m, s, d, w2, k2)
  BY <1>1 DEF Handled
<1>3. Covered(m, w2, k2) /\ AutoOK(m, today, w2, k2)
  BY <1>2 DEF Tracked, Covered, AutoOK
<1>4. SavingOK(m, w2, k2)
  BY <1>1 DEF Tracked, SavingOK
<1>5. PageOK(m, w2, k2)
  BY DEF Tracked, PageOK
<1> QED
  BY <1>3, <1>4, <1>5 DEF Tracked

(* Another memory, in which no less is handled.                            *)
SameScans(m, r) ==
  /\ Scanned(r) = Scanned(m)
  /\ \A j \in Scanned(m) : /\ r.scans[j].run = m.scans[j].run /\ r.scans[j].next = m.scans[j].next
                           /\ r.scans[j].cursor = m.scans[j].cursor

LEMMA TrackedLike ==
  ASSUME NEW m \in Memory, NEW today, NEW w, NEW k, Tracked(m, today, w, k), NEW r,
         RecentOK(r, today), SameScans(m, r),
         \A s \in Slice, d \in Day : Given(m, s, d, w, k) => Given(r, s, d, w, k),
         \A s \in Slice, d \in Day : Handled(m, s, d, w, k) => Handled(r, s, d, w, k),
         r.auto = m.auto, r.saving = m.saving \/ SavingOK(r, w, k),
         \/ r.reading = NotReading
         \/ r.reading = m.reading /\ m.reading.key \in Scanned(m)
  PROVE  Tracked(r, today, w, k)
<1>1. m.auto \in Day \cup {Never} /\ m.saving \in Day \cup {Never}
  BY Fields
<1>2. All \in Scanned(m) => m.scans[All].run \in Day
  BY ScanOf
<1>3. \A s \in Slice : All \in Scanned(m) => (Ahead(r, s) <=> Ahead(m, s))
  BY DEF SameScans, Ahead
<1>4. Covered(r, w, k)
  BY <1>2, <1>3 DEF Tracked, Covered, SameScans
<1>5. AutoOK(r, today, w, k)
  BY <1>1 DEF Tracked, AutoOK, Due, SameScans
<1>6. SavingOK(r, w, k)
  BY <1>1 DEF Tracked, SavingOK
<1>7. PageOK(r, w, k)
  <2>1. CASE r.reading = NotReading
    BY <2>1 DEF PageOK, NotReading
  <2>2. CASE r.reading = m.reading /\ m.reading.key \in Scanned(m)
    <3>1. PageOf(r) = PageOf(m)
      BY <2>2 DEF PageOf, PageRows, InRange, Through, SameScans
    <3> QED
      BY <2>2, <3>1 DEF Tracked, PageOK
  <2> QED
    BY <2>1, <2>2
<1> QED
  BY <1>4, <1>5, <1>6, <1>7 DEF Tracked

(* The same tasks and scans, and the rest does not matter.                 *)
LEMMA TrackedSame ==
  ASSUME NEW m, NEW today, Sound(m, today), NEW w, NEW k, Tracked(m, today, w, k), NEW r,
         r.queue = m.queue, r.out = m.out, r.recent = m.recent, SameScans(m, r),
         r.auto = m.auto, r.saving = m.saving \/ SavingOK(r, w, k),
         r.reading = NotReading \/ r.reading = m.reading
  PROVE  Tracked(r, today, w, k)
<1>1. m \in Memory /\ (m.reading # NotReading => m.reading.key \in Scanned(m))
  BY DEF Sound, ReadingOK
<1>2. Loaded(r) = Loaded(m)
  BY DEF Loaded
<1>3. RecentOK(r, today)
  BY <1>2 DEF Tracked, RecentOK, SameScans
<1>4. /\ \A s, d : Given(m, s, d, w, k) => Given(r, s, d, w, k)
      /\ \A s, d : Handled(m, s, d, w, k) => Handled(r, s, d, w, k)
  BY <1>2 DEF Given, Handled
<1> QED
  BY <1>1, <1>3, <1>4, TrackedLike

LEMMA TrackedRolled ==
  ASSUME NEW m, NEW today, Sound(m, today), Loaded(m) = {}, m.reading = NotReading,
         NEW w, NEW k, Tracked(m, today, w, k)
  PROVE  Tracked(RolledOver(m), today, w, k)
<1> DEFINE r == RolledOver(m)
           Rolls(j) == m.scans[j].waiting /\ m.scans[j].next # Never
<1>1. m \in Memory /\ ScansOK(m, today)
  BY DEF Sound
<1>2. /\ r \in Memory /\ Scanned(r) = Scanned(m)
      /\ \A j \in Scanned(m) : IF Rolls(j)
           THEN r.scans[j].run = m.scans[j].next /\ r.scans[j].next = Never /\ r.scans[j].cursor = 0
           ELSE r.scans[j] = m.scans[j]
  BY <1>1, RolledIs
<1>3. /\ r.queue = m.queue /\ r.out = m.out /\ r.recent = m.recent /\ r.auto = m.auto
      /\ r.saving = m.saving /\ r.reading = m.reading
  <2> DEFINE x == r.scans
  <2>1. r = [m EXCEPT !.scans = x]
    BY <1>1, RolledIs
  <2> HIDE DEF r, x
  <2> QED
    BY <1>1, <2>1 DEF Memory
<1> HIDE DEF r
<1>4. Loaded(r) = Loaded(m)
  BY <1>3 DEF Loaded
<1>5. \A j \in Scanned(m) : /\ m.scans[j].run \in Nat /\ m.scans[j].next \in Nat
                            /\ r.scans[j].run \in Nat /\ r.scans[j].run >= m.scans[j].run
                            /\ Rolls(j) => r.scans[j].run >= m.scans[j].next
  <2> SUFFICES ASSUME NEW j \in Scanned(m)
               PROVE  /\ m.scans[j].run \in Nat /\ m.scans[j].next \in Nat
                      /\ r.scans[j].run \in Nat /\ r.scans[j].run >= m.scans[j].run
                      /\ Rolls(j) => r.scans[j].run >= m.scans[j].next
    OBVIOUS
  <2>1. m.scans[j].run \in Nat /\ m.scans[j].next \in Nat
    BY <1>1, ScanOf
  <2>2. m.scans[j].next # Never => m.scans[j].run <= m.scans[j].next
    BY <1>1 DEF ScansOK
  <2>3. r.scans[j].run = IF Rolls(j) THEN m.scans[j].next ELSE m.scans[j].run
    BY <1>2
  <2> QED
    BY <2>1, <2>2, <2>3
<1>6. RecentOK(r, today)
  <2>1. \A s \in Slice : m.recent[s] \in Nat
    BY <1>1, DayFields
  <2> QED
    BY <1>2, <1>3, <1>4, <1>5, <2>1 DEF Tracked, RecentOK
<1>7. \A s, d : /\ Given(m, s, d, w, k) <=> Given(r, s, d, w, k)
                /\ Handled(m, s, d, w, k) <=> Handled(r, s, d, w, k)
  BY <1>3, <1>4 DEF Given, Handled
<1>8. Covered(r, w, k)
  <2> SUFFICES ASSUME All \in Scanned(m), NEW s \in Slice, Date[s] < r.scans[All].run
               PROVE  Handled(r, s, r.scans[All].run, w, k) \/ Ahead(r, s)
    BY <1>2 DEF Covered
  <2>1. CASE Rolls(All)
    <3>1. r.scans[All].cursor = 0
      BY <1>2, <2>1
    <3>2. PICK i \in 1..Len(Rows) : Rows[i] = s
      BY RowFacts
    <3>3. i > 0
      BY <3>2, RowFacts
    <3> QED
      BY <3>1, <3>2, <3>3 DEF Ahead
  <2>2. CASE ~Rolls(All)
    <3>1. r.scans[All] = m.scans[All]
      BY <1>2, <2>2
    <3>2. Handled(m, s, m.scans[All].run, w, k) \/ Ahead(m, s)
      BY <3>1 DEF Tracked, Covered
    <3> QED
      BY <1>7, <3>1, <3>2 DEF Ahead
  <2> QED
    BY <2>1, <2>2
<1>9. AutoOK(r, today, w, k)
  <2>1. Due(m) => Due(r)
    <3> SUFFICES ASSUME Due(m) PROVE Due(r)
      OBVIOUS
    <3>1. All \in Scanned(m) /\ All \in Scanned(r)
      BY <1>2 DEF Due
    <3>2. m.auto \in Nat
      BY <1>1, DayFields
    <3>3. CASE Rolls(All)
      <4>1. m.scans[All].run >= m.auto \/ m.scans[All].next >= m.auto
        BY DEF Due
      <4>2. r.scans[All].run >= m.auto
        BY <1>5, <3>1, <3>2, <3>3, <4>1
      <4> QED
        BY <1>3, <3>1, <4>2 DEF Due
    <3>4. CASE ~Rolls(All)
      BY <1>2, <1>3, <3>1, <3>4 DEF Due
    <3> QED
      BY <3>3, <3>4
  <2> QED
    BY <1>3, <1>7, <2>1 DEF Tracked, AutoOK
<1>10. SavingOK(r, w, k) /\ PageOK(r, w, k)
  BY <1>3, <1>7 DEF Tracked, SavingOK, PageOK, NotReading
<1>11. Tracked(r, today, w, k)
  BY <1>6, <1>8, <1>9, <1>10 DEF Tracked
<1> QED
  BY <1>11 DEF r

(* finishDailyRun: nothing is left, so all that was due is given.          *)
LEMMA TrackedRequested ==
  ASSUME NEW m, NEW today, Sound(m, today), NEW w, NEW k, Tracked(m, today, w, k)
  PROVE  Tracked(Requested(m), today, w, k)
<1> DEFINE r == Requested(m)
<1>1. m \in Memory /\ TasksOK(m, today)
  BY DEF Sound
<1>2. /\ r.queue = m.queue /\ r.out = m.out /\ r.recent = m.recent
      /\ r.reading = m.reading /\ r.auto = m.auto
      /\ \/ r.scans = m.scans
         \/ r.scans = RolledOver(m).scans /\ LoadedCount(m) = 0 /\ m.reading = NotReading
      /\ \/ r.saving = m.saving
         \/ /\ r.saving = m.auto /\ m.auto # Never
            /\ Scanned(r) = {} /\ m.queue = {} /\ m.out = {}
  BY <1>1, RequestedIs
<1> HIDE DEF r
<1>3. PICK x : /\ Sound(x, today) /\ Tracked(x, today, w, k) /\ r.scans = x.scans
               /\ r.queue = x.queue /\ r.out = x.out /\ r.recent = x.recent
               /\ r.reading = x.reading /\ r.auto = x.auto /\ x.saving = m.saving
  <2>1. CASE r.scans = m.scans
    BY <1>2, <2>1
  <2>2. CASE r.scans = RolledOver(m).scans /\ LoadedCount(m) = 0 /\ m.reading = NotReading
    <3> DEFINE x == RolledOver(m)
               y == x.scans
    <3>1. Loaded(m) = {}
      BY <1>1, <2>2, Counted
    <3>2. Sound(x, today) /\ Tracked(x, today, w, k)
      BY <2>2, <3>1, SoundRolled, TrackedRolled
    <3>3. x = [m EXCEPT !.scans = y]
      BY <1>1, RolledIs
    <3>4. r.scans = x.scans
      BY <2>2
    <3> HIDE DEF x, y
    <3>5. /\ x.queue = m.queue /\ x.out = m.out /\ x.recent = m.recent
          /\ x.reading = m.reading /\ x.auto = m.auto /\ x.saving = m.saving
      BY <1>1, <3>3 DEF Memory
    <3> QED
      BY <1>2, <3>2, <3>4, <3>5
  <2> QED
    BY <1>2, <2>1, <2>2
<1>4. SameScans(x, r)
  BY <1>3 DEF SameScans, Scanned
<1>5. r.saving = x.saving \/ SavingOK(r, w, k)
  <2> SUFFICES ASSUME r.saving # x.saving PROVE SavingOK(r, w, k)
    OBVIOUS
  <2>1. /\ r.saving = x.auto /\ x.auto # Never /\ Scanned(x) = {} /\ Loaded(x) = {}
    BY <1>2, <1>3, <1>4 DEF SameScans, Loaded
  <2>2. \A s \in Slice : Date[s] < x.auto => Handled(x, s, x.auto, w, k)
    BY <1>3, <2>1 DEF Tracked, AutoOK, Due
  <2> QED
    BY <1>3, <2>1, <2>2 DEF SavingOK, Handled, Given
<1>6. Tracked(r, today, w, k)
  BY <1>3, <1>4, <1>5, TrackedSame
<1> QED
  BY <1>6 DEF r

LEMMA TrackedDrained ==
  ASSUME NEW m, NEW today, Sound(m, today), NEW w, NEW k, Tracked(m, today, w, k), NEW r \in Drained(m)
  PROVE  Tracked(r, today, w, k)
<1>1. PICK p \in Plans(m) : r = Requested(SentOff(m, p))
  BY DispatchedIs DEF Drained
<1> DEFINE x == SentOff(m, p)
<1>2. m \in Memory /\ m.queue \cap m.out = {} /\ Distinct(Loaded(m))
      /\ (m.reading # NotReading => m.reading.key \in Scanned(m))
  BY DEF Sound, TasksOK, ReadingOK
<1>3. /\ x \in Memory /\ x.lost = m.lost /\ x.recent = m.recent
      /\ x.loaded = m.loaded /\ x.scans = m.scans /\ x.reading = m.reading /\ x.cont = m.cont
      /\ x.auto = m.auto /\ x.saving = m.saving
      /\ \A t \in Loaded(x) : \E u \in Loaded(m) : t.slice = u.slice /\ t.run = u.run
      /\ \A u \in Loaded(m) : \E t \in Loaded(x) : t.slice = u.slice /\ t.run = u.run
  BY <1>2, SentOffIs, SentOffLoaded
<1>4. Sound(x, today)
  BY SoundSentOff
<1> HIDE DEF x
<1>5. SameScans(m, x)
  BY <1>3 DEF SameScans, Scanned
<1>6. RecentOK(x, today)
  BY <1>3, <1>5 DEF Tracked, RecentOK, SameScans
<1>7. /\ \A s, d : Given(m, s, d, w, k) => Given(x, s, d, w, k)
      /\ \A s, d : Handled(m, s, d, w, k) => Handled(x, s, d, w, k)
  BY <1>3 DEF Given, Handled
<1>8. Tracked(x, today, w, k)
  BY <1>2, <1>3, <1>5, <1>6, <1>7, TrackedLike
<1> QED
  BY <1>1, <1>4, <1>8, TrackedRequested DEF x

(* A task that ends leaves its slice clean, given up or queued again.      *)
LEMMA TrackedSettled ==
  ASSUME NEW m, NEW today, Sound(m, today), NEW w, NEW k, Tracked(m, today, w, k),
         NEW t \in m.out, NEW failed, t.slice \notin ActiveSlices(m) \/ CleanIn(t.slice, w, k)
  PROVE  Tracked(Settled(m, t, failed), today, w, k)
<1> DEFINE r == Told(m, t, failed)
           e == Settled(m, t, failed)
           a == Again(m, t)
<1>1. /\ m \in Memory /\ t \in Loaded(m) /\ t \in Task /\ t.run \in Nat /\ t.slice \in Slice
      /\ t.run \in Day /\ t.run <= today /\ Distinct(Loaded(m))
      /\ \A u \in Loaded(m) : u.run = t.run
      /\ \A j \in Scanned(m) : t.run <= m.scans[j].run
      /\ (m.reading # NotReading => m.reading.key \in Scanned(m))
  BY Fields, TaskFacts DEF Sound, TasksOK, ScansOK, ReadingOK, Loaded
<1>2. /\ r \in Memory /\ r.out = m.out \ {t} /\ Loaded(r) = Loaded(m) \ {t}
      /\ \A s \in Slice : r.recent[s] = IF s = t.slice /\ ~Retried(m, t, failed) THEN t.run
                                        ELSE m.recent[s]
      /\ r.slots = m.slots /\ r.restored = m.restored /\ r.scans = m.scans /\ r.reading = m.reading
      /\ r.auto = m.auto /\ r.saving = m.saving
  BY ToldIs
<1>3. \A s \in Slice : m.recent[s] \in Nat
  BY <1>1, DayFields
<1>4. m.recent[t.slice] <= t.run
  BY <1>1 DEF Tracked, RecentOK
<1>5. CASE ~Retried(m, t, failed)
  <2>1. e = r
    BY <1>5, SettledIs
  <2> HIDE DEF r, e
  <2>2. SameScans(m, r)
    BY <1>2 DEF SameScans, Scanned
  <2>3. RecentOK(r, today)
    BY <1>1, <1>2, <1>5, <2>2 DEF Tracked, RecentOK, SameScans
  <2>4. \A s \in Slice, d \in Day : Given(m, s, d, w, k) => Given(r, s, d, w, k)
    <3> SUFFICES ASSUME NEW s \in Slice, NEW d \in Day, Given(m, s, d, w, k) PROVE Given(r, s, d, w, k)
      OBVIOUS
    <3>1. d \in Nat
      BY Days
    <3>2. m.recent[s] >= d => r.recent[s] >= d
      BY <1>1, <1>2, <1>3, <1>4, <3>1
    <3> QED
      BY <3>2 DEF Given
  <2>5. \A s \in Slice, d \in Day : Handled(m, s, d, w, k) => Handled(r, s, d, w, k)
    <3> SUFFICES ASSUME NEW s \in Slice, NEW d \in Day, NEW u \in Loaded(m), u.slice = s, u.run >= d
                 PROVE  Handled(r, s, d, w, k)
      BY <2>4 DEF Handled
    <3>1. CASE u = t
      <4>1. r.recent[s] = t.run
        BY <1>2, <1>5, <3>1
      <4> QED
        BY <3>1, <4>1 DEF Handled, Given
    <3>2. CASE u # t
      BY <1>2, <3>2 DEF Handled
    <3> QED
      BY <3>1, <3>2
  <2>6. Tracked(r, today, w, k)
    BY <1>1, <1>2, <2>2, <2>3, <2>4, <2>5, TrackedLike
  <2> QED
    BY <2>1, <2>6 DEF e
<1>6. CASE Retried(m, t, failed)
  <2>1. a \in Task /\ a.slice = t.slice /\ a.run = t.run
    BY <1>1, <1>6, AgainFacts
  <2>2. e = Enqueued(r, {a})
    BY <1>6, SettledIs
  <2> HIDE DEF r, e, a
  <2>3. /\ Loaded(e) = Loaded(r) \cup Taken(r, {a}) /\ e.recent = r.recent /\ e.scans = r.scans
        /\ e.reading = r.reading /\ e.auto = r.auto /\ e.saving = r.saving
    <3>1. {a} \in SUBSET Task /\ Distinct({a})
      BY <2>1 DEF Distinct
    <3> QED
      BY <1>2, <2>2, <3>1, EnqueuedIs
  <2>4. \A s \in Slice : e.recent[s] = m.recent[s]
    BY <1>2, <1>6, <2>3
  <2>5. SameScans(m, e)
    BY <1>2, <2>3 DEF SameScans, Scanned
  <2>6. \A u \in Loaded(e) : u.run = t.run
    <3>1. Taken(r, {a}) \subseteq {a}
      BY DEF Taken
    <3> QED
      BY <1>1, <1>2, <2>1, <2>3, <3>1
  <2>7. RecentOK(e, today)
    BY <1>1, <2>4, <2>5, <2>6 DEF Tracked, RecentOK, SameScans
  <2>8. \A s \in Slice, d \in Day : Given(m, s, d, w, k) => Given(e, s, d, w, k)
    BY <2>4 DEF Given
  <2>9. \A s \in Slice, d \in Day : Handled(m, s, d, w, k) => Handled(e, s, d, w, k)
    <3> SUFFICES ASSUME NEW s \in Slice, NEW d \in Day, NEW u \in Loaded(m), u.slice = s, u.run >= d
                 PROVE  Handled(e, s, d, w, k)
      BY <2>8 DEF Handled
    <3>1. CASE u # t
      BY <1>2, <2>3, <3>1 DEF Handled
    <3>2. CASE u = t /\ m.recent[s] = t.run
      BY <2>4, <3>2 DEF Handled, Given
    <3>3. CASE CleanIn(t.slice, w, k) /\ u = t
      BY <3>3 DEF Handled, Given
    <3>4. CASE t.slice \notin ActiveSlices(m) /\ u = t /\ m.recent[s] # t.run
      <4>1. \A v \in Loaded(r) : v.slice # t.slice
        BY <1>1, <1>2 DEF Distinct
      <4>2. a \in Taken(r, {a})
        BY <1>2, <2>1, <2>3, <2>4, <3>4, <4>1 DEF Taken, SlicesOf, ActiveSlices, Records
      <4> QED
        BY <2>1, <2>3, <3>4, <4>2 DEF Handled
    <3> QED
      BY <3>1, <3>2, <3>3, <3>4
  <2>10. e.auto = m.auto /\ e.saving = m.saving /\ e.reading = m.reading
    BY <1>2, <2>3
  <2>11. Tracked(e, today, w, k)
    BY <1>1, <2>5, <2>7, <2>8, <2>9, <2>10, TrackedLike
  <2> QED
    BY <2>11 DEF e
<1> QED
  BY <1>5, <1>6

LEMMA TrackedReported ==
  ASSUME NEW m, NEW today, Sound(m, today), m.lost = {}, NEW s, NEW n, NEW failed,
         NEW r \in Reported(m, s, n, failed),
         NEW w, NEW k, Tracked(m, today, w, k),
         NEW o, SlotsOK(m, o), \A u \in o : CleanIn(u, w, k)
  PROVE  Tracked(r, today, w, k)
<1> DEFINE f == Freed(m, s, n)
<1>1. m \in Memory
  BY DEF Sound
<1>2. /\ f \in Memory /\ f.slots = m.slots \ {<<s, n>>} /\ f.recent = m.recent
      /\ f.restored = m.restored \ {<<s, n>>}
      /\ f.queue = m.queue /\ f.out = m.out /\ f.lost = m.lost /\ f.loaded = m.loaded
      /\ f.scans = m.scans /\ f.reading = m.reading /\ f.cont = m.cont
      /\ f.auto = m.auto /\ f.saving = m.saving
  BY <1>1, FreedIs
<1>3. PICK x : /\ r \in Drained(x)
               /\ \/ x = f
                  \/ \E t \in f.out : /\ t.slice = s /\ <<s, n>> \in m.slots
                                      /\ x \in Drained(Settled(f, t, failed))
  BY ReportedIs
<1> HIDE DEF f
<1>4. Sound(f, today)
  BY <1>2, SoundSame
<1>5. Tracked(f, today, w, k)
  <2>1. SameScans(m, f)
    BY <1>2 DEF SameScans, Scanned
  <2> QED
    BY <1>2, <2>1, TrackedSame
<1>6. <<s, n>> \in m.slots => s \notin ActiveSlices(f) \/ CleanIn(s, w, k)
  <2> SUFFICES ASSUME <<s, n>> \in m.slots, s \notin o, NEW y \in Records(f), y[1] = s
               PROVE  FALSE
    BY DEF ActiveSlices
  <2>1. y \notin m.restored
    BY DEF SlotsOK
  <2>2. y \in m.slots /\ y # <<s, n>>
    BY <1>2, <2>1 DEF Records
  <2>3. <<s, n>>[1] = s
    OBVIOUS
  <2> QED
    BY <2>2, <2>3 DEF SlotsOK
<1>7. Sound(x, today) /\ Tracked(x, today, w, k)
  <2>1. CASE x = f
    BY <1>4, <1>5, <2>1
  <2>2. ASSUME NEW t \in f.out, t.slice = s, <<s, n>> \in m.slots,
               x \in Drained(Settled(f, t, failed))
        PROVE  Sound(x, today) /\ Tracked(x, today, w, k)
    <3>1. Sound(Settled(f, t, failed), today)
      BY <1>2, <1>4, <2>2, SoundSettled
    <3>2. Tracked(Settled(f, t, failed), today, w, k)
      BY <1>4, <1>5, <1>6, <2>2, TrackedSettled
    <3> QED
      BY <2>2, <3>1, <3>2, SoundDrained, TrackedDrained
  <2> QED
    BY <1>3, <2>1, <2>2
<1> QED
  BY <1>3, <1>7, TrackedDrained

(* A run is asked for: its scan starts from the first row, or the one that *)
(* is under way will be followed by another.                               *)
LEMMA TrackedAsked ==
  ASSUME NEW m, NEW today, Sound(m, today), NEW key \in Key,
         NEW w, NEW k, Tracked(m, today, w, k)
  PROVE  /\ Tracked(Asked(m, key, today), today, w, k)
         /\ key = All => LET r == Asked(m, key, today) IN
              All \in Scanned(r) /\ (r.scans[All].run = today \/ r.scans[All].next = today)
<1> DEFINE r == Asked(m, key, today)
           b == BacklogKey(m, key)
<1>1. m \in Memory /\ ReadingOK(m) /\ today \in Day /\ today \in Nat
  BY Days DEF Sound
<1>2. /\ b \in Key /\ (key = All => b = All)
      /\ r \in Memory
      /\ \A j \in Key : j # b => r.scans[j] = m.scans[j]
      /\ Scanned(r) = Scanned(m) \cup {b}
      /\ m.scans[b] = NoScan => /\ r.scans[b].run = today /\ r.scans[b].next = Never
                                /\ r.scans[b].cursor = 0
      /\ m.scans[b] # NoScan => /\ r.scans[b].run = m.scans[b].run
                                /\ r.scans[b].cursor = m.scans[b].cursor
                                /\ r.scans[b].next = IF m.scans[b].run # today THEN today
                                                     ELSE m.scans[b].next
      /\ r.queue = m.queue /\ r.out = m.out /\ r.recent = m.recent /\ r.reading = m.reading
      /\ r.auto = m.auto /\ r.saving = m.saving
  BY <1>1, AskedIs
<1> HIDE DEF r, b
<1>3. Loaded(r) = Loaded(m)
  BY <1>2 DEF Loaded
<1>4. \A j \in Scanned(m) : j \in Key /\ m.scans[j] # NoScan
                            /\ r.scans[j].run = m.scans[j].run /\ r.scans[j].cursor = m.scans[j].cursor
  BY <1>2 DEF Scanned
<1>5. b \notin Scanned(m) => r.scans[b].run = today /\ r.scans[b].cursor = 0
  BY <1>2 DEF Scanned
<1>6. RecentOK(r, today)
  BY <1>2, <1>3, <1>4, <1>5 DEF Tracked, RecentOK
<1>7. \A s, d : /\ Given(m, s, d, w, k) <=> Given(r, s, d, w, k)
                /\ Handled(m, s, d, w, k) <=> Handled(r, s, d, w, k)
  BY <1>2, <1>3 DEF Given, Handled
<1>8. Covered(r, w, k)
  <2> SUFFICES ASSUME All \in Scanned(r), NEW s \in Slice, Date[s] < r.scans[All].run
               PROVE  Handled(r, s, r.scans[All].run, w, k) \/ Ahead(r, s)
    BY DEF Covered
  <2>1. CASE All \in Scanned(m)
    BY <1>4, <1>7, <2>1 DEF Tracked, Covered, Ahead
  <2>2. CASE All \notin Scanned(m)
    <3>1. r.scans[All].cursor = 0
      BY <1>2, <1>5, <2>2
    <3>2. PICK i \in 1..Len(Rows) : Rows[i] = s
      BY RowFacts
    <3>3. i > 0
      BY <3>2, RowFacts
    <3> QED
      BY <3>1, <3>2, <3>3 DEF Ahead
  <2> QED
    BY <2>1, <2>2
<1>9. AutoOK(r, today, w, k)
  <2> SUFFICES ASSUME m.auto # Never
               PROVE  m.auto <= today /\ (Due(r) \/ \A s \in Slice : Date[s] < m.auto => Handled(m, s, m.auto, w, k))
    BY <1>2, <1>7 DEF AutoOK
  <2>1. m.auto <= today /\ m.auto \in Nat
    BY <1>1, DayFields DEF Tracked, AutoOK
  <2>2. Due(m) => Due(r)
    <3> SUFFICES ASSUME Due(m) PROVE Due(r)
      OBVIOUS
    <3>1. All \in Scanned(m) /\ (m.scans[All].run >= m.auto \/ m.scans[All].next >= m.auto)
      BY DEF Due
    <3>2. CASE b # All
      <4>1. r.scans[All] = m.scans[All]
        BY <1>2, <1>4, <3>1, <3>2
      <4> QED
        BY <1>2, <3>1, <4>1 DEF Due
    <3>3. CASE b = All
      <4>1. /\ r.scans[All].run = m.scans[All].run
            /\ r.scans[All].next = today \/ r.scans[All].next = m.scans[All].next
        BY <1>2, <1>4, <3>1, <3>3
      <4>2. r.scans[All].run >= m.auto \/ r.scans[All].next >= m.auto
        BY <1>1, <2>1, <3>1, <4>1
      <4> QED
        BY <1>2, <3>1, <4>2 DEF Due
    <3> QED
      BY <3>2, <3>3
  <2> QED
    BY <2>1, <2>2 DEF Tracked, AutoOK
<1>10. SavingOK(r, w, k)
  BY <1>2, <1>7 DEF Tracked, SavingOK
<1>11. PageOK(r, w, k)
  <2>1. CASE m.reading = NotReading
    BY <1>2, <2>1 DEF PageOK, NotReading
  <2>2. CASE m.reading # NotReading
    <3>1. m.reading.key \in Scanned(m)
      BY <1>1, <2>2 DEF ReadingOK
    <3>2. PageOf(r) = PageOf(m)
      <4>1. /\ r.reading = m.reading
            /\ r.scans[m.reading.key].run = m.scans[m.reading.key].run
            /\ r.scans[m.reading.key].cursor = m.scans[m.reading.key].cursor
        BY <1>2, <1>4, <3>1
      <4> QED
        BY <4>1 DEF PageOf, PageRows, InRange, Through
    <3> QED
      BY <1>2, <3>2 DEF Tracked, PageOK
  <2> QED
    BY <2>1, <2>2
<1>12. Tracked(r, today, w, k)
  BY <1>6, <1>8, <1>9, <1>10, <1>11 DEF Tracked
<1>13. key = All => All \in Scanned(r) /\ (r.scans[All].run = today \/ r.scans[All].next = today)
  BY <1>1, <1>2
<1> QED
  BY <1>12, <1>13 DEF r

(* So the run of the day will be scanned.                                  *)
LEMMA TrackedAskedFor ==
  ASSUME NEW m, NEW today, Sound(m, today), NEW key \in Key,
         NEW w, NEW k, Tracked(m, today, w, k)
  PROVE  /\ Tracked(AskedFor(m, key, today), today, w, k)
         /\ key = All => LET r == AskedFor(m, key, today) IN
              All \in Scanned(r) /\ (r.scans[All].run >= today \/ r.scans[All].next >= today)
<1> DEFINE x == Asked(m, key, today)
           r == Requested(x)
<1>1. AskedFor(m, key, today) = r
  BY AskedForIs
<1>2. Sound(x, today) /\ Tracked(x, today, w, k) /\ x \in Memory /\ today \in Nat
  <2>1. Sound(x, today) /\ Tracked(x, today, w, k)
    BY SoundAsked, TrackedAsked
  <2> QED
    BY <2>1, Days DEF Sound
<1>3. Tracked(r, today, w, k)
  BY <1>2, TrackedRequested
<1>4. ASSUME key = All
      PROVE  All \in Scanned(r) /\ (r.scans[All].run >= today \/ r.scans[All].next >= today)
  <2>1. All \in Scanned(x) /\ (x.scans[All].run = today \/ x.scans[All].next = today)
    BY <1>4, TrackedAsked
  <2>2. r.scans = x.scans \/ r.scans = RolledOver(x).scans
    BY <1>2, RequestedIs
  <2>3. /\ Scanned(RolledOver(x)) = Scanned(x)
        /\ IF x.scans[All].waiting /\ x.scans[All].next # Never
           THEN RolledOver(x).scans[All].run = x.scans[All].next
           ELSE RolledOver(x).scans[All] = x.scans[All]
    BY <1>2, <2>1, RolledIs
  <2>4. /\ x.scans[All].run \in Nat /\ x.scans[All].next \in Nat
        /\ x.scans[All].next # Never => x.scans[All].run <= x.scans[All].next
    BY <1>2, <2>1, ScanOf DEF Sound, ScansOK
  <2> HIDE DEF r, x
  <2>5. All \in Scanned(r)
    BY <2>1, <2>2, <2>3 DEF Scanned
  <2>6. CASE r.scans = x.scans
    BY <1>2, <2>1, <2>4, <2>5, <2>6
  <2>7. CASE r.scans = RolledOver(x).scans
    <3>1. \/ r.scans[All].run = x.scans[All].next /\ x.scans[All].next # Never
          \/ r.scans[All] = x.scans[All]
      BY <2>3, <2>7
    <3>2. r.scans[All].run >= today \/ r.scans[All].next >= today
      BY <1>2, <2>1, <2>4, <3>1
    <3> QED
      BY <2>5, <3>2
  <2> QED
    BY <2>2, <2>6, <2>7
<1> QED
  BY <1>1, <1>3, <1>4

-----------------------------------------------------------------------------
(* A page leaves out no row of the range up to its last, and is the whole  *)
(* range if it holds fewer rows than asked for.                            *)
LEMMA PageCovers ==
  ASSUME NEW key \in Key, NEW scan \in Scan, NEW limit \in Nat \ {0}
  PROVE  LET page == PageRows(key, scan, limit)
             range == InRange(key, scan) IN
         /\ \A i \in range, j \in page : i <= j => i \in page
         /\ Cardinality(page) < limit => page = range
         /\ page = {} => range = {}
<1> DEFINE page == PageRows(key, scan, limit)
           range == InRange(key, scan)
           upto(i) == {j \in range : j <= i}
<1>1. range \in SUBSET Nat /\ IsFiniteSet(range)
  BY RangeFacts
<1>2. page = {i \in range : Cardinality(upto(i)) <= limit}
  BY DEF PageRows
<1>3. IsFiniteSet(page) /\ Cardinality(page) \in Nat /\ page \in SUBSET range
  BY PageFacts
<1> HIDE DEF page, range
<1>4. \A i : IsFiniteSet(upto(i)) /\ Cardinality(upto(i)) \in Nat
  <2> SUFFICES ASSUME NEW i PROVE IsFiniteSet(upto(i)) /\ Cardinality(upto(i)) \in Nat
    OBVIOUS
  <2>1. upto(i) \subseteq range
    OBVIOUS
  <2> QED
    BY <1>1, <2>1, FS_Subset, FS_CardinalityType
<1>5. ASSUME NEW i \in range, NEW j \in page, i <= j PROVE i \in page
  <2>1. i \in Nat /\ j \in Nat /\ j \in range
    BY <1>1, <1>3
  <2>2. upto(i) \subseteq upto(j)
    <3> SUFFICES ASSUME NEW x \in range, x <= i PROVE x <= j
      OBVIOUS
    <3>1. x \in Nat
      BY <1>1
    <3> QED
      BY <1>5, <2>1, <3>1
  <2>3. Cardinality(upto(i)) <= Cardinality(upto(j))
    BY <1>4, <2>2, FS_Subset
  <2>4. Cardinality(upto(j)) <= limit
    BY <1>2
  <2>5. Cardinality(upto(i)) <= limit
    BY <1>4, <2>3, <2>4
  <2> QED
    BY <1>2, <2>5
<1>6. ASSUME Cardinality(page) < limit, page # range PROVE FALSE
  <2> DEFINE rest == range \ page
  <2>1. rest \in SUBSET Nat /\ rest # {}
    BY <1>1, <1>3, <1>6
  <2>2. PICK i \in rest : \A j \in rest : i <= j
    <3> HIDE DEF rest
    <3> QED
      BY <2>1, Least
  <2>3. upto(i) \subseteq page \cup {i}
    <3> SUFFICES ASSUME NEW j \in upto(i), j \notin page PROVE j = i
      OBVIOUS
    <3>1. j \in rest /\ j <= i /\ i <= j /\ i \in Nat /\ j \in Nat
      BY <2>1, <2>2
    <3> QED
      BY <3>1
  <2>4. /\ IsFiniteSet(page \cup {i}) /\ Cardinality(page \cup {i}) \in Nat
        /\ Cardinality(page \cup {i}) <= Cardinality(page) + 1
    <3>1. /\ IsFiniteSet(page \cup {i})
          /\ Cardinality(page \cup {i}) = IF i \in page THEN Cardinality(page) ELSE Cardinality(page) + 1
      BY <1>3, FS_AddElement
    <3> QED
      BY <1>3, <3>1
  <2>5. Cardinality(upto(i)) <= Cardinality(page \cup {i})
    BY <2>3, <2>4, FS_Subset
  <2>6. Cardinality(upto(i)) <= limit
    BY <1>3, <1>4, <1>6, <2>4, <2>5
  <2> QED
    BY <1>2, <2>2, <2>6
<1>7. page = {} => range = {}
  <2> SUFFICES ASSUME page = {} PROVE range = {}
    OBVIOUS
  <2>1. Cardinality(page) = 0
    BY FS_EmptySet
  <2>2. Cardinality(page) < limit
    BY <2>1
  <2> QED
    BY <1>6, <2>2
<1> QED
  BY <1>5, <1>6, <1>7 DEF page, range

LEMMA HandledLess ==
  ASSUME NEW m \in Memory, NEW s \in Slice, NEW d \in Nat, NEW d2 \in Nat, d2 <= d, NEW w, NEW k,
         Handled(m, s, d, w, k)
  PROVE  Handled(m, s, d2, w, k)
<1>1. m.recent[s] \in Nat /\ \A t \in Loaded(m) : t.run \in Nat
  BY DayFields, LoadedFacts, TaskFacts
<1> QED
  BY <1>1 DEF Handled, Given

(* What a page that arrives leaves behind.                                 *)
LEMMA ArrivedFacts ==
  ASSUME NEW m, NEW today, Sound(m, today), m.reading.stage = "ready"
  PROVE  LET r == Arrived(m)
             key == m.reading.key
             run == m.scans[key].run IN
         /\ key \in Scanned(m) /\ m.reading.limit \in Nat \ {0} /\ r \in Memory
         /\ r.reading = NotReading /\ r.recent = m.recent /\ r.auto = m.auto /\ r.saving = m.saving
         /\ Loaded(r) = Loaded(m) \cup Taken(m, PageTasks(m))
         /\ \A t \in Loaded(r) : t.run = run
         /\ Scanned(r) \subseteq Scanned(m)
         /\ \A j \in Key : j # key => r.scans[j] = m.scans[j]
         /\ key \in Scanned(r) =>
              /\ r.scans[key].run = run /\ r.scans[key].next = m.scans[key].next
              /\ PageOf(m) = {} => r.scans[key].cursor = m.scans[key].cursor
              /\ PageOf(m) # {} => /\ r.scans[key].cursor \in PageOf(m)
                                   /\ \A j \in PageOf(m) : j <= r.scans[key].cursor
         /\ key \notin Scanned(r) => /\ m.scans[key].next = Never
                                     /\ Cardinality(PageOf(m)) < m.reading.limit
<1> DEFINE T == PageTasks(m)
           e == Enqueued(m, T)
           r == Arrived(m)
           key == m.reading.key
           run == m.scans[key].run
           x == [Moved(m) EXCEPT !.waiting = PageEnds(m)]
           page == PageOf(m)
           ends == PageEnds(m)
<1>1. m \in Memory /\ ReadingOK(m) /\ ScansOK(m, today)
  BY DEF Sound
<1>2. /\ m.reading # NotReading /\ key \in Scanned(m) /\ key \in Key
      /\ m.reading.limit \in Nat \ {0}
  <2>1. m.reading # NotReading /\ key \in Scanned(m) /\ key \in Key /\ m.reading.limit \in 1..PageSize
    BY <1>1, Fields, ReadingFacts DEF ReadingOK
  <2> QED
    BY <2>1, Numbers
<1>3. T \in SUBSET Task /\ Distinct(T) /\ \A t \in T : t.run = run
  BY <1>1, <1>2, PageTasksAre
<1>4. /\ e \in Memory /\ Loaded(e) = Loaded(m) \cup Taken(m, T) /\ e.recent = m.recent
      /\ e.auto = m.auto /\ e.saving = m.saving
  BY <1>1, <1>3, EnqueuedIs
<1>5. /\ r \in Memory /\ r.reading = NotReading
      /\ \A j \in Key : j # key => r.scans[j] = m.scans[j]
      /\ IF ends /\ m.scans[key].next = Never THEN r.scans[key] = NoScan ELSE r.scans[key] = x
      /\ r.queue = e.queue /\ r.out = e.out /\ r.recent = e.recent
      /\ r.auto = e.auto /\ r.saving = e.saving
  BY ArrivedIs
<1>6. /\ x \in Scan /\ x.run = run /\ x.next = m.scans[key].next
      /\ page = {} => x.cursor = m.scans[key].cursor
      /\ page # {} => x.cursor \in page /\ \A j \in page : j <= x.cursor
  BY <1>1, <1>2, MovedIs DEF PageOf
<1>7. ends <=> Cardinality(page) < m.reading.limit
  BY DEF PageEnds, PageOf
<1>8. \A u \in Loaded(m) : u.run = run
  <2>1. \A u \in Loaded(m) : u.run <= run /\ run <= u.run /\ u.run \in Nat
    BY <1>1, <1>2, LoadedFacts, TaskFacts DEF ScansOK, ReadingOK
  <2>2. run \in Nat
    BY <1>1, <1>2, ScanOf
  <2> QED
    BY <2>1, <2>2
<1> HIDE DEF T, e, r, x, page, ends, key, run
<1>9. Loaded(r) = Loaded(m) \cup Taken(m, T)
  BY <1>4, <1>5 DEF Loaded
<1>10. \A t \in Loaded(r) : t.run = run
  BY <1>3, <1>8, <1>9 DEF Taken
<1>11. /\ Scanned(r) \subseteq Scanned(m)
       /\ key \in Scanned(r) => r.scans[key] = x
       /\ key \notin Scanned(r) => ends /\ m.scans[key].next = Never
  <2>1. x # NoScan
    BY <1>6, ScanFacts
  <2> QED
    BY <1>2, <1>5, <2>1 DEF Scanned
<1>12. key \in Scanned(r) => /\ r.scans[key].run = run /\ r.scans[key].next = m.scans[key].next
                             /\ page = {} => r.scans[key].cursor = m.scans[key].cursor
                             /\ page # {} => /\ r.scans[key].cursor \in page
                                             /\ \A j \in page : j <= r.scans[key].cursor
  BY <1>6, <1>11
<1>13. r.recent = m.recent /\ r.auto = m.auto /\ r.saving = m.saving
  BY <1>4, <1>5
<1> QED
  BY <1>2, <1>5, <1>7, <1>9, <1>10, <1>11, <1>12, <1>13 DEF T, r, key, run, page

(* The cursor moves over rows that are handled, or not due.                *)
LEMMA TrackedArrived ==
  ASSUME NEW m, NEW today, Sound(m, today), m.reading.stage = "ready",
         NEW w, NEW k, Tracked(m, today, w, k),
         NEW o, SlotsOK(m, o), \A u \in o : CleanIn(u, w, k)
  PROVE  Tracked(Arrived(m), today, w, k)
<1> DEFINE r == Arrived(m)
           key == m.reading.key
           run == m.scans[key].run
           T == PageTasks(m)
           page == PageOf(m)
           range == InRange(key, m.scans[key])
<1>1. m \in Memory /\ ReadingOK(m) /\ ScansOK(m, today)
  BY DEF Sound
<1>2. /\ key \in Scanned(m) /\ m.reading.limit \in Nat \ {0} /\ r \in Memory
      /\ r.reading = NotReading /\ r.recent = m.recent /\ r.auto = m.auto /\ r.saving = m.saving
      /\ Loaded(r) = Loaded(m) \cup Taken(m, T)
      /\ \A t \in Loaded(r) : t.run = run
      /\ Scanned(r) \subseteq Scanned(m)
      /\ \A j \in Key : j # key => r.scans[j] = m.scans[j]
      /\ key \in Scanned(r) =>
           /\ r.scans[key].run = run /\ r.scans[key].next = m.scans[key].next
           /\ page = {} => r.scans[key].cursor = m.scans[key].cursor
           /\ page # {} => r.scans[key].cursor \in page /\ \A j \in page : j <= r.scans[key].cursor
      /\ key \notin Scanned(r) => m.scans[key].next = Never /\ Cardinality(page) < m.reading.limit
  BY ArrivedFacts
<1>3. /\ key \in Key /\ m.scans[key] \in Scan /\ run \in Nat /\ run \in Day
      /\ m.scans[key].cursor \in Nat
  BY <1>1, <1>2, ScanOf
<1>4. /\ page \in SUBSET range /\ range \in SUBSET (1..Len(Rows))
      /\ \A i \in range, j \in page : i <= j => i \in page
      /\ Cardinality(page) < m.reading.limit => page = range
      /\ page = {} => range = {}
  <2>1. m.reading.limit \in Nat
    BY <1>2
  <2>2. page \in SUBSET range
    BY <1>3, <2>1, PageFacts DEF PageOf
  <2>3. range \in SUBSET (1..Len(Rows))
    BY <1>3, RangeFacts
  <2>4. /\ \A i \in range, j \in page : i <= j => i \in page
        /\ Cardinality(page) < m.reading.limit => page = range
        /\ page = {} => range = {}
    BY <1>2, <1>3, PageCovers DEF PageOf
  <2> QED
    BY <2>2, <2>3, <2>4
<1>5. \A x \in m.reading.rows : \E t \in T : t.slice = x[1] /\ t.run = run
  <2>1. m.reading # NotReading
    BY <1>1, Fields, ReadingFacts
  <2> QED
    BY <1>1, <1>2, <2>1, PageTasksAre
<1>6. range = {i \in m.scans[key].cursor + 1..Len(Rows) :
                 /\ Date[Rows[i]] <= Through(key, m.scans[key])
                 /\ key # All => Date[Rows[i]] = key}
  BY DEF InRange
<1>7. \A i \in page : CleanIn(Rows[i], w, k) \/ \E x \in m.reading.rows : x[1] = Rows[i]
  BY DEF Tracked, PageOK
<1> HIDE DEF r, T, page, range, key, run
<1>8. /\ \A s, d : Given(m, s, d, w, k) <=> Given(r, s, d, w, k)
      /\ \A s, d : Handled(m, s, d, w, k) => Handled(r, s, d, w, k)
  BY <1>2 DEF Given, Handled
<1>9. ASSUME NEW i \in page PROVE Handled(r, Rows[i], run, w, k)
  <2>1. CASE CleanIn(Rows[i], w, k)
    BY <2>1 DEF Handled, Given
  <2>2. CASE \E x \in m.reading.rows : x[1] = Rows[i]
    <3>1. PICK t \in T : t.slice = Rows[i] /\ t.run = run
      BY <1>5, <2>2
    <3>2. CASE t \in Taken(m, T)
      BY <1>2, <1>3, <3>1, <3>2 DEF Handled
    <3>3. CASE t.slice \in SlicesOf(Loaded(m))
      <4>1. PICK u \in Loaded(m) : u.slice = t.slice
        BY <3>3 DEF SlicesOf
      <4>2. u \in Loaded(r) /\ u.run >= run
        BY <1>2, <1>3
      <4> QED
        BY <3>1, <4>1, <4>2 DEF Handled
    <3>4. CASE t.slice \in ActiveSlices(m)
      <4> SUFFICES ASSUME t.slice \notin o PROVE Handled(r, Rows[i], run, w, k)
        BY <3>1 DEF Handled, Given
      <4>1. PICK x \in m.slots : x[1] = t.slice
        BY <3>4 DEF ActiveSlices, Records, SlotsOK
      <4>2. PICK u \in m.out : u.slice = t.slice
        BY <4>1 DEF SlotsOK
      <4>3. u \in Loaded(r) /\ u.run >= run
        BY <1>2, <1>3 DEF Loaded
      <4> QED
        BY <3>1, <4>2, <4>3 DEF Handled
    <3>5. CASE m.recent[t.slice] = t.run
      <4>1. r.recent[Rows[i]] >= run
        BY <1>2, <1>3, <3>1, <3>5
      <4> QED
        BY <4>1 DEF Handled, Given
    <3> QED
      BY <3>2, <3>3, <3>4, <3>5 DEF Taken
  <2> QED
    BY <1>7, <2>1, <2>2
<1>10. RecentOK(r, today)
  <2>1. \A j \in Scanned(r) : j \in Scanned(m) /\ r.scans[j].run = m.scans[j].run
    BY <1>2 DEF Scanned, run
  <2>2. \A s \in Slice : m.recent[s] <= today /\ \A j \in Scanned(m) : m.recent[s] <= m.scans[j].run
    BY DEF Tracked, RecentOK
  <2>3. \A s \in Slice : m.recent[s] <= run
    BY <1>2, <2>2 DEF run
  <2> QED
    BY <1>2, <2>1, <2>2, <2>3 DEF RecentOK
<1>11. ASSUME key = All, NEW s \in Slice, Date[s] < run
       PROVE  \/ Handled(r, s, run, w, k)
              \/ \E i \in range : i \notin page /\ Rows[i] = s
  <2>1. Handled(m, s, run, w, k) \/ Ahead(m, s)
    BY <1>2, <1>11 DEF Tracked, Covered, key, run
  <2>2. CASE Handled(m, s, run, w, k)
    BY <1>8, <2>2
  <2>3. CASE Ahead(m, s)
    <3>1. PICK i \in 1..Len(Rows) : i > m.scans[key].cursor /\ Rows[i] = s
      BY <1>11, <2>3 DEF Ahead
    <3>2. i \in m.scans[key].cursor + 1..Len(Rows)
      BY <1>3, <3>1, RowFacts
    <3>3. Date[s] <= Through(key, m.scans[key])
      <4>1. Date[s] \in Nat
        BY RowFacts, Days
      <4>2. Through(key, m.scans[key]) = run - 1
        BY <1>11 DEF Through, run
      <4> QED
        BY <1>3, <1>11, <4>1, <4>2
    <3>4. i \in range
      BY <1>6, <1>11, <3>1, <3>2, <3>3
    <3>5. CASE i \in page
      BY <1>9, <3>1, <3>5
    <3>6. CASE i \notin page
      BY <3>1, <3>4, <3>6
    <3> QED
      BY <3>5, <3>6
  <2> QED
    BY <2>1, <2>2, <2>3
<1>12. Covered(r, w, k)
  <2> SUFFICES ASSUME All \in Scanned(r), NEW s \in Slice, Date[s] < r.scans[All].run
               PROVE  Handled(r, s, r.scans[All].run, w, k) \/ Ahead(r, s)
    BY DEF Covered
  <2>1. CASE key # All
    <3>1. r.scans[All] = m.scans[All] /\ All \in Scanned(m)
      BY <1>2, <2>1 DEF Scanned
    <3>2. Handled(m, s, m.scans[All].run, w, k) \/ Ahead(m, s)
      BY <3>1 DEF Tracked, Covered
    <3> QED
      BY <1>8, <3>1, <3>2 DEF Ahead
  <2>2. CASE key = All
    <3>1. /\ r.scans[All].run = run
          /\ page = {} => r.scans[All].cursor = m.scans[All].cursor
          /\ page # {} => r.scans[All].cursor \in page
      BY <1>2, <2>2
    <3>2. CASE Handled(r, s, run, w, k)
      BY <3>1, <3>2
    <3>3. CASE \E i \in range : i \notin page /\ Rows[i] = s
      <4>1. PICK i \in range : i \notin page /\ Rows[i] = s
        BY <3>3
      <4>2. page # {}
        BY <1>4, <4>1
      <4>3. r.scans[All].cursor \in page /\ ~(i <= r.scans[All].cursor)
        BY <1>4, <3>1, <4>1, <4>2
      <4>4. i \in 1..Len(Rows) /\ r.scans[All].cursor \in 1..Len(Rows)
        BY <1>4, <4>1, <4>3
      <4>5. i > r.scans[All].cursor
        BY <4>3, <4>4, RowFacts
      <4> QED
        BY <4>1, <4>4, <4>5 DEF Ahead
    <3> QED
      BY <1>11, <2>2, <3>1, <3>2, <3>3
  <2> QED
    BY <2>1, <2>2
<1>13. AutoOK(r, today, w, k)
  <2> SUFFICES ASSUME m.auto # Never
               PROVE  /\ m.auto <= today
                      /\ Due(r) \/ \A s \in Slice : Date[s] < m.auto => Handled(r, s, m.auto, w, k)
    BY <1>2 DEF AutoOK
  <2>1. /\ m.auto <= today /\ m.auto \in Nat /\ m.auto > 0
        /\ Due(m) \/ \A s \in Slice : Date[s] < m.auto => Handled(m, s, m.auto, w, k)
    BY <1>1, DayFields, Days DEF Tracked, AutoOK
  <2>2. CASE ~Due(m)
    BY <1>8, <2>1, <2>2
  <2>3. CASE Due(m) /\ (key # All \/ key \in Scanned(r))
    <3>1. /\ All \in Scanned(m) /\ All \in Scanned(r)
          /\ r.scans[All].run = m.scans[All].run /\ r.scans[All].next = m.scans[All].next
      <4>1. CASE key # All
        BY <1>2, <2>3, <4>1 DEF Due, Scanned
      <4>2. CASE key = All
        BY <1>2, <2>3, <4>2 DEF Due, run
      <4> QED
        BY <4>1, <4>2
    <3> QED
      BY <1>2, <2>1, <2>3, <3>1 DEF Due
  <2>4. CASE Due(m) /\ key = All /\ key \notin Scanned(r)
    <3>1. page = range /\ m.scans[All].next = 0
      BY <1>2, <1>4, <2>4, Days
    <3>2. run >= m.auto
      BY <2>1, <2>4, <3>1 DEF Due, run
    <3>3. ASSUME NEW s \in Slice, Date[s] < m.auto PROVE Handled(r, s, m.auto, w, k)
      <4>1. Date[s] < run
        <5>1. Date[s] \in Nat
          BY RowFacts, Days
        <5> QED
          BY <1>3, <2>1, <3>2, <3>3, <5>1
      <4>2. Handled(r, s, run, w, k)
        BY <1>11, <2>4, <3>1, <4>1
      <4> QED
        BY <1>2, <1>3, <2>1, <3>2, <4>2, HandledLess
    <3> QED
      BY <2>1, <3>3
  <2> QED
    BY <2>2, <2>3, <2>4
<1>14. SavingOK(r, w, k) /\ PageOK(r, w, k)
  BY <1>2, <1>8 DEF Tracked, SavingOK, PageOK, NotReading
<1>15. Tracked(r, today, w, k)
  BY <1>10, <1>12, <1>13, <1>14 DEF Tracked
<1> QED
  BY <1>15 DEF r

-----------------------------------------------------------------------------
(* The steps again.  A slice whose execution or end the service lost track *)
(* of passes for clean: nobody answers for it.                             *)
TrackInv == Tracked(mem, day, written \cup orphans, marked \ orphans)

LEMMA TrackTimerStep ==
  ASSUME SchedInv, NEW w, NEW k, Tracked(mem, day, w, k),
         \/ \E j \in Key : CleanNow(j)
         \/ TickBegin
         \/ \E due \in BOOLEAN : TickEnd(due)
         \/ DrainTurn
         \/ \E ok \in BOOLEAN : SaveDay(ok)
  PROVE  Tracked(mem', day, w, k)
<1>1. Sound(mem, day) /\ mem \in Memory /\ day \in Day /\ day \in Nat /\ All \in Key
  BY Days DEF SchedInv, Sound, Key
<1>2. ASSUME NEW j \in Key, CleanNow(j) PROVE Tracked(mem', day, w, k)
  BY <1>1, <1>2, SoundAskedFor, TrackedAskedFor, TrackedDrained DEF CleanNow
<1>3. CASE TickBegin
  <2> DEFINE r == Resumed(mem)
  <2>1. mem' = Requested(r)
    BY <1>3 DEF TickBegin, Resumed
  <2>2. /\ r \in Memory /\ Scanned(r) = Scanned(mem)
        /\ \A j \in Scanned(mem) : /\ r.scans[j].run = mem.scans[j].run
                                   /\ r.scans[j].next = mem.scans[j].next
                                   /\ r.scans[j].cursor = mem.scans[j].cursor
        /\ r.queue = mem.queue /\ r.out = mem.out /\ r.lost = mem.lost /\ r.loaded = mem.loaded
        /\ r.recent = mem.recent /\ r.reading = mem.reading /\ r.cont = mem.cont
        /\ r.auto = mem.auto /\ r.saving = mem.saving
    BY <1>1, ResumedIs
  <2> HIDE DEF r
  <2>3. SameScans(mem, r)
    BY <2>2 DEF SameScans
  <2>4. Sound(r, day) /\ Tracked(r, day, w, k)
    BY <1>1, <2>2, <2>3, SoundScans, TrackedSame
  <2> QED
    BY <2>1, <2>4, TrackedRequested
<1>4. ASSUME NEW due \in BOOLEAN, TickEnd(due) PROVE Tracked(mem', day, w, k)
  <2> DEFINE m == [mem EXCEPT !.ticking = FALSE]
             a == AskedFor(m, All, day)
             b == [a EXCEPT !.auto = day]
  <2>1. /\ m \in Memory /\ m.queue = mem.queue /\ m.out = mem.out /\ m.lost = mem.lost
        /\ m.loaded = mem.loaded /\ m.scans = mem.scans /\ m.reading = mem.reading /\ m.cont = mem.cont
        /\ m.recent = mem.recent /\ m.auto = mem.auto /\ m.saving = mem.saving
    BY <1>1 DEF Memory
  <2>2. mem' \in Drained(m) \/ mem' = m \/ mem' \in Drained(b)
    BY <1>4 DEF TickEnd
  <2> HIDE DEF m
  <2>3. SameScans(mem, m)
    BY <2>1 DEF SameScans, Scanned
  <2>4. Sound(m, day) /\ Tracked(m, day, w, k)
    BY <1>1, <2>1, <2>3, SoundSame, TrackedSame
  <2>5. /\ Sound(a, day) /\ Tracked(a, day, w, k) /\ a \in Memory
        /\ All \in Scanned(a) /\ (a.scans[All].run >= day \/ a.scans[All].next >= day)
    BY <1>1, <2>4, SoundAskedFor, TrackedAskedFor DEF Sound
  <2> HIDE DEF a
  <2>6. /\ b \in Memory /\ b.queue = a.queue /\ b.out = a.out /\ b.lost = a.lost
        /\ b.loaded = a.loaded /\ b.scans = a.scans /\ b.reading = a.reading /\ b.cont = a.cont
        /\ b.recent = a.recent /\ b.auto = day /\ b.saving = a.saving
    BY <1>1, <2>5 DEF Memory
  <2> HIDE DEF b
  <2>7. Sound(b, day)
    BY <2>5, <2>6, SoundSame
  <2>8. Loaded(b) = Loaded(a) /\ Scanned(b) = Scanned(a) /\ PageOf(b) = PageOf(a)
    BY <2>6 DEF Loaded, Scanned, PageOf
  <2>9. /\ \A s, d : Given(b, s, d, w, k) <=> Given(a, s, d, w, k)
        /\ \A s, d : Handled(b, s, d, w, k) <=> Handled(a, s, d, w, k)
        /\ \A s : Ahead(b, s) <=> Ahead(a, s)
    BY <2>6, <2>8 DEF Given, Handled, Ahead
  <2>10. AutoOK(b, day, w, k)
    BY <1>1, <2>5, <2>6, <2>8 DEF AutoOK, Due
  <2>11. /\ RecentOK(b, day) /\ Covered(b, w, k)
         /\ SavingOK(b, w, k) /\ PageOK(b, w, k)
    <3>1. RecentOK(b, day)
      BY <2>5, <2>6, <2>8 DEF Tracked, RecentOK
    <3>2. Covered(b, w, k)
      BY <2>5, <2>6, <2>8, <2>9 DEF Tracked, Covered
    <3>3. SavingOK(b, w, k)
      BY <2>5, <2>6, <2>9 DEF Tracked, SavingOK
    <3>4. PageOK(b, w, k)
      BY <2>5, <2>6, <2>8 DEF Tracked, PageOK
    <3> QED
      BY <3>1, <3>2, <3>3, <3>4
  <2>12. Tracked(b, day, w, k)
    BY <2>10, <2>11 DEF Tracked
  <2> QED
    BY <2>2, <2>4, <2>7, <2>12, TrackedDrained
<1>5. CASE DrainTurn
  <2> DEFINE m == [mem EXCEPT !.turn = FALSE]
  <2>1. /\ m \in Memory /\ m.queue = mem.queue /\ m.out = mem.out /\ m.lost = mem.lost
        /\ m.loaded = mem.loaded /\ m.scans = mem.scans /\ m.reading = mem.reading /\ m.cont = mem.cont
        /\ m.recent = mem.recent /\ m.auto = mem.auto /\ m.saving = mem.saving
    BY <1>1 DEF Memory
  <2>2. mem' \in Drained(m)
    BY <1>5 DEF DrainTurn
  <2> HIDE DEF m
  <2>3. SameScans(mem, m)
    BY <2>1 DEF SameScans, Scanned
  <2>4. Sound(m, day) /\ Tracked(m, day, w, k)
    BY <1>1, <2>1, <2>3, SoundSame, TrackedSame
  <2> QED
    BY <2>2, <2>4, TrackedDrained
<1>6. ASSUME NEW ok \in BOOLEAN, SaveDay(ok) PROVE Tracked(mem', day, w, k)
  <2>1. /\ mem'.queue = mem.queue /\ mem'.out = mem.out /\ mem'.recent = mem.recent
        /\ mem'.scans = mem.scans /\ mem'.reading = mem.reading
        /\ mem'.saving = Never /\ mem'.auto \in {Never, mem.auto}
    BY <1>1, <1>6 DEF SaveDay, Memory
  <2>2. Loaded(mem') = Loaded(mem) /\ Scanned(mem') = Scanned(mem) /\ PageOf(mem') = PageOf(mem)
    BY <2>1 DEF Loaded, Scanned, PageOf
  <2>3. /\ \A s, d : Handled(mem', s, d, w, k) <=> Handled(mem, s, d, w, k)
        /\ \A s : Ahead(mem', s) <=> Ahead(mem, s)
    BY <2>1, <2>2 DEF Given, Handled, Ahead
  <2>4. RecentOK(mem', day) /\ PageOK(mem', w, k)
    BY <2>1, <2>2 DEF Tracked, RecentOK, PageOK
  <2>5. Covered(mem', w, k)
    BY <2>1, <2>2, <2>3 DEF Tracked, Covered
  <2>6. AutoOK(mem', day, w, k)
    BY <2>1, <2>2, <2>3 DEF Tracked, AutoOK, Due
  <2>7. SavingOK(mem', w, k)
    BY <2>1 DEF SavingOK
  <2> QED
    BY <2>4, <2>5, <2>6, <2>7 DEF Tracked
<1> QED
  BY <1>2, <1>3, <1>4, <1>5, <1>6

LEMMA TrackPageStep ==
  ASSUME SchedInv, NEW w, NEW k, Tracked(mem, day, w, k), written \subseteq w, k \subseteq marked,
         NEW o, SlotsOK(mem, o), \A u \in o : CleanIn(u, w, k),
         LoadPage \/ QueryCompleted \/ QueryMarks \/ PageArrives \/ PageFails
  PROVE  Tracked(mem', day, w, k)
<1>1. Sound(mem, day) /\ mem \in Memory /\ ReadingOK(mem) /\ mem.reading \in Reading
  BY Fields DEF SchedInv, Sound
<1>2. CASE PageArrives
  <2>1. Sound(Arrived(mem), day) /\ Tracked(Arrived(mem), day, w, k)
    BY <1>1, <1>2, PageArrivesIs, SoundArrived, TrackedArrived DEF SchedInv
  <2> QED
    BY <1>2, <2>1, PageArrivesIs, TrackedDrained
<1>3. CASE PageFails
  <2> DEFINE r == Failed(mem)
  <2>1. mem.reading # NotReading /\ mem.reading.key \in Scanned(mem)
    BY <1>1, <1>3 DEF PageFails, ReadingOK
  <2>2. /\ r \in Memory /\ r.reading = NotReading /\ Scanned(r) = Scanned(mem)
        /\ \A j \in Scanned(mem) : /\ r.scans[j].run = mem.scans[j].run
                                   /\ r.scans[j].next = mem.scans[j].next
                                   /\ r.scans[j].cursor = mem.scans[j].cursor
        /\ r.queue = mem.queue /\ r.out = mem.out /\ r.lost = mem.lost /\ r.loaded = mem.loaded
        /\ r.recent = mem.recent /\ r.auto = mem.auto /\ r.saving = mem.saving
    BY <1>1, <2>1, FailedIs
  <2>3. mem' \in Drained(r)
    BY <1>3 DEF PageFails, Failed
  <2> HIDE DEF r
  <2>4. SameScans(mem, r)
    BY <2>2 DEF SameScans
  <2>5. Sound(r, day) /\ Tracked(r, day, w, k)
    BY <1>1, <2>2, <2>4, SoundScans, TrackedSame
  <2> QED
    BY <2>3, <2>5, TrackedDrained
<1>4. CASE LoadPage \/ QueryCompleted \/ QueryMarks
  <2>1. /\ mem'.queue = mem.queue /\ mem'.out = mem.out /\ mem'.recent = mem.recent
        /\ mem'.scans = mem.scans /\ mem'.auto = mem.auto /\ mem'.saving = mem.saving
    <3>1. CASE LoadPage
      <4> DEFINE m == [mem EXCEPT !.cont = FALSE]
      <4>1. /\ m \in Memory /\ m.queue = mem.queue /\ m.out = mem.out /\ m.recent = mem.recent
            /\ m.scans = mem.scans /\ m.auto = mem.auto /\ m.saving = mem.saving
        BY <1>1 DEF Memory
      <4>2. mem' = m \/ \E x : mem' = [m EXCEPT !.reading = x]
        BY <3>1 DEF LoadPage
      <4> HIDE DEF m
      <4> QED
        BY <4>1, <4>2 DEF Memory
    <3>2. CASE QueryCompleted \/ QueryMarks
      BY <1>1, <3>2 DEF QueryCompleted, QueryMarks, Memory
    <3> QED
      BY <1>4, <3>1, <3>2
  <2>2. Loaded(mem') = Loaded(mem) /\ Scanned(mem') = Scanned(mem)
    BY <2>1 DEF Loaded, Scanned
  <2>3. /\ \A s, d : Given(mem', s, d, w, k) <=> Given(mem, s, d, w, k)
        /\ \A s, d : Handled(mem', s, d, w, k) <=> Handled(mem, s, d, w, k)
        /\ \A s : Ahead(mem', s) <=> Ahead(mem, s)
    BY <2>1, <2>2 DEF Given, Handled, Ahead
  <2>4. RecentOK(mem', day)
    BY <2>1, <2>2 DEF Tracked, RecentOK
  <2>5. Covered(mem', w, k)
    BY <2>1, <2>2, <2>3 DEF Tracked, Covered
  <2>6. AutoOK(mem', day, w, k)
    BY <2>1, <2>2, <2>3 DEF Tracked, AutoOK, Due
  <2>7. SavingOK(mem', w, k)
    BY <2>1, <2>3 DEF Tracked, SavingOK
  <2>8. PageOK(mem', w, k)
    <3>1. CASE LoadPage
      <4> DEFINE m == [mem EXCEPT !.cont = FALSE]
                 page(j, l) == [stage |-> "query", key |-> j, limit |-> l]
      <4>1. m \in Memory /\ m.reading = mem.reading
        BY <1>1 DEF Memory
      <4>2. mem' = m \/ \E j, l : mem' = [m EXCEPT !.reading = page(j, l)]
        BY <3>1 DEF LoadPage
      <4>3. \A j, l : page(j, l).stage = "query"
        OBVIOUS
      <4>4. mem.reading = NotReading
        BY <1>1, <3>1 DEF LoadPage, ReadingOK
      <4> HIDE DEF m, page
      <4>5. mem'.reading.stage \in {"none", "query"}
        BY <4>1, <4>2, <4>3, <4>4 DEF Memory, NotReading
      <4> QED
        BY <4>5 DEF PageOK
    <3>2. CASE QueryCompleted
      <4>1. mem'.reading.stage = "marks" /\ mem'.reading.completed = written
        BY <1>1, <3>2 DEF QueryCompleted, Memory
      <4> QED
        BY <4>1 DEF PageOK
    <3>3. CASE QueryMarks
      <4>1. /\ mem.reading.stage = "marks" /\ mem'.reading.stage = "ready"
            /\ mem'.reading.key = mem.reading.key /\ mem'.reading.limit = mem.reading.limit
            /\ mem'.reading.rows = Unclean(mem, marked)
        BY <1>1, <3>3 DEF QueryMarks, Memory, Unclean, Found
      <4>2. PageOf(mem') = PageOf(mem)
        BY <2>1, <4>1 DEF PageOf
      <4>3. mem.reading # NotReading /\ mem.reading.key \in Scanned(mem)
        BY <1>1, <4>1, ReadingFacts DEF ReadingOK
      <4>4. \A s \in Found(mem) : s \notin mem.reading.completed \/ s \in marked
                                  => <<s, s \in marked>> \in Unclean(mem, marked)
        BY <1>1, <4>3, UncleanCount
      <4>5. mem.reading.completed \subseteq w
        BY <4>1 DEF Tracked, PageOK
      <4>6. ASSUME NEW i \in PageOf(mem)
            PROVE  CleanIn(Rows[i], w, k) \/ \E x \in Unclean(mem, marked) : x[1] = Rows[i]
        <5>1. Rows[i] \in Found(mem)
          BY <4>6 DEF Found, PageOf
        <5>2. CASE Rows[i] \in mem.reading.completed /\ Rows[i] \notin marked
          BY <4>5, <5>2 DEF CleanIn
        <5>3. CASE Rows[i] \notin mem.reading.completed \/ Rows[i] \in marked
          <6>1. <<Rows[i], Rows[i] \in marked>> \in Unclean(mem, marked)
            BY <4>4, <5>1, <5>3
          <6>2. <<Rows[i], Rows[i] \in marked>>[1] = Rows[i]
            OBVIOUS
          <6> QED
            BY <6>1, <6>2
        <5> QED
          BY <5>2, <5>3
      <4> QED
        BY <4>1, <4>2, <4>6 DEF PageOK
    <3> QED
      BY <1>4, <3>1, <3>2, <3>3
  <2> QED
    BY <2>4, <2>5, <2>6, <2>7, <2>8 DEF Tracked
<1> QED
  BY <1>2, <1>3, <1>4

LEMMA TrackNodeStep ==
  ASSUME SchedInv, NodesTyped, NEW w, NEW k, Tracked(mem, day, w, k),
         NEW o, SlotsOK(mem, o), \A u \in o : CleanIn(u, w, k),
         \/ \E n \in Node : NodeGone(n) \/ SettleIfBusy(n) \/ NodeJoins(n)
         \/ \E t \in mem.lost : NotifyLost(t)
         \/ \E s \in Slice, n \in RustNode : ResultReplayed(s, n)
  PROVE  Tracked(mem', day, w, k)
<1>1. Sound(mem, day) /\ mem \in Memory
  BY DEF SchedInv, Sound
<1>2. ASSUME NEW n \in Node, NodeGone(n) \/ SettleIfBusy(n) PROVE Tracked(mem', day, w, k)
  <2>1. /\ mem'.queue = mem.queue /\ mem'.out = mem.out /\ mem'.recent = mem.recent
        /\ mem'.scans = mem.scans /\ mem'.reading = mem.reading
        /\ mem'.auto = mem.auto /\ mem'.saving = mem.saving
    BY <1>1, <1>2 DEF NodeGone, SettleIfBusy, Memory
  <2>2. SameScans(mem, mem')
    BY <2>1 DEF SameScans, Scanned
  <2> QED
    BY <1>1, <2>1, <2>2, TrackedSame
<1>3. ASSUME NEW t \in mem.lost, NotifyLost(t) PROVE Tracked(mem', day, w, k)
  <2> DEFINE r == [mem EXCEPT !.lost = @ \ {t}]
  <2>1. /\ r \in Memory /\ r.queue = mem.queue /\ r.out = mem.out /\ r.lost = mem.lost \ {t}
        /\ r.loaded = mem.loaded /\ r.scans = mem.scans /\ r.reading = mem.reading /\ r.cont = mem.cont
        /\ r.slots = mem.slots
        /\ r.restored = mem.restored /\ r.recent = mem.recent /\ r.auto = mem.auto /\ r.saving = mem.saving
    BY <1>1 DEF Memory
  <2>2. mem' \in Drained(Settled(r, t, TRUE))
    BY <1>3 DEF NotifyLost
  <2> HIDE DEF r
  <2>3. mem.lost \subseteq mem.out /\ mem.out \subseteq Loaded(mem) /\ Distinct(Loaded(mem))
    BY <1>1 DEF Sound, TasksOK, Loaded
  <2>4. Sound(r, day) /\ t \in r.out /\ t \notin r.lost
    BY <1>1, <2>1, <2>3, SoundLost
  <2>5. SameScans(mem, r)
    BY <2>1 DEF SameScans, Scanned
  <2>6. Tracked(r, day, w, k)
    BY <1>1, <2>1, <2>5, TrackedSame
  <2>7. t.slice \notin ActiveSlices(r) \/ CleanIn(t.slice, w, k)
    <3> SUFFICES ASSUME NEW x \in Records(mem), x[1] = t.slice, x[1] \notin o PROVE FALSE
      BY <2>1 DEF ActiveSlices, Records
    <3>1. PICK u \in mem.out \ mem.lost : u.slice = x[1]
      BY DEF SlotsOK, Records
    <3> QED
      BY <2>3, <3>1 DEF Distinct
  <2>8. /\ Sound(Settled(r, t, TRUE), day)
        /\ Tracked(Settled(r, t, TRUE), day, w, k)
    BY <2>4, <2>6, <2>7, SoundSettled, TrackedSettled
  <2> QED
    BY <2>2, <2>8, TrackedDrained
<1>4. ASSUME NEW n \in Node, NodeJoins(n) PROVE Tracked(mem', day, w, k)
  <2> DEFINE r == Joined(n)
  <2>1. mem' \in Drained(r) \/ mem' = r
    BY <1>4, NodeJoinsIs
  <2>2. /\ r \in Memory /\ r.lost \subseteq mem.out
        /\ r.queue = mem.queue /\ r.out = mem.out /\ r.loaded = mem.loaded
        /\ r.recent = mem.recent /\ r.scans = mem.scans /\ r.reading = mem.reading
        /\ r.cont = mem.cont /\ r.auto = mem.auto /\ r.saving = mem.saving
    BY <1>1, JoinedIs
  <2> HIDE DEF r
  <2>3. SameScans(mem, r)
    BY <2>2 DEF SameScans, Scanned
  <2>4. Sound(r, day) /\ Tracked(r, day, w, k)
    BY <1>1, <2>2, <2>3, SoundLost, TrackedSame
  <2> QED
    BY <2>1, <2>4, TrackedDrained
<1>5. ASSUME NEW s \in Slice, NEW n \in RustNode, ResultReplayed(s, n)
      PROVE  Tracked(mem', day, w, k)
  <2>1. mem.lost = {} /\ mem' \in Reported(mem, s, n, FALSE)
    BY <1>5 DEF ResultReplayed, Quiet
  <2> QED
    BY <1>1, <2>1, TrackedReported
<1> QED
  BY <1>2, <1>3, <1>4, <1>5

(* What is clean stays clean: no node has a slice that is.                 *)
LEMMA CleanStays ==
  ASSUME SchedInv, GoodInv, NEW s \in Slice, NEW n \in Node,
         \/ TaskSucceeds(s, n) \/ TaskFails(s, n) \/ RustMarks(s, n) \/ RustWrites(s, n)
  PROVE  /\ written \subseteq written' /\ orphans \subseteq orphans'
         /\ \A u : CleanIn(u, written \cup orphans, marked \ orphans)
                     => CleanIn(u, written' \cup orphans', marked' \ orphans')
<1>0. /\ written \subseteq written' /\ orphans \subseteq orphans'
      /\ \A u : u # s => (u \in marked' <=> u \in marked)
  BY DEF TaskSucceeds, TaskFails, RustMarks, RustWrites, Ends, EndHeard, EndAway, EndMissed,
    histVars, dataVars
<1>1. CASE s \in orphans
  BY <1>0, <1>1 DEF CleanIn
<1>2. CASE s \notin orphans
  <2>1. <<s, n>> \in Executing /\ s \notin adrift
    BY <1>2 DEF SchedInv, TypeOK, TaskSucceeds, TaskFails, RustMarks, RustWrites
  <2>2. <<s, n>>[1] = s
    OBVIOUS
  <2>3. <<s, n>> \in mem.slots /\ SlotsOK(mem, adrift)
    BY <2>1, <2>2 DEF GoodInv, GoodNow, Good, SlotsOK, Executing, Records
  <2>4. PICK t \in mem.out : t.slice = s
    BY <2>1, <2>2, <2>3 DEF SlotsOK
  <2>5. ~CleanIn(s, written \ adrift, marked \ adrift)
    BY <2>4 DEF GoodInv, GoodNow, Good, Uncleaned, Loaded
  <2>6. ~CleanIn(s, written, marked)
    BY <2>1, <2>5 DEF CleanIn
  <2> QED
    BY <1>0, <1>2, <2>6 DEF CleanIn
<1> QED
  BY <1>0, <1>1, <1>2

(* What the service starts with.                                           *)
LEMMA TrackedBooted ==
  ASSUME NEW today \in Nat, NEW w, NEW k
  PROVE  Tracked(Booted, today, w, k)
<1>1. /\ Loaded(Booted) = {} /\ Scanned(Booted) = {} /\ Booted.auto = Never
      /\ Booted.saving = Never /\ Booted.reading = NotReading
      /\ \A s \in Slice : Booted.recent[s] = 0
  BY Days DEF Loaded, Scanned, Booted
<1> QED
  BY <1>1 DEF Tracked, RecentOK, Covered, AutoOK, SavingOK, PageOK, NotReading

LEMMA TrackStep ==
  ASSUME SchedInv, GoodInv, TrackInv, Next
  PROVE  TrackInv'
<1> DEFINE w == written \cup orphans
           k == marked \ orphans
           w2 == written' \cup orphans'
           k2 == marked' \ orphans'
<1>1. /\ Sound(mem, day) /\ mem \in Memory /\ day \in Nat /\ SlotsOK(mem, adrift) /\ NodesTyped
      /\ Tracked(mem, day, w, k) /\ written \subseteq w /\ k \subseteq marked
      /\ \A u \in adrift : CleanIn(u, w, k)
  BY Days DEF SchedInv, TypeOK, NodesTyped, Sound, GoodInv, GoodNow, Good, TrackInv, CleanIn
<1>2. ASSUME UNCHANGED <<day, written, marked, orphans>>, Tracked(mem', day, w, k)
      PROVE  TrackInv'
  BY <1>2 DEF TrackInv
<1>3. CASE \/ \E j \in Key : CleanNow(j)
           \/ TickBegin
           \/ \E due \in BOOLEAN : TickEnd(due)
           \/ DrainTurn
           \/ \E ok \in BOOLEAN : SaveDay(ok)
  <2>1. UNCHANGED <<day, written, marked, orphans>>
    BY <1>3 DEF CleanNow, TickBegin, TickEnd, DrainTurn, SaveDay, worldVars, histVars, dataVars
  <2> HIDE DEF w, k
  <2>2. Tracked(mem', day, w, k)
    BY <1>1, <1>3, TrackTimerStep
  <2> QED
    BY <1>2, <2>1, <2>2
<1>4. CASE LoadPage \/ QueryCompleted \/ QueryMarks \/ PageArrives \/ PageFails
  <2>1. UNCHANGED <<day, written, marked, orphans>>
    BY <1>4 DEF LoadPage, QueryCompleted, QueryMarks, PageArrives, PageFails, worldVars,
      histVars, dataVars
  <2> HIDE DEF w, k
  <2>2. Tracked(mem', day, w, k)
    BY <1>1, <1>4, TrackPageStep
  <2> QED
    BY <1>2, <2>1, <2>2
<1>5. ASSUME day' = day, w \subseteq w2, \A u : CleanIn(u, w, k) => CleanIn(u, w2, k2),
             Tracked(mem, day, w2, k2) => Tracked(mem', day, w2, k2)
      PROVE  TrackInv'
  <2>1. TrackInv' <=> Tracked(mem', day, w2, k2)
    BY <1>5 DEF TrackInv
  <2> HIDE DEF w, k, w2, k2
  <2>2. Tracked(mem, day, w2, k2)
    BY <1>1, <1>5, TrackedWorld
  <2> QED
    BY <1>5, <2>1, <2>2
<1>6. CASE \/ \E n \in Node : NodeGone(n) \/ SettleIfBusy(n) \/ NodeJoins(n)
           \/ \E t \in mem.lost : NotifyLost(t)
           \/ \E s \in Slice, n \in RustNode : ResultReplayed(s, n)
  <2>1. UNCHANGED <<day, written, marked>> /\ orphans \subseteq orphans'
    BY <1>6, NodeJoinsIs DEF NodeGone, SettleIfBusy, NotifyLost, ResultReplayed, worldVars,
      histVars, dataVars
  <2>2. w \subseteq w2 /\ \A u : CleanIn(u, w, k) => CleanIn(u, w2, k2)
    BY <2>1 DEF CleanIn
  <2> HIDE DEF w, k, w2, k2
  <2>3. Tracked(mem, day, w2, k2) => Tracked(mem', day, w2, k2)
    BY <1>1, <1>6, <2>2, TrackNodeStep
  <2> QED
    BY <1>5, <2>1, <2>2, <2>3
<1>7. ASSUME NEW s \in Slice, NEW n \in Node,
             \/ TaskSucceeds(s, n) \/ TaskFails(s, n) \/ RustMarks(s, n) \/ RustWrites(s, n)
      PROVE  TrackInv'
  <2>1. day' = day
    BY <1>7 DEF TaskSucceeds, TaskFails, RustMarks, RustWrites
  <2>2. w \subseteq w2 /\ \A u : CleanIn(u, w, k) => CleanIn(u, w2, k2)
    BY <1>7, CleanStays
  <2> HIDE DEF w, k, w2, k2
  <2>3. \/ mem' = mem
        \/ \E failed : mem' \in Reported(mem, s, n, failed) /\ mem.lost = {}
    BY <1>7 DEF TaskSucceeds, TaskFails, RustMarks, RustWrites, Ends, EndHeard, EndAway, EndMissed,
      Quiet
  <2>4. Tracked(mem, day, w2, k2) => Tracked(mem', day, w2, k2)
    BY <1>1, <2>2, <2>3, TrackedReported
  <2> QED
    BY <1>5, <2>1, <2>2, <2>4
<1>8. ASSUME NEW n \in Node, NodeDies(n) PROVE TrackInv'
  BY <1>8 DEF NodeDies, histVars, dataVars, TrackInv
<1>9. CASE Restart
  <2>1. mem' = Booted /\ day' = day
    BY <1>9 DEF Restart
  <2>2. Tracked(Booted, day, w2, k2)
    BY <1>1, TrackedBooted
  <2> QED
    BY <2>1, <2>2 DEF TrackInv
<1>10. CASE NextDay
  <2>1. day' = day + 1 /\ UNCHANGED <<mem, written, marked, orphans>>
    BY <1>10 DEF NextDay, histVars, dataVars
  <2>2. TrackInv' <=> Tracked(mem, day + 1, w, k)
    BY <2>1 DEF TrackInv
  <2> HIDE DEF w, k
  <2>3. RecentOK(mem, day + 1)
    <3>1. \A s \in Slice : mem.recent[s] \in Nat /\ mem.recent[s] <= day
      BY <1>1, DayFields DEF Tracked, RecentOK
    <3> QED
      BY <1>1, <3>1 DEF Tracked, RecentOK
  <2>4. AutoOK(mem, day + 1, w, k)
    <3>1. mem.auto \in Nat
      BY <1>1, DayFields
    <3> QED
      BY <1>1, <3>1 DEF Tracked, AutoOK
  <2> QED
    BY <1>1, <2>2, <2>3, <2>4 DEF Tracked
<1> QED
  BY <1>3, <1>4, <1>6, <1>7, <1>8, <1>9, <1>10 DEF Next

LEMMA TrackInvariant == Spec => []TrackInv
<1>1. Init => TrackInv
  <2>1. Tracked(Booted, 1, {} \cup {}, {} \ {})
    BY TrackedBooted
  <2> QED
    BY <2>1 DEF Init, TrackInv
<1>2. SchedInv /\ GoodInv /\ TrackInv /\ [Next]_vars => TrackInv'
  <2>1. CASE UNCHANGED vars
    BY <2>1 DEF vars, worldVars, histVars, dataVars, TrackInv
  <2> QED
    BY <2>1, TrackStep
<1> QED
  BY <1>1, <1>2, SchedInvariant, GoodInvariant, PTL DEF Spec

(* A day's run is recorded only when each slice due in it has been cleaned *)
(* or was given up in it (finishDailyRun): no page that is late, fails or  *)
(* is read again, no retry, no round asked for meanwhile and no restart    *)
(* makes the scan pass a slice by, but one whose execution or end the      *)
(* service lost track of.                                                  *)
THEOREM RecordIsTrue == Spec => RecordedRunIsDone
<1>1. SchedInv /\ TrackInv /\ [Next]_vars => (lastRun' # lastRun => DueHandled(lastRun'))
  <2> SUFFICES ASSUME SchedInv, TrackInv, [Next]_vars, lastRun' # lastRun
               PROVE  DueHandled(lastRun')
    OBVIOUS
  <2>1. PICK ok \in BOOLEAN : SaveDay(ok)
    BY DEF vars, Next, CleanNow, TickBegin, TickEnd, DrainTurn, SaveDay, LoadPage,
      QueryCompleted, QueryMarks, PageArrives, PageFails, TaskSucceeds, TaskFails, RustMarks,
      RustWrites, NodeGone, NodeDies, SettleIfBusy, NotifyLost, NodeJoins, ResultReplayed,
      NextDay, Restart, worldVars
  <2>2. mem.saving # Never /\ lastRun' = mem.saving
    BY <2>1 DEF SaveDay
  <2>3. \A s \in Slice :
          Date[s] < mem.saving => Given(mem, s, mem.saving, written \cup orphans, marked \ orphans)
    BY <2>2 DEF TrackInv, Tracked, SavingOK
  <2> QED
    BY <2>2, <2>3 DEF DueHandled, Given, CleanIn, Clean
<1> QED
  BY <1>1, SchedInvariant, TrackInvariant, PTL DEF Spec, RecordedRunIsDone

=============================================================================
