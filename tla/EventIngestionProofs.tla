-------------------------- MODULE EventIngestionProofs --------------------------
(***************************************************************************)
(* Proofs about EventIngestion, for a log and an event set of any size, any*)
(* flush size and any number of faults.                                    *)
(***************************************************************************)
EXTENDS EventIngestion, TLAPS, WellFoundedInduction, NaturalsInduction

LEMMA Numbers == MaxEvents \in Nat /\ MaxLog \in Nat /\ MaxFaults \in Nat /\ FlushSize \in Nat \ {0}
  BY TopicAssumption, IngestionAssumption DEF TopicAssumption, IngestionAssumption

LogTyped == log \in Seq(Event) /\ Len(log) <= MaxLog

(* What the process holds has been fetched.                                *)
HeldTyped ==
  /\ \A o \in Members(buffer) \cup Members(flush.batch) : o \in 1..Len(log)
  /\ flush.stage # "none" => flush.batch # <<>>
  /\ handler.stage # "idle" => handler.offset \in 1..Len(log)

Base == IngestionTypeOK /\ LogTyped /\ HeldTyped

-----------------------------------------------------------------------------
(* Sequences and prefixes.                                                 *)
LEMMA MembersOf ==
  /\ Members(<<>>) = {}
  /\ \A S : \A s \in Seq(S) : Members(s) \subseteq S
  /\ \A S : \A s \in Seq(S) : \A x \in S : Members(Append(s, x)) = Members(s) \cup {x}
  /\ \A S : \A s, t \in Seq(S) : Members(s \o t) = Members(s) \cup Members(t)
<1>1. Members(<<>>) = {}
  BY DEF Members
<1>2. ASSUME NEW S, NEW s \in Seq(S) PROVE Members(s) \subseteq S
  BY DEF Members
<1>3. ASSUME NEW S, NEW s \in Seq(S), NEW x \in S PROVE Members(Append(s, x)) = Members(s) \cup {x}
  <2>1. DOMAIN Append(s, x) = 1..Len(s) + 1 /\ DOMAIN s = 1..Len(s) /\ Len(s) \in Nat
    OBVIOUS
  <2>2. \A i \in 1..Len(s) : Append(s, x)[i] = s[i]
    OBVIOUS
  <2>3. Append(s, x)[Len(s) + 1] = x
    OBVIOUS
  <2> QED
    BY <2>1, <2>2, <2>3 DEF Members
<1>4. ASSUME NEW S, NEW s \in Seq(S), NEW t \in Seq(S) PROVE Members(s \o t) = Members(s) \cup Members(t)
  <2>1. /\ DOMAIN (s \o t) = 1..Len(s) + Len(t)
        /\ DOMAIN s = 1..Len(s) /\ DOMAIN t = 1..Len(t) /\ Len(s) \in Nat /\ Len(t) \in Nat
    OBVIOUS
  <2>2. \A i \in 1..Len(s) : (s \o t)[i] = s[i]
    OBVIOUS
  <2>3. \A i \in 1..Len(t) : (s \o t)[Len(s) + i] = t[i]
    OBVIOUS
  <2>4. \A i \in 1..Len(s) + Len(t) : i \in 1..Len(s) \/ i - Len(s) \in 1..Len(t)
    BY <2>1
  <2>5. ASSUME NEW m \in Members(s \o t) PROVE m \in Members(s) \cup Members(t)
    <3>1. PICK i \in 1..Len(s) + Len(t) : m = (s \o t)[i]
      BY <2>1, <2>5 DEF Members
    <3>2. CASE i \in 1..Len(s)
      BY <3>1, <3>2, <2>1, <2>2 DEF Members
    <3>3. CASE i - Len(s) \in 1..Len(t)
      <4>1. (s \o t)[Len(s) + (i - Len(s))] = t[i - Len(s)]
        BY <2>3, <3>3
      <4>2. Len(s) + (i - Len(s)) = i
        BY <2>1, <3>1
      <4> QED
        BY <3>1, <3>3, <4>1, <4>2, <2>1 DEF Members
    <3> QED
      BY <3>2, <3>3, <2>4
  <2>6. ASSUME NEW m \in Members(s) PROVE m \in Members(s \o t)
    <3>1. PICK i \in 1..Len(s) : m = s[i]
      BY <2>1, <2>6 DEF Members
    <3> QED
      BY <3>1, <2>1, <2>2 DEF Members
  <2>7. ASSUME NEW m \in Members(t) PROVE m \in Members(s \o t)
    <3>1. PICK i \in 1..Len(t) : m = t[i]
      BY <2>1, <2>7 DEF Members
    <3>2. Len(s) + i \in 1..Len(s) + Len(t)
      BY <2>1
    <3> QED
      BY <3>1, <3>2, <2>1, <2>3 DEF Members
  <2> QED
    BY <2>5, <2>6, <2>7
<1> QED
  BY <1>1, <1>2, <1>3, <1>4

LEMMA AppendIs ==
  ASSUME NEW S, NEW s \in Seq(S), NEW x
  PROVE  /\ DOMAIN Append(s, x) = 1..Len(s) + 1
         /\ \A i \in DOMAIN s : Append(s, x)[i] = s[i]
         /\ Append(s, x)[Len(s) + 1] = x
  OBVIOUS

LEMMA TailIs ==
  ASSUME NEW S, NEW s \in Seq(S), s # <<>>
  PROVE  /\ Head(s) = s[1] /\ 1 \in DOMAIN s /\ DOMAIN Tail(s) = 1..Len(s) - 1
         /\ \A i \in DOMAIN Tail(s) : i + 1 \in DOMAIN s /\ Tail(s)[i] = s[i + 1]
<1>1. DOMAIN s = 1..Len(s) /\ DOMAIN Tail(s) = 1..Len(s) - 1 /\ Len(s) \in Nat /\ Len(s) > 0
  OBVIOUS
<1>2. \A i \in DOMAIN Tail(s) : i \in Nat /\ i >= 1 /\ i <= Len(s) - 1
  BY <1>1
<1>3. \A i \in DOMAIN Tail(s) : i + 1 \in DOMAIN s /\ Tail(s)[i] = s[i + 1]
  BY <1>1, <1>2
<1> QED
  BY <1>1, <1>3

LEMMA FirstOf ==
  ASSUME NEW S, NEW s \in Seq(S), s # <<>>
  PROVE  s[1] \in S /\ s[1] \in Members(s) /\ Len(s) >= 1
  BY DEF Members

LEMMA Least ==
  ASSUME NEW T \in SUBSET Nat, T # {}
  PROVE  \E x \in T : \A y \in T : x <= y
<1>1. IsWellFoundedOn(OpToRel(<, Nat), Nat)
  BY NatLessThanWellFounded
<1>2. PICK x \in T : \A y \in T : ~(<<y, x>> \in OpToRel(<, Nat))
  BY <1>1, WFMin
<1>3. OpToRel(<, Nat) = {ss \in Nat \X Nat : ss[1] < ss[2]}
  BY DEF OpToRel
<1>4. ASSUME NEW y \in T PROVE x <= y
  <2>1. ~(<<y, x>> \in {ss \in Nat \X Nat : ss[1] < ss[2]})
    BY <1>2, <1>3
  <2> QED
    BY <2>1
<1> QED
  BY <1>4

(* The end of a prefix exists: the offset after the last is never completed.*)
LEMMA PrefixEnds ==
  ASSUME NEW done \in SUBSET Offset, NEW start \in 1..MaxLog + 1
  PROVE  LET n == PrefixEnd(done, start) IN
         n \in start..MaxLog + 1 /\ n \notin done /\ start..(n - 1) \subseteq done
<1> DEFINE T == {n \in start..MaxLog + 1 : n \notin done}
<1>1. MaxLog + 1 \in T
  BY Numbers DEF Offset
<1>2. T \in SUBSET Nat
  BY Numbers
<1>3. PICK n \in T : \A y \in T : n <= y
  <2> HIDE DEF T
  <2> QED
    BY <1>1, <1>2, Least
<1>4. start..(n - 1) \subseteq done
  BY <1>3, Numbers
<1>5. \E m \in start..MaxLog + 1 : m \notin done /\ start..(m - 1) \subseteq done
  BY <1>3, <1>4
<1> QED
  BY <1>5 DEF PrefixEnd

StartOf(first) == IF progress.next = 0 THEN first ELSE progress.next
DoneOf(S, first) == progress.completed \cup {o \in S : o >= StartOf(first)}

(* What markOffsetCompleted makes of the progress.                         *)
LEMMA Marks ==
  ASSUME progress \in Progress, NEW S \in SUBSET Offset, NEW first \in Offset
  PROVE  /\ Mark(S, first) \in Progress
         /\ Mark(S, first).next > 0
         /\ Mark(S, first).next >= StartOf(first)
         /\ StartOf(first)..(Mark(S, first).next - 1) \subseteq DoneOf(S, first)
         /\ Mark(S, first).completed \subseteq DoneOf(S, first)
         /\ Mark(S, first).committed = progress.committed
<1>1. StartOf(first) \in 1..MaxLog + 1
  BY Numbers DEF StartOf, Offset, Progress, Committable
<1>2. DoneOf(S, first) \in SUBSET Offset
  BY DEF DoneOf, Progress
<1> DEFINE n == PrefixEnd(DoneOf(S, first), StartOf(first))
<1>3. n \in StartOf(first)..MaxLog + 1 /\ StartOf(first)..(n - 1) \subseteq DoneOf(S, first)
  BY <1>1, <1>2, PrefixEnds
<1>4. Mark(S, first) = [progress EXCEPT !.completed = {o \in DoneOf(S, first) : o > n}, !.next = n]
  BY DEF Mark, StartOf, DoneOf
<1> HIDE DEF n
<1>5. n \in Nat /\ n > 0 /\ n \in Committable
  BY <1>1, <1>3, Numbers DEF Committable
<1>6. /\ Mark(S, first).next = n /\ Mark(S, first).committed = progress.committed
      /\ Mark(S, first).completed = {o \in DoneOf(S, first) : o > n}
      /\ Mark(S, first) \in Progress
  BY <1>2, <1>4, <1>5 DEF Progress
<1> QED
  BY <1>1, <1>3, <1>5, <1>6

-----------------------------------------------------------------------------
(* A step of the consumer, or one of others, who append to the log.        *)
Appends == (\E s \in Seq(Event) : Append2Log(s)) /\ UNCHANGED ingestionVars

IngestionStep == IngestionNext \/ Appends \/ UNCHANGED <<log, ingestionVars>>

LEMMA StepIs == [IngestionNext \/ Produce]_<<log, faults, ingestionVars>> => IngestionStep
<1>1. ASSUME Produce PROVE Appends
  <2>1. PICK e \in Event : Append2Log(<<e>>) /\ UNCHANGED ingestionVars
    BY <1>1 DEF Produce
  <2>2. <<e>> \in Seq(Event)
    OBVIOUS
  <2> QED
    BY <2>1, <2>2 DEF Appends
<1> QED
  BY <1>1 DEF IngestionStep

(* Type correctness.                                                       *)
LEMMA BaseInit == IngestionInit /\ log = <<>> /\ faults = 0 => Base
<1> SUFFICES ASSUME IngestionInit, log = <<>> PROVE Base
  OBVIOUS
<1>1. NoHandler \in Handler /\ NoFlush \in FlushRecord /\ NoProgress \in Progress
  BY Numbers DEF NoHandler, NoFlush, NoProgress, Handler, FlushRecord, FlushStage, Progress,
                  Committable
<1>2. IngestionTypeOK
  BY <1>1, Numbers DEF IngestionInit, IngestionTypeOK, Committable
<1>3. LogTyped
  BY Numbers DEF LogTyped
<1>4. HeldTyped
  BY MembersOf DEF IngestionInit, HeldTyped, NoFlush, NoHandler
<1> QED
  BY <1>2, <1>3, <1>4 DEF Base

LEMMA Facts ==
  ASSUME Base
  PROVE  /\ groupOffset \in Committable /\ keys \subseteq Event /\ rows \in [Event -> Nat]
         /\ position \in 1..MaxLog + 1 /\ from \in 1..MaxLog + 1
         /\ handler \in Handler /\ buffer \in Seq(Offset) /\ flush \in FlushRecord
         /\ progress \in Progress /\ commits \in Seq(Commit)
         /\ unsure \subseteq Event /\ stale \subseteq Event
         /\ dirty \subseteq Offset /\ began \subseteq Offset /\ missed \subseteq Offset
         /\ log \in Seq(Event) /\ Len(log) \in Nat /\ Len(log) <= MaxLog
         /\ 1..Len(log) \subseteq Offset /\ DOMAIN log = 1..Len(log)
         /\ Members(flush.batch) \subseteq Offset
<1>2. log \in Seq(Event) /\ Len(log) \in Nat /\ Len(log) <= MaxLog /\ DOMAIN log = 1..Len(log)
  BY DEF Base, LogTyped
<1>3. 1..Len(log) \subseteq Offset
  BY <1>2, Numbers DEF Offset
<1>4. flush.batch \in Seq(Offset)
  BY DEF Base, IngestionTypeOK, FlushRecord
<1> QED
  BY <1>2, <1>3, <1>4, MembersOf DEF Base, IngestionTypeOK

LEMMA ResumeTyped == ASSUME Base PROVE Resume \in 1..MaxLog + 1
  BY Facts, Numbers DEF Resume, Committable

LEMMA RedeliverTyped ==
  ASSUME Base, NEW o \in Offset, Redeliver(o)
  PROVE  position' \in 1..MaxLog + 1 /\ from' \in 1..MaxLog + 1 /\ missed' \subseteq Offset
<1>1. CASE \E p \in from..o : position' = p /\ UNCHANGED <<from, missed>>
  BY <1>1, Facts, Numbers DEF Offset
<1>2. CASE position' = Resume /\ from' = Resume /\ missed' = missed \cup o..(Resume - 1)
  <2>1. Resume \in 1..MaxLog + 1
    BY ResumeTyped
  <2>2. o..(Resume - 1) \subseteq Offset
    BY <2>1, Numbers DEF Offset
  <2> QED
    BY <1>2, <2>1, <2>2, Facts
<1> QED
  BY <1>1, <1>2 DEF Redeliver

(* A sequence of fetched offsets.                                          *)
Fetched(s) == s \in Seq(Offset) /\ \A o \in Members(s) : o \in 1..Len(log)

LEMMA HeldFetched == ASSUME Base PROVE Fetched(buffer) /\ Fetched(flush.batch)
  BY Facts DEF Base, HeldTyped, Fetched, FlushRecord

LEMMA StartFlushTyped ==
  ASSUME Base, NEW b, Fetched(b), StartFlush(b)
  PROVE  /\ buffer' \in Seq(Offset) /\ flush' \in FlushRecord
         /\ \A o \in Members(buffer') \cup Members(flush'.batch) : o \in 1..Len(log)
         /\ flush'.stage # "none" => flush'.batch # <<>>
<1>1. CASE flush.stage # "none" \/ b = <<>>
  BY <1>1, Facts DEF StartFlush, Fetched, Base, HeldTyped
<1>2. CASE ~(flush.stage # "none" \/ b = <<>>)
  <2>1. buffer' = <<>> /\ flush' = [NoFlush EXCEPT !.stage = "keys", !.batch = b]
    BY <1>2 DEF StartFlush
  <2>4. flush' = [stage |-> "keys", batch |-> b, at |-> 1, fresh |-> {}]
    BY <2>1 DEF NoFlush
  <2>2. flush' \in FlushRecord /\ flush'.batch = b
    BY <2>4 DEF FlushRecord, FlushStage, Fetched
  <2>3. Members(buffer') = {}
    BY <2>1, MembersOf
  <2> QED
    BY <1>2, <2>1, <2>2, <2>3 DEF Fetched
<1> QED
  BY <1>1, <1>2

LEMMA AskTyped ==
  ASSUME Base, NEW p \in Progress, NEW by \in {"flush", "handler"}, Ask(p, by)
  PROVE  commits' \in Seq(Commit)
<1>1. [by |-> by, offset |-> p.next] \in Commit
  BY DEF Progress, Commit
<1> QED
  BY <1>1, Facts DEF Ask

LEMMA StoredTyped ==
  ASSUME Base, flush.stage # "none", Stored
  PROVE  /\ progress' \in Progress /\ commits' \in Seq(Commit)
         /\ handler' \in Handler /\ flush' \in FlushRecord
         /\ flush'.batch \in {flush.batch, <<>>}
         /\ flush'.stage # "none" => flush'.batch # <<>>
         /\ handler' \in {handler, NoHandler}
<1> DEFINE p == Mark(Members(flush.batch), flush.batch[1])
<1>1. flush.batch \in Seq(Offset) /\ flush.batch # <<>>
  BY Facts DEF Base, HeldTyped, FlushRecord
<1>2. flush.batch[1] \in Offset /\ Members(flush.batch) \in SUBSET Offset
  BY <1>1, FirstOf, Facts
<1>3. p \in Progress
  BY <1>2, Marks, Facts
<1>4. NoFlush \in FlushRecord /\ NoFlush.stage = "none" /\ NoFlush.batch = <<>>
      /\ NoHandler \in Handler
  BY Numbers DEF NoFlush, FlushRecord, FlushStage, NoHandler, Handler
<1> HIDE DEF p
<1>5. progress' = p
  BY DEF Stored, p
<1>6. CASE Wanted(p)
  <2>1. Ask(p, "flush") /\ flush' = [flush EXCEPT !.stage = "commit"] /\ UNCHANGED handler
    BY <1>6 DEF Stored, p
  <2>2. flush' \in FlushRecord /\ flush'.batch = flush.batch
    BY <2>1, Facts DEF FlushRecord, FlushStage
  <2> QED
    BY <1>1, <1>3, <1>5, <2>1, <2>2, AskTyped, Facts
<1>7. CASE ~Wanted(p)
  <2>1. flush' = NoFlush /\ UNCHANGED commits
        /\ handler' = IF handler.stage = "flush" THEN NoHandler ELSE handler
    BY <1>7 DEF Stored, p
  <2> QED
    BY <1>3, <1>4, <1>5, <2>1, Facts
<1> QED
  BY <1>6, <1>7

(* Each action keeps Base.                                                 *)
LEMMA TypeConsume == Base /\ Consume => Base'
<1> SUFFICES ASSUME Base, Consume PROVE Base'
  OBVIOUS
<1> DEFINE b == Append(buffer, position)
<1>1. position \in 1..Len(log) /\ position \in Offset
  BY Facts, Numbers DEF Consume, Offset
<1>2. Fetched(b)
  BY <1>1, HeldFetched, MembersOf, Facts DEF Fetched
<1>3. /\ buffer' \in Seq(Offset) /\ flush' \in FlushRecord
      /\ \A o \in Members(buffer') \cup Members(flush'.batch) : o \in 1..Len(log)
      /\ flush'.stage # "none" => flush'.batch # <<>>
  <2>1. CASE StartFlush(b)
    <3> HIDE DEF b
    <3> QED
      BY <1>2, <2>1, StartFlushTyped
  <2>2. CASE buffer' = b /\ UNCHANGED flush
    BY <1>2, <2>2, HeldFetched, Facts DEF Base, HeldTyped, Fetched
  <2> QED
    BY <2>1, <2>2 DEF Consume
<1>4. handler' \in Handler /\ (handler'.stage # "idle" => handler'.offset \in 1..Len(log))
  BY <1>1, Facts, Numbers DEF Consume, Handler, Offset, Base, HeldTyped
<1>5. position' \in 1..MaxLog + 1
  BY <1>1, Numbers DEF Consume, Offset
<1> QED
  BY <1>3, <1>4, <1>5 DEF Consume, Base, IngestionTypeOK, LogTyped, HeldTyped, store, history

LEMMA TypeCompletion == Base /\ (CompletionFails \/ CompletionRejects) => Base'
<1> SUFFICES ASSUME Base, CompletionFails \/ CompletionRejects PROVE Base'
  OBVIOUS
<1>1. position \in 1..Len(log) /\ position \in Offset
  BY Facts, Numbers DEF CompletionFails, CompletionRejects, Offset
<1>2. CASE CompletionFails
  <2>1. position' \in 1..MaxLog + 1 /\ from' \in 1..MaxLog + 1 /\ missed' \subseteq Offset
    BY <1>1, <1>2, RedeliverTyped DEF CompletionFails
  <2> QED
    BY <1>2, <2>1 DEF CompletionFails, Base, IngestionTypeOK, LogTyped, HeldTyped, store
<1>3. CASE CompletionRejects
  <2>1. handler' \in Handler /\ handler'.offset \in 1..Len(log) /\ position' \in 1..MaxLog + 1
    BY <1>1, <1>3, Numbers DEF CompletionRejects, Handler, Offset
  <2> QED
    BY <1>3, <2>1 DEF CompletionRejects, Base, IngestionTypeOK, LogTyped, HeldTyped, store, history
<1> QED
  BY <1>2, <1>3

LEMMA NothingTyped ==
  /\ NoHandler \in Handler /\ NoHandler.stage = "idle"
  /\ NoFlush \in FlushRecord /\ NoFlush.stage = "none" /\ NoFlush.batch = <<>>
  /\ NoFlush.fresh = {} /\ Members(NoFlush.batch) = {}
  /\ NoProgress \in Progress /\ NoProgress.next = 0 /\ NoProgress.completed = {}
  BY Numbers, MembersOf DEF NoHandler, Handler, NoFlush, FlushRecord, FlushStage, NoProgress, Progress,
                            Committable

LEMMA TypeLogDirty == Base /\ LogDirty => Base'
<1> SUFFICES ASSUME Base, LogDirty PROVE Base'
  OBVIOUS
<1> DEFINE o == handler.offset
           p == Mark({o}, o)
<1>1. o \in 1..Len(log) /\ o \in Offset
  BY Facts DEF LogDirty, Base, HeldTyped
<1>2. p \in Progress
  BY <1>1, Marks, Facts
<1> HIDE DEF p
<1>3. progress' = p /\ dirty' = dirty \cup {o}
      /\ began' = began \cup (IF progress.next = 0 THEN {o} ELSE {})
  BY DEF LogDirty, p
<1>4. commits' \in Seq(Commit) /\ handler' \in Handler
      /\ (handler'.stage # "idle" => handler'.offset \in 1..Len(log))
  <2>1. CASE Ask(p, "handler") /\ handler' = [handler EXCEPT !.stage = "commit"]
    BY <1>1, <1>2, <2>1, AskTyped, Facts DEF Handler
  <2>2. CASE handler' = NoHandler /\ UNCHANGED commits
    BY <2>2, NothingTyped, Facts
  <2> QED
    BY <2>1, <2>2 DEF LogDirty, p
<1>5. dirty' \subseteq Offset /\ began' \subseteq Offset
  BY <1>1, <1>3, Facts
<1> QED
  BY <1>2, <1>3, <1>4, <1>5 DEF LogDirty, Base, IngestionTypeOK, LogTyped, HeldTyped, store

LEMMA TypeFlushes == Base /\ (TimerFlush \/ LastFlush) => Base'
<1> SUFFICES ASSUME Base, TimerFlush \/ LastFlush PROVE Base'
  OBVIOUS
<1>1. Fetched(buffer) /\ StartFlush(buffer)
  BY HeldFetched DEF TimerFlush, LastFlush
<1>2. /\ buffer' \in Seq(Offset) /\ flush' \in FlushRecord
      /\ \A o \in Members(buffer') \cup Members(flush'.batch) : o \in 1..Len(log)
      /\ flush'.stage # "none" => flush'.batch # <<>>
  BY <1>1, StartFlushTyped
<1> QED
  BY <1>2 DEF TimerFlush, LastFlush, Base, IngestionTypeOK, LogTyped, HeldTyped, store, history

LEMMA ClaimedTyped ==
  ASSUME Base, flush.at <= Len(flush.batch)
  PROVE  Claimed \in Event /\ flush.at \in 1..Len(flush.batch)
<1>1. flush.at \in 1..Len(flush.batch) /\ flush.batch \in Seq(Offset)
  BY Facts DEF FlushRecord
<1>2. flush.batch[flush.at] \in Members(flush.batch)
  BY <1>1 DEF Members
<1>3. flush.batch[flush.at] \in 1..Len(log)
  BY <1>2 DEF Base, HeldTyped
<1> QED
  BY <1>1, <1>3, Facts DEF Claimed

LEMMA TypeKeys == Base /\ (ClaimKey \/ KeyFails \/ InsertEvents) => Base'
<1> SUFFICES ASSUME Base, ClaimKey \/ KeyFails \/ InsertEvents PROVE Base'
  OBVIOUS
<1>1. CASE ClaimKey
  <2> DEFINE new == IF Claimed \in keys THEN {} ELSE {Claimed}
  <2>1. new \subseteq Event
    BY <1>1, ClaimedTyped DEF ClaimKey
  <2> HIDE DEF new
  <2>2. keys' = keys \cup new /\ flush' = [flush EXCEPT !.at = @ + 1, !.fresh = @ \cup new]
    BY <1>1 DEF ClaimKey, new
  <2>4. flush' = [stage |-> flush.stage, batch |-> flush.batch, at |-> flush.at + 1,
                  fresh |-> flush.fresh \cup new]
    BY <2>2, Facts DEF FlushRecord
  <2>5. flush.at + 1 \in Nat \ {0} /\ flush.fresh \cup new \subseteq Event
    BY <2>1, Facts DEF FlushRecord
  <2>6. flush.stage \in FlushStage /\ flush.batch \in Seq(Offset)
    BY Facts DEF FlushRecord
  <2>3. flush' \in FlushRecord /\ flush'.batch = flush.batch /\ flush'.stage = flush.stage
    BY <2>4, <2>5, <2>6 DEF FlushRecord
  <2> QED
    BY <1>1, <2>1, <2>2, <2>3, Facts DEF ClaimKey, Base, IngestionTypeOK, LogTyped, HeldTyped, history
<1>2. CASE KeyFails
  <2>1. Claimed \in Event /\ flush.stage # "none"
    BY <1>2, ClaimedTyped DEF KeyFails
  <2>2. flush' \in FlushRecord /\ flush'.batch = flush.batch
    BY <1>2, Facts DEF KeyFails, FlushRecord, FlushStage
  <2>3. keys' \subseteq Event /\ stale' \subseteq Event
    BY <1>2, <2>1, Facts DEF KeyFails
  <2> QED
    BY <1>2, <2>1, <2>2, <2>3 DEF KeyFails, Base, IngestionTypeOK, LogTyped, HeldTyped
<1>3. CASE InsertEvents
  <2>1. flush' \in FlushRecord /\ flush'.batch = flush.batch /\ flush.stage # "none"
    BY <1>3, Facts DEF InsertEvents, FlushRecord, FlushStage
  <2> QED
    BY <1>3, <2>1 DEF InsertEvents, Base, IngestionTypeOK, LogTyped, HeldTyped, store, history
<1> QED
  BY <1>1, <1>2, <1>3

LEMMA WithFreshTyped == ASSUME Base PROVE WithFresh \in [Event -> Nat]
  BY Facts DEF WithFresh

LEMMA TypeInserts == Base /\ (NothingNew \/ InsertDone \/ InsertFails) => Base'
<1> SUFFICES ASSUME Base, NothingNew \/ InsertDone \/ InsertFails PROVE Base'
  OBVIOUS
<1>1. CASE NothingNew \/ InsertDone
  <2>1. flush.stage # "none" /\ Stored /\ rows' \in [Event -> Nat]
    BY <1>1, WithFreshTyped, Facts DEF NothingNew, InsertDone, store
  <2>2. /\ progress' \in Progress /\ commits' \in Seq(Commit)
        /\ handler' \in Handler /\ flush' \in FlushRecord
        /\ flush'.batch \in {flush.batch, <<>>}
        /\ flush'.stage # "none" => flush'.batch # <<>>
        /\ handler' \in {handler, NoHandler}
    BY <2>1, StoredTyped
  <2>3. Members(flush'.batch) \subseteq Members(flush.batch)
    BY <2>2, MembersOf
  <2> QED
    BY <1>1, <2>1, <2>2, <2>3, NothingTyped
    DEF NothingNew, InsertDone, Base, IngestionTypeOK, LogTyped, HeldTyped, store, history
<1>2. CASE InsertFails
  <2>1. flush' \in FlushRecord /\ flush'.batch = flush.batch /\ flush.stage # "none"
    BY <1>2, Facts DEF InsertFails, FlushRecord, FlushStage
  <2>2. rows' \in [Event -> Nat] /\ unsure' \subseteq Event
    BY <1>2, WithFreshTyped, Facts DEF InsertFails, FlushRecord
  <2> QED
    BY <1>2, <2>1, <2>2 DEF InsertFails, Base, IngestionTypeOK, LogTyped, HeldTyped
<1> QED
  BY <1>1, <1>2

LEMMA FlushThrowsTyped ==
  ASSUME Base, FlushThrows
  PROVE  /\ position' \in 1..MaxLog + 1 /\ from' \in 1..MaxLog + 1 /\ missed' \subseteq Offset
         /\ handler' \in Handler /\ (handler'.stage # "idle" => handler'.offset \in 1..Len(log))
<1>1. CASE handler.stage = "flush" /\ flush.stage = "retryable" /\ Redeliver(handler.offset)
           /\ handler' = NoHandler
  <2>1. handler.offset \in Offset
    BY <1>1, Facts DEF Base, HeldTyped
  <2> QED
    BY <1>1, <2>1, RedeliverTyped, NothingTyped
<1>2. CASE handler.stage = "flush" /\ handler' = [handler EXCEPT !.stage = "log"]
           /\ UNCHANGED <<position, from, missed>>
  BY <1>2, Facts DEF Base, HeldTyped, Handler
<1>3. CASE handler.stage # "flush" /\ UNCHANGED <<position, from, missed, handler>>
  BY <1>3, Facts DEF Base, HeldTyped
<1> QED
  BY <1>1, <1>2, <1>3 DEF FlushThrows

LEMMA TypeReleaseKeys == Base /\ ReleaseKeys => Base'
<1> SUFFICES ASSUME Base, ReleaseKeys PROVE Base'
  OBVIOUS
<1>1. PICK left \in SUBSET flush.fresh :
        /\ keys' = keys \ (flush.fresh \ left)
        /\ stale' = stale \cup {e \in left : rows[e] = 0}
        /\ buffer' = flush.batch \o buffer /\ flush' = NoFlush /\ FlushThrows
        /\ UNCHANGED <<log, groupOffset, rows, service, progress, commits, unsure, dirty, began>>
  BY DEF ReleaseKeys
<1>2. flush.fresh \subseteq Event
  BY Facts DEF FlushRecord
<1>3. keys' \subseteq Event /\ stale' \subseteq Event
  BY <1>1, <1>2, Facts
<1>4. buffer' \in Seq(Offset) /\ Members(buffer') = Members(flush.batch) \cup Members(buffer)
  BY <1>1, MembersOf, HeldFetched DEF Fetched
<1>5. \A o \in Members(buffer') \cup Members(flush'.batch) : o \in 1..Len(log)
  BY <1>1, <1>4, NothingTyped DEF Base, HeldTyped
<1> QED
  BY <1>1, <1>3, <1>4, <1>5, FlushThrowsTyped, NothingTyped DEF Base, IngestionTypeOK, LogTyped, HeldTyped

LEMMA TypeCommits == Base /\ (Committed \/ CommitFails) => Base'
<1> SUFFICES ASSUME Base, Committed \/ CommitFails PROVE Base'
  OBVIOUS
<1>1. commits # <<>> /\ commits \in Seq(Commit) /\ After(Head(commits))
  BY Facts DEF Committed, CommitFails
<1>2. Head(commits) \in Commit /\ commits' \in Seq(Commit)
  BY <1>1 DEF After
<1>3. /\ flush' \in {flush, NoFlush} /\ handler' \in {handler, NoHandler}
  BY <1>1 DEF After
<1>4. /\ flush' \in FlushRecord /\ handler' \in Handler
      /\ Members(flush'.batch) \subseteq Members(flush.batch)
      /\ flush'.stage # "none" => flush'.batch # <<>>
      /\ handler'.stage # "idle" => handler'.offset \in 1..Len(log)
  BY <1>3, NothingTyped, Facts DEF Base, HeldTyped
<1>5. groupOffset' \in Committable /\ progress' \in Progress
  BY <1>2, Facts DEF Committed, CommitFails, Commit, Progress, store
<1> QED
  BY <1>2, <1>4, <1>5 DEF Committed, CommitFails, Base, IngestionTypeOK, LogTyped, HeldTyped, store, history

LEMMA TypeStops == Base /\ (Rejoin \/ Shutdown \/ Exit \/ Crash \/ Restart) => Base'
<1> SUFFICES ASSUME Base, Rejoin \/ Shutdown \/ Exit \/ Crash \/ Restart PROVE Base'
  OBVIOUS
<1>1. CASE Rejoin
  <2>1. Resume \in 1..MaxLog + 1
    BY ResumeTyped
  <2>2. missed' \subseteq Offset
    BY <1>1, <2>1, Facts, Numbers DEF Rejoin, Offset
  <2> QED
    BY <1>1, <2>1, <2>2 DEF Rejoin, Base, IngestionTypeOK, LogTyped, HeldTyped, store
<1>2. CASE Shutdown
  BY <1>2 DEF Shutdown, Base, IngestionTypeOK, LogTyped, HeldTyped, store, memory, history
<1>3. CASE Exit \/ Crash
  <2>1. Forget /\ rows' = rows /\ unsure' = unsure /\ stale' \subseteq Event
    <3>1. flush.fresh \subseteq Event /\ stale \subseteq Event
      BY Facts DEF FlushRecord
    <3> QED
      BY <1>3, <3>1 DEF Exit, Crash
  <2> QED
    BY <2>1, NothingTyped, MembersOf DEF Forget, Base, IngestionTypeOK, LogTyped, HeldTyped
<1>4. CASE Restart
  <2>1. Resume \in 1..MaxLog + 1
    BY ResumeTyped
  <2>2. missed' \subseteq Offset
    BY <1>4, Facts DEF Restart
  <2> QED
    BY <1>4, <2>1, <2>2 DEF Restart, Base, IngestionTypeOK, LogTyped, HeldTyped, store
<1> QED
  BY <1>1, <1>2, <1>3, <1>4

LEMMA LogGrows ==
  ASSUME Base, Appends
  PROVE  /\ log' \in Seq(Event) /\ Len(log') >= Len(log) /\ Len(log') <= MaxLog
         /\ \A o \in 1..Len(log) : log'[o] = log[o]
<1>1. PICK s \in Seq(Event) : Len(log) + Len(s) <= MaxLog /\ log' = log \o s
  BY DEF Appends, Append2Log
<1> QED
  BY <1>1, Facts

LEMMA TypeAppends == Base /\ Appends => Base'
<1> SUFFICES ASSUME Base, Appends PROVE Base'
  OBVIOUS
<1>1. log' \in Seq(Event) /\ Len(log') >= Len(log) /\ Len(log') <= MaxLog
  BY LogGrows
<1>2. UNCHANGED ingestionVars
  BY DEF Appends
<1>3. Len(log) \in Nat
  BY Facts
<1>4. 1..Len(log) \subseteq 1..Len(log')
  BY <1>1, <1>3
<1> QED
  BY <1>1, <1>2, <1>4
  DEF Base, IngestionTypeOK, LogTyped, HeldTyped, ingestionVars, store, memory, history

LEMMA TypeStep == Base /\ IngestionStep => Base'
<1> SUFFICES ASSUME Base, IngestionStep PROVE Base'
  OBVIOUS
<1>1. CASE UNCHANGED <<log, ingestionVars>>
  BY <1>1 DEF Base, IngestionTypeOK, LogTyped, HeldTyped, ingestionVars, store, memory, history
<1>2. CASE Appends
  BY <1>2, TypeAppends
<1>3. CASE Handling
  BY <1>3, TypeConsume, TypeCompletion, TypeLogDirty DEF Handling
<1>4. CASE Flushing
  BY <1>4, TypeFlushes, TypeKeys, TypeInserts, TypeReleaseKeys, TypeCommits DEF Flushing
<1>5. CASE Stopping
  BY <1>5, TypeFlushes, TypeStops DEF Stopping
<1> QED
  BY <1>1, <1>2, <1>3, <1>4, <1>5 DEF IngestionStep, IngestionNext

(* The types of the module hold, and what is held has been fetched.        *)
THEOREM TypeCorrect == IngestionSpec => []IngestionTypeOK
<1>1. IngestionInit /\ log = <<>> /\ faults = 0 => Base
  BY BaseInit
<1>2. Base /\ [IngestionNext \/ Produce]_<<log, faults, ingestionVars>> => Base'
  BY StepIs, TypeStep
<1>3. Base => IngestionTypeOK
  BY DEF Base
<1> QED
  BY <1>1, <1>2, <1>3, PTL DEF IngestionSpec, IngestionStart

-----------------------------------------------------------------------------
(* De-duplication.  An event that is stored, and not by an insert reported *)
(* as failed, has its key; so a flush that has got the key of an event     *)
(* (fresh) stores it for the first time, unless the event is unsure.       *)
StoredHasKey == \A e \in Event : rows[e] > 0 /\ e \notin unsure => e \in keys

FreshSound ==
  /\ flush.stage = "none" => flush.fresh = {}
  /\ flush.stage = "commit" => \A e \in flush.fresh : rows[e] > 0
  /\ flush.stage \notin {"none", "commit"} =>
       \A e \in flush.fresh : e \in keys /\ (rows[e] > 0 => e \in unsure)

KeyInv == StoredOnce /\ StoredHasKey /\ FreshSound /\ KeyMeansStored

LEMMA KeyInit == IngestionInit => KeyInv
<1> SUFFICES ASSUME IngestionInit PROVE KeyInv
  OBVIOUS
<1>1. keys = {} /\ rows = [e \in Event |-> 0] /\ flush.stage = "none" /\ flush.fresh = {}
  BY NothingTyped DEF IngestionInit
<1>2. \A e \in Event : rows[e] = 0
  BY <1>1
<1> QED
  BY <1>1, <1>2 DEF KeyInv, StoredOnce, StoredHasKey, FreshSound, KeyMeansStored

(* Steps that change neither the keys nor the rows.                        *)
LEMMA KeyQuiet ==
  ASSUME Base, KeyInv, UNCHANGED <<keys, rows, unsure>>, stale \subseteq stale',
         \/ flush' = flush
         \/ flush'.fresh = flush.fresh /\ flush.stage \notin {"none", "commit"}
                                         /\ flush'.stage \notin {"none", "commit"}
         \/ flush'.fresh = {} /\ flush.stage = "none" /\ flush'.stage # "commit"
         \/ flush'.fresh = {} /\ \A e \in flush.fresh : rows[e] > 0 \/ e \in stale'
  PROVE  KeyInv'
<1>1. flush.stage = "none" => flush.fresh = {}
  BY DEF KeyInv, FreshSound
<1> QED
  BY <1>1 DEF KeyInv, StoredOnce, StoredHasKey, FreshSound, KeyMeansStored

LEMMA KeyFlushes == Base /\ KeyInv /\ (Consume \/ TimerFlush \/ LastFlush) => KeyInv'
<1> SUFFICES ASSUME Base, KeyInv, Consume \/ TimerFlush \/ LastFlush PROVE KeyInv'
  OBVIOUS
<1>1. UNCHANGED <<keys, rows, unsure, stale>>
  BY DEF Consume, TimerFlush, LastFlush, store, history
<1>2. flush' = flush \/ (flush.stage = "none" /\ \E b : flush' = [NoFlush EXCEPT !.stage = "keys", !.batch = b])
  BY DEF Consume, TimerFlush, LastFlush, StartFlush
<1>3. flush' = flush \/ (flush.stage = "none" /\ flush'.fresh = {} /\ flush'.stage = "keys")
  BY <1>2 DEF NoFlush
<1> QED
  BY <1>1, <1>3, KeyQuiet

LEMMA KeyClaims == Base /\ KeyInv /\ (ClaimKey \/ KeyFails \/ InsertEvents) => KeyInv'
<1> SUFFICES ASSUME Base, KeyInv, ClaimKey \/ KeyFails \/ InsertEvents PROVE KeyInv'
  OBVIOUS
<1>1. CASE ClaimKey
  <2> DEFINE new == IF Claimed \in keys THEN {} ELSE {Claimed}
  <2>1. Claimed \in Event /\ new \subseteq {Claimed} /\ (Claimed \in keys => new = {})
    BY <1>1, ClaimedTyped DEF ClaimKey
  <2>2. keys' = keys \cup new /\ flush' = [flush EXCEPT !.at = @ + 1, !.fresh = @ \cup new]
        /\ UNCHANGED <<rows, unsure, stale>> /\ flush.stage = "keys"
    BY <1>1 DEF ClaimKey, history
  <2> HIDE DEF new
  <2>3. flush'.fresh = flush.fresh \cup new /\ flush'.stage = "keys"
    BY <2>2, Facts DEF FlushRecord
  <2>4. \A e \in new : rows[e] > 0 => e \in unsure
    BY <2>1 DEF KeyInv, StoredHasKey
  <2> QED
    BY <2>2, <2>3, <2>4 DEF KeyInv, StoredOnce, StoredHasKey, FreshSound, KeyMeansStored
<1>2. CASE KeyFails
  <2>1. flush'.fresh = flush.fresh /\ flush.stage = "keys" /\ flush'.stage \in {"retryable", "unretryable"}
    BY <1>2, Facts DEF KeyFails, FlushRecord
  <2>2. UNCHANGED <<rows, unsure>>
    BY <1>2 DEF KeyFails
  <2>3. CASE UNCHANGED <<keys, stale>>
    BY <2>1, <2>2, <2>3, KeyQuiet
  <2>4. CASE keys' = keys \cup {Claimed} /\ stale' = stale \cup {Claimed}
    BY <2>1, <2>2, <2>4 DEF KeyInv, StoredOnce, StoredHasKey, FreshSound, KeyMeansStored
  <2> QED
    BY <1>2, <2>3, <2>4 DEF KeyFails
<1>3. CASE InsertEvents
  <2>1. flush'.fresh = flush.fresh /\ flush.stage = "keys" /\ flush'.stage = "insert"
    BY <1>3, Facts DEF InsertEvents, FlushRecord
  <2> QED
    BY <1>3, <2>1, KeyQuiet DEF InsertEvents, store, history
<1> QED
  BY <1>1, <1>2, <1>3

LEMMA FreshRows ==
  ASSUME Base
  PROVE  \A e \in Event : WithFresh[e] = IF e \in flush.fresh THEN rows[e] + 1 ELSE rows[e]
  BY Facts DEF WithFresh

LEMMA StoredFlush ==
  ASSUME Base, Stored
  PROVE  (flush'.stage = "commit" /\ flush'.fresh = flush.fresh)
         \/ (flush'.stage = "none" /\ flush'.fresh = {})
<1>1. flush' = [flush EXCEPT !.stage = "commit"] \/ flush' = NoFlush
  BY DEF Stored
<1> QED
  BY <1>1, Facts, NothingTyped DEF FlushRecord

LEMMA KeyInserts == Base /\ KeyInv /\ (NothingNew \/ InsertDone \/ InsertFails) => KeyInv'
<1> SUFFICES ASSUME Base, KeyInv, NothingNew \/ InsertDone \/ InsertFails PROVE KeyInv'
  OBVIOUS
<1>0. flush.fresh \subseteq Event /\ rows \in [Event -> Nat]
  BY Facts DEF FlushRecord
<1>1. CASE NothingNew
  <2>1. UNCHANGED <<keys, rows, unsure, stale>> /\ flush.fresh = {} /\ Stored
    BY <1>1 DEF NothingNew, store, history
  <2> QED
    BY <2>1, StoredFlush DEF KeyInv, StoredOnce, StoredHasKey, FreshSound, KeyMeansStored
<1>2. CASE InsertDone
  <2>1. UNCHANGED <<keys, unsure, stale>> /\ Stored /\ flush.stage = "insert"
        /\ rows' = WithFresh
    BY <1>2 DEF InsertDone, history
  <2>2. \A e \in Event : rows'[e] = IF e \in flush.fresh THEN rows[e] + 1 ELSE rows[e]
    BY <2>1, FreshRows
  <2>3. \A e \in flush.fresh : e \in keys /\ (rows[e] > 0 => e \in unsure)
    BY <2>1 DEF KeyInv, FreshSound
  <2>4. StoredOnce' /\ StoredHasKey'
    BY <1>0, <2>1, <2>2, <2>3 DEF KeyInv, StoredOnce, StoredHasKey
  <2>5. \A e \in flush.fresh : rows'[e] > 0
    BY <1>0, <2>2
  <2>6. \A e \in Event : rows[e] > 0 => rows'[e] > 0
    BY <1>0, <2>2
  <2>7. keys \subseteq Event
    BY Facts
  <2> QED
    BY <2>1, <2>4, <2>5, <2>6, <2>7, StoredFlush DEF KeyInv, FreshSound, KeyMeansStored
<1>3. CASE InsertFails
  <2>1. flush'.fresh = flush.fresh /\ flush.stage = "insert" /\ flush'.stage \in {"retryable", "unretryable"}
    BY <1>3, Facts DEF InsertFails, FlushRecord
  <2>2. UNCHANGED <<keys, stale>>
    BY <1>3 DEF InsertFails
  <2>3. CASE UNCHANGED <<rows, unsure>>
    BY <2>1, <2>2, <2>3, KeyQuiet
  <2>4. CASE rows' = WithFresh /\ unsure' = unsure \cup flush.fresh
    <3>1. \A e \in Event : rows'[e] = IF e \in flush.fresh THEN rows[e] + 1 ELSE rows[e]
      BY <2>4, FreshRows
    <3>2. \A e \in flush.fresh : e \in keys
      BY <2>1 DEF KeyInv, FreshSound
    <3>3. keys \subseteq Event
      BY Facts
    <3>4. \A e \in Event : rows[e] > 0 => rows'[e] > 0
      BY <1>0, <3>1
    <3> QED
      BY <2>1, <2>2, <2>4, <3>1, <3>2, <3>3, <3>4
      DEF KeyInv, StoredOnce, StoredHasKey, FreshSound, KeyMeansStored
  <2> QED
    BY <1>3, <2>3, <2>4 DEF InsertFails
<1> QED
  BY <1>1, <1>2, <1>3

LEMMA KeyReleases == Base /\ KeyInv /\ ReleaseKeys => KeyInv'
<1> SUFFICES ASSUME Base, KeyInv, ReleaseKeys PROVE KeyInv'
  OBVIOUS
<1>1. PICK left \in SUBSET flush.fresh :
        /\ keys' = keys \ (flush.fresh \ left)
        /\ stale' = stale \cup {e \in left : rows[e] = 0}
        /\ flush' = NoFlush
        /\ UNCHANGED <<rows, unsure>>
  BY DEF ReleaseKeys
<1>2. flush.stage \notin {"none", "commit"}
  BY DEF ReleaseKeys
<1>3. \A e \in flush.fresh : e \in Event /\ (rows[e] > 0 => e \in unsure) /\ rows[e] \in Nat
  BY <1>2, Facts DEF KeyInv, FreshSound, FlushRecord
<1> QED
  BY <1>1, <1>3, NothingTyped DEF KeyInv, StoredOnce, StoredHasKey, FreshSound, KeyMeansStored

(* A commit asked for by a flush is under way only while that flush waits  *)
(* for it, and there is one at most.                                       *)
FlushCommits ==
  /\ \A i, j \in DOMAIN commits : commits[i].by = "flush" /\ commits[j].by = "flush" => i = j
  /\ \A i \in DOMAIN commits : commits[i].by = "flush" => flush.stage = "commit"

LEMMA CommitsQuiet ==
  ASSUME FlushCommits, UNCHANGED commits,
         flush' = flush \/ flush.stage # "commit"
  PROVE  FlushCommits'
  BY DEF FlushCommits

LEMMA CommitsAsked ==
  ASSUME Base, FlushCommits, NEW by \in {"flush", "handler"}, NEW n,
         commits' = Append(commits, [by |-> by, offset |-> n]),
         by = "flush" => flush.stage # "commit" /\ flush'.stage = "commit",
         by # "flush" => flush' = flush
  PROVE  FlushCommits'
<1>1. commits \in Seq(Commit)
  BY Facts
<1>2. DOMAIN commits' = 1..Len(commits) + 1 /\ DOMAIN commits = 1..Len(commits) /\ Len(commits) \in Nat
  BY <1>1
<1>3. \A i \in 1..Len(commits) : commits'[i] = commits[i]
  BY <1>1
<1>4. commits'[Len(commits) + 1].by = by
  BY <1>1
<1> QED
  BY <1>2, <1>3, <1>4 DEF FlushCommits

LEMMA CommitsAfter ==
  ASSUME Base, FlushCommits, commits # <<>>, After(Head(commits))
  PROVE  FlushCommits'
<1>1. commits \in Seq(Commit) /\ Head(commits) = commits[1]
  BY Facts
<1>2. commits' = Tail(commits)
  BY DEF After
<1>3. DOMAIN commits = 1..Len(commits) /\ DOMAIN commits' = 1..Len(commits) - 1 /\ Len(commits) \in Nat
      /\ Len(commits) > 0
  BY <1>1, <1>2
<1>4. \A i \in DOMAIN commits' : commits'[i] = commits[i + 1]
  BY <1>1, <1>2
<1>5. \A i \in DOMAIN commits' : i \in Nat /\ i >= 1 /\ i + 1 \in DOMAIN commits
  BY <1>3
<1>6. \A i, j \in DOMAIN commits' : commits'[i].by = "flush" /\ commits'[j].by = "flush" => i = j
  BY <1>4, <1>5 DEF FlushCommits
<1>7. CASE commits[1].by = "flush"
  <2>1. ASSUME NEW i \in DOMAIN commits', commits'[i].by = "flush" PROVE FALSE
    <3>1. i + 1 = 1
      BY <1>3, <1>4, <1>5, <1>7, <2>1 DEF FlushCommits
    <3> QED
      BY <3>1, <1>5
  <2> QED
    BY <1>6, <2>1 DEF FlushCommits
<1>8. CASE commits[1].by # "flush"
  <2>1. flush' = flush
    BY <1>1, <1>8 DEF After
  <2> QED
    BY <1>4, <1>5, <1>6, <2>1 DEF FlushCommits
<1> QED
  BY <1>7, <1>8

LEMMA CommitsStored ==
  ASSUME Base, FlushCommits, Stored, flush.stage # "commit"
  PROVE  FlushCommits'
<1> DEFINE p == Mark(Members(flush.batch), flush.batch[1])
<1>1. CASE commits' = Append(commits, [by |-> "flush", offset |-> p.next])
           /\ flush' = [flush EXCEPT !.stage = "commit"]
  <2>1. flush'.stage = "commit"
    BY <1>1, Facts DEF FlushRecord
  <2> HIDE DEF p
  <2> QED
    BY <1>1, <2>1, CommitsAsked
<1>2. CASE UNCHANGED commits
  BY <1>2, CommitsQuiet
<1> QED
  BY <1>1, <1>2 DEF Stored, Ask

LEMMA CommitsStep ==
  Base /\ FlushCommits /\ IngestionStep => FlushCommits'
<1> SUFFICES ASSUME Base, FlushCommits, IngestionStep
             PROVE  FlushCommits'
  OBVIOUS
<1>1. CASE UNCHANGED <<log, ingestionVars>> \/ Appends
  <2>1. UNCHANGED <<commits, flush>>
    BY <1>1 DEF Appends, ingestionVars, memory
  <2> QED
    BY <2>1, CommitsQuiet
<1>2. CASE Handling
  <2>1. CASE Consume \/ CompletionFails \/ CompletionRejects
    <3>1. UNCHANGED commits /\ (flush' = flush \/ flush.stage = "none")
      BY <2>1 DEF Consume, CompletionFails, CompletionRejects, StartFlush
    <3> QED
      BY <3>1, CommitsQuiet
  <2>2. CASE LogDirty
    <3> DEFINE p == Mark({handler.offset}, handler.offset)
    <3>1. UNCHANGED flush
      BY <2>2 DEF LogDirty
    <3>2. UNCHANGED commits \/ commits' = Append(commits, [by |-> "handler", offset |-> p.next])
      BY <2>2 DEF LogDirty, Ask
    <3> HIDE DEF p
    <3> QED
      BY <3>1, <3>2, CommitsQuiet, CommitsAsked
  <2> QED
    BY <1>2, <2>1, <2>2 DEF Handling
<1>3. CASE Flushing
  <2>1. CASE TimerFlush \/ ClaimKey \/ InsertEvents \/ KeyFails \/ InsertFails \/ ReleaseKeys
    <3>1. UNCHANGED commits /\ (flush' = flush \/ flush.stage # "commit")
      BY <2>1 DEF TimerFlush, ClaimKey, InsertEvents, KeyFails, InsertFails, ReleaseKeys, StartFlush
    <3> QED
      BY <3>1, CommitsQuiet
  <2>2. CASE NothingNew \/ InsertDone
    <3>1. Stored /\ flush.stage # "commit"
      BY <2>2 DEF NothingNew, InsertDone
    <3> QED
      BY <3>1, CommitsStored
  <2>3. CASE Committed \/ CommitFails
    BY <2>3, CommitsAfter DEF Committed, CommitFails
  <2> QED
    BY <1>3, <2>1, <2>2, <2>3 DEF Flushing
<1>4. CASE Stopping
  <2>1. CASE Rejoin \/ Shutdown \/ LastFlush \/ Restart
    <3>1. UNCHANGED commits /\ (flush' = flush \/ flush.stage # "commit")
      BY <2>1 DEF Rejoin, Shutdown, LastFlush, Restart, StartFlush, memory
    <3> QED
      BY <3>1, CommitsQuiet
  <2>2. CASE Exit \/ Crash
    <3>1. commits' = <<>>
      BY <2>2 DEF Exit, Crash, Forget
    <3> QED
      BY <3>1 DEF FlushCommits
  <2> QED
    BY <1>4, <2>1, <2>2 DEF Stopping
<1> QED
  BY <1>1, <1>2, <1>3, <1>4 DEF IngestionStep, IngestionNext

LEMMA KeyCommits == Base /\ KeyInv /\ FlushCommits /\ (Committed \/ CommitFails) => KeyInv'
<1> SUFFICES ASSUME Base, KeyInv, FlushCommits, Committed \/ CommitFails PROVE KeyInv'
  OBVIOUS
<1>1. UNCHANGED <<keys, rows, unsure, stale>> /\ After(Head(commits)) /\ commits # <<>>
  BY DEF Committed, CommitFails, store, history
<1>2. CASE Head(commits).by = "flush"
  <2>1. 1 \in DOMAIN commits /\ Head(commits) = commits[1]
    BY <1>1, Facts
  <2>2. flush.stage = "commit"
    BY <1>2, <2>1 DEF FlushCommits
  <2>3. \A e \in flush.fresh : rows[e] > 0
    BY <2>2 DEF KeyInv, FreshSound
  <2>4. flush'.fresh = {}
    BY <1>1, <1>2, NothingTyped DEF After
  <2> QED
    BY <1>1, <2>3, <2>4, KeyQuiet
<1>3. CASE Head(commits).by # "flush"
  BY <1>1, <1>3, KeyQuiet DEF After
<1> QED
  BY <1>2, <1>3

LEMMA KeyStops ==
  Base /\ KeyInv /\ (Rejoin \/ Shutdown \/ Exit \/ Crash \/ Restart) => KeyInv'
<1> SUFFICES ASSUME Base, KeyInv, Rejoin \/ Shutdown \/ Exit \/ Crash \/ Restart PROVE KeyInv'
  OBVIOUS
<1>1. CASE Rejoin \/ Shutdown \/ Restart
  BY <1>1, KeyQuiet DEF Rejoin, Shutdown, Restart, store, memory, history
<1>2. CASE Exit
  <2>1. flush.fresh = {}
    BY <1>2 DEF Exit, KeyInv, FreshSound
  <2>2. flush'.fresh = {} /\ UNCHANGED <<keys, rows, unsure, stale>>
    BY <1>2, NothingTyped DEF Exit, Forget
  <2> QED
    BY <2>1, <2>2, KeyQuiet
<1>3. CASE Crash
  <2>1. flush'.fresh = {} /\ UNCHANGED <<keys, rows, unsure>>
        /\ stale' = stale \cup {e \in flush.fresh : rows[e] = 0}
    BY <1>3, NothingTyped DEF Crash, Forget
  <2>2. \A e \in flush.fresh : rows[e] \in Nat
    BY Facts DEF FlushRecord
  <2>3. \A e \in flush.fresh : rows[e] > 0 \/ e \in stale'
    BY <2>1, <2>2
  <2> QED
    BY <2>1, <2>3, KeyQuiet
<1> QED
  BY <1>1, <1>2, <1>3

LEMMA KeyStep ==
  Base /\ KeyInv /\ FlushCommits /\ IngestionStep => KeyInv'
<1> SUFFICES ASSUME Base, KeyInv, FlushCommits, IngestionStep
             PROVE  KeyInv'
  OBVIOUS
<1>1. CASE UNCHANGED <<log, ingestionVars>> \/ Appends
  BY <1>1, KeyQuiet DEF Appends, ingestionVars, store, memory, history
<1>2. CASE CompletionFails \/ CompletionRejects \/ LogDirty
  BY <1>2, KeyQuiet DEF CompletionFails, CompletionRejects, LogDirty, store, history
<1> QED
  BY <1>1, <1>2, KeyFlushes, KeyClaims, KeyInserts, KeyReleases, KeyCommits, KeyStops
  DEF IngestionStep, IngestionNext, Handling, Flushing, Stopping

LEMMA CommitsInit == IngestionInit => FlushCommits
  BY DEF IngestionInit, FlushCommits

LEMMA KeyAlways == IngestionSpec => []KeyInv
<1> DEFINE I == Base /\ KeyInv /\ FlushCommits
<1>1. IngestionInit /\ log = <<>> /\ faults = 0 => I
  BY BaseInit, KeyInit, CommitsInit
<1>2. I /\ [IngestionNext \/ Produce]_<<log, faults, ingestionVars>> => I'
  BY StepIs, TypeStep, KeyStep, CommitsStep
<1>3. I => KeyInv
  OBVIOUS
<1> QED
  BY <1>1, <1>2, <1>3, PTL DEF IngestionSpec, IngestionStart

(* However often an event is in the log, and whatever fails between, it is *)
(* stored once, unless an insert reported as failed took effect.           *)
THEOREM StoredAtMostOnce == IngestionSpec => []StoredOnce
<1>1. KeyInv => StoredOnce
  BY DEF KeyInv
<1> QED
  BY <1>1, KeyAlways, PTL

(* A de-duplication key always stands for a stored event or for one that   *)
(* the flush under way will store or release, but for those left behind.   *)
THEOREM KeysTell == IngestionSpec => []KeyMeansStored
<1>1. KeyInv => KeyMeansStored
  BY DEF KeyInv
<1> QED
  BY <1>1, KeyAlways, PTL

-----------------------------------------------------------------------------
(* What is consumed is settled.  An offset is settled when its event is    *)
(* stored, or known to be given up; the prefix that is committed is made of*)
(* settled offsets only, from its beginning on.                            *)
Settled(o) ==
  \/ rows[log[o]] > 0
  \/ o \in dirty \cup missed \/ log[o] \in stale
  \/ \E d \in began : o < d

SettledBelow(n) == n <= Len(log) + 1 /\ \A o \in 1..n - 1 : Settled(o)

(* What is committed, asked to be committed, or completed.                 *)
OffsetsSettle ==
  /\ SettledBelow(groupOffset) /\ SettledBelow(progress.next)
  /\ \A i \in DOMAIN commits : SettledBelow(commits[i].offset)
  /\ \A o \in progress.completed : o \in 1..Len(log) /\ Settled(o)

(* Before anything is completed, the first offset held begins the prefix.  *)
BeginningSettles ==
  /\ progress.next = 0 => commits = <<>>
  /\ progress.next = 0 /\ flush.batch # <<>> => SettledBelow(flush.batch[1])
  /\ progress.next = 0 /\ flush.batch = <<>> /\ buffer # <<>> => SettledBelow(buffer[1])
  /\ flush.stage = "none" => flush.batch = <<>>

(* A running process holds what it has fetched until it is settled.        *)
Holds(o) ==
  \/ o \in Members(buffer) \cup Members(flush.batch)
  \/ handler.stage = "log" /\ o = handler.offset

Consumed(n) == n <= Len(log) + 1 /\ \A o \in 1..n - 1 : Holds(o) \/ Settled(o)

ConsumedSettle ==
  /\ service # "down" => Consumed(position)
  /\ handler.stage = "flush" => service # "down" /\ Consumed(handler.offset)

(* The events of a batch have their keys before they are inserted, and are *)
(* settled when it is committed.                                           *)
ClaimsKept ==
  /\ flush.stage \in {"keys", "insert"} =>
       \A i \in DOMAIN flush.batch : i < flush.at => log[flush.batch[i]] \in keys
  /\ flush.stage = "insert" => flush.at > Len(flush.batch)
  /\ flush.stage = "commit" => \A o \in Members(flush.batch) : Settled(o)

Settling == OffsetsSettle /\ BeginningSettles /\ ConsumedSettle /\ ClaimsKept

(* No step takes back what makes an offset settled.                        *)
HistoryGrows ==
  /\ Len(log) <= Len(log') /\ \A o \in 1..Len(log) : log'[o] = log[o]
  /\ \A e \in Event : rows[e] > 0 => rows'[e] > 0
  /\ dirty \subseteq dirty' /\ missed \subseteq missed' /\ stale \subseteq stale' /\ began \subseteq began'

LEMMA EveryStepGrows == Base /\ IngestionStep => HistoryGrows
<1> SUFFICES ASSUME Base, IngestionStep PROVE HistoryGrows
  OBVIOUS
<1>1. Len(log) \in Nat /\ rows \in [Event -> Nat] /\ flush.fresh \subseteq Event
  BY Facts DEF FlushRecord
<1>2. CASE UNCHANGED <<log, ingestionVars>>
  BY <1>1, <1>2 DEF HistoryGrows, ingestionVars, store, history
<1>3. CASE Appends
  BY <1>1, <1>3, LogGrows DEF Appends, HistoryGrows, ingestionVars, store, history
<1>4. CASE Handling
  BY <1>1, <1>4
  DEF Handling, Consume, CompletionFails, CompletionRejects, LogDirty, Redeliver, HistoryGrows, store, history
<1>5. CASE Flushing
  <2>1. CASE InsertDone \/ InsertFails
    <3>1. \A e \in Event : rows[e] > 0 => rows'[e] > 0
      BY <1>1, <2>1, FreshRows DEF InsertDone, InsertFails
    <3> QED
      BY <1>1, <2>1, <3>1 DEF InsertDone, InsertFails, HistoryGrows, history
  <2>2. CASE ReleaseKeys
    <3>1. missed \subseteq missed'
      BY <2>2 DEF ReleaseKeys, FlushThrows, Redeliver
    <3> QED
      BY <1>1, <2>2, <3>1 DEF ReleaseKeys, HistoryGrows
  <2>3. CASE TimerFlush \/ ClaimKey \/ InsertEvents \/ NothingNew \/ KeyFails \/ Committed \/ CommitFails
    BY <1>1, <2>3 DEF TimerFlush, ClaimKey, InsertEvents, NothingNew, KeyFails, Committed, CommitFails,
                      HistoryGrows, store, history
  <2> QED
    BY <1>5, <2>1, <2>2, <2>3 DEF Flushing
<1>6. CASE Stopping
  BY <1>1, <1>6 DEF Stopping, Rejoin, Shutdown, LastFlush, Exit, Crash, Restart, Forget, HistoryGrows,
                    store, history
<1> QED
  BY <1>2, <1>3, <1>4, <1>5, <1>6 DEF IngestionStep, IngestionNext

LEMMA SettledStays ==
  ASSUME Base, Base', HistoryGrows
  PROVE  /\ \A o \in 1..Len(log) : Settled(o) => Settled(o)'
         /\ \A n \in Committable : SettledBelow(n) => SettledBelow(n)'
<1>1. Len(log) \in Nat /\ \A o \in 1..Len(log) : log[o] \in Event
  BY Facts
<1>2. ASSUME NEW o \in 1..Len(log), Settled(o) PROVE Settled(o)'
  BY <1>1, <1>2 DEF HistoryGrows, Settled
<1>3. ASSUME NEW n \in Committable, SettledBelow(n) PROVE SettledBelow(n)'
  <2>1. n \in Nat /\ n <= Len(log) + 1 /\ n <= Len(log') + 1
    <3>1. n \in Nat /\ n <= Len(log) + 1
      BY <1>3, Numbers DEF Committable, SettledBelow
    <3>2. Len(log) <= Len(log') /\ Len(log') \in Nat
      BY DEF HistoryGrows, Base, LogTyped
    <3> QED
      BY <1>1, <3>1, <3>2
  <2>2. \A o \in 1..n - 1 : o \in 1..Len(log) /\ Settled(o)
    BY <1>1, <1>3, <2>1 DEF SettledBelow
  <2> QED
    BY <1>2, <2>1, <2>2 DEF SettledBelow
<1> QED
  BY <1>2, <1>3

(* The end of the prefix that markOffsetCompleted finds for settled offsets*)
LEMMA MarkSettles ==
  ASSUME Base, Base', HistoryGrows, OffsetsSettle,
         NEW S \in SUBSET (1..Len(log)), NEW first \in 1..Len(log),
         \A o \in S : Settled(o)',
         progress.next = 0 => \A o \in 1..first - 1 : Settled(o)',
         progress' = Mark(S, first)
  PROVE  /\ SettledBelow(progress.next)' /\ progress'.next > 0
         /\ \A o \in progress'.completed : o \in 1..Len(log') /\ Settled(o)'
<1>1. /\ 1..Len(log) \subseteq Offset /\ Len(log) \in Nat /\ progress \in Progress
      /\ 1..Len(log) \subseteq 1..Len(log') /\ Len(log') \in Nat /\ Len(log) <= Len(log')
  <2>1. Len(log) \in Nat /\ Len(log') \in Nat /\ Len(log) <= Len(log')
    BY DEF HistoryGrows, Base, LogTyped
  <2> QED
    BY <2>1, Facts
<1>2. /\ progress'.next \in Nat /\ progress'.next > 0 /\ progress'.next >= StartOf(first)
      /\ StartOf(first)..(progress'.next - 1) \subseteq DoneOf(S, first)
      /\ progress'.completed \subseteq DoneOf(S, first)
  <2>1. S \in SUBSET Offset /\ first \in Offset
    BY <1>1
  <2>2. Mark(S, first).next \in Nat
    <3>1. Mark(S, first) \in Progress
      BY <1>1, <2>1, Marks
    <3> QED
      BY <3>1, Numbers DEF Progress, Committable
  <2> QED
    BY <1>1, <2>1, <2>2, Marks
<1>3. ASSUME NEW o \in DoneOf(S, first) PROVE o \in 1..Len(log) /\ Settled(o)'
  <2>1. CASE o \in progress.completed
    <3>1. o \in 1..Len(log) /\ Settled(o)
      BY <2>1 DEF OffsetsSettle
    <3> QED
      BY <3>1, SettledStays
  <2>2. CASE o \in S
    BY <2>2
  <2> QED
    BY <2>1, <2>2 DEF DoneOf
<1>4. /\ StartOf(first) \in Nat /\ StartOf(first) <= Len(log) + 1
      /\ \A o \in 1..StartOf(first) - 1 : o \in 1..Len(log) /\ Settled(o)'
  <2>1. CASE progress.next = 0
    <3>1. StartOf(first) = first
      BY <2>1 DEF StartOf
    <3> QED
      BY <1>1, <2>1, <3>1
  <2>2. CASE progress.next # 0
    <3>1. StartOf(first) = progress.next /\ progress.next \in Nat /\ SettledBelow(progress.next)
      BY <1>1, <2>2, Numbers DEF StartOf, OffsetsSettle, Progress, Committable
    <3>2. progress.next <= Len(log) + 1 /\ \A o \in 1..progress.next - 1 : Settled(o)
      BY <3>1 DEF SettledBelow
    <3> QED
      BY <1>1, <3>1, <3>2, SettledStays
  <2> QED
    BY <2>1, <2>2
<1>5. ASSUME NEW o \in 1..progress'.next - 1 PROVE o \in 1..Len(log) /\ Settled(o)'
  <2>1. CASE o < StartOf(first)
    BY <1>2, <1>4, <2>1
  <2>2. CASE o >= StartOf(first)
    <3>1. o \in StartOf(first)..(progress'.next - 1)
      BY <1>2, <1>4, <2>2
    <3> QED
      BY <1>2, <1>3, <3>1
  <2> QED
    BY <1>2, <1>4, <2>1, <2>2
<1>6. progress'.next <= Len(log') + 1
  <2>1. CASE progress'.next = 1
    BY <1>1, <2>1
  <2>2. CASE progress'.next > 1
    <3>1. progress'.next - 1 \in 1..Len(log)
      BY <1>2, <1>5, <2>2
    <3> QED
      BY <1>1, <1>2, <3>1
  <2> QED
    BY <1>2, <2>1, <2>2
<1>7. SettledBelow(progress.next)'
  BY <1>5, <1>6 DEF SettledBelow
<1> QED
  BY <1>1, <1>2, <1>3, <1>7

(* The steps that complete nothing.                                        *)
LEMMA OffsetsKeep ==
  ASSUME Base, Base', HistoryGrows, OffsetsSettle,
         \/ UNCHANGED groupOffset
         \/ commits # <<>> /\ groupOffset' = Head(commits).offset,
         \/ progress'.next = progress.next /\ progress'.completed = progress.completed
         \/ progress' = NoProgress,
         commits' = commits \/ (commits # <<>> /\ commits' = Tail(commits)) \/ commits' = <<>>
  PROVE  OffsetsSettle'
<1> DEFINE Good == {n \in Committable : SettledBelow(n)'}
<1>1. /\ groupOffset \in Committable /\ progress.next \in Committable
      /\ groupOffset' \in Committable /\ progress'.next \in Committable
  BY Facts DEF Base, IngestionTypeOK, Progress
<1>2. commits \in Seq(Commit) /\ DOMAIN commits = 1..Len(commits) /\ Len(commits) \in Nat
  BY Facts
<1>3. ASSUME NEW i \in DOMAIN commits PROVE commits[i].offset \in Committable
  <2>1. commits[i] \in Commit
    BY <1>2
  <2> QED
    BY <2>1 DEF Commit
<1>4. \A n \in Committable : SettledBelow(n) => n \in Good
  BY SettledStays
<1>5. 0 \in Good
  <2>1. 0 \in Committable /\ Len(log) \in Nat
    BY Numbers, Facts DEF Committable
  <2>2. SettledBelow(0)
    BY <2>1 DEF SettledBelow
  <2> QED
    BY <1>4, <2>1, <2>2
<1>6. groupOffset \in Good /\ progress.next \in Good
  BY <1>1, <1>4 DEF OffsetsSettle
<1>7. ASSUME NEW i \in DOMAIN commits PROVE commits[i].offset \in Good
  BY <1>3, <1>4 DEF OffsetsSettle
<1>8. ASSUME NEW o \in progress.completed PROVE o \in 1..Len(log') /\ Settled(o)'
  <2>1. o \in 1..Len(log) /\ Settled(o)
    BY DEF OffsetsSettle
  <2>2. Len(log) \in Nat /\ Len(log') \in Nat /\ Len(log) <= Len(log')
    BY DEF HistoryGrows, Base, LogTyped
  <2> QED
    BY <2>1, <2>2, SettledStays
<1> HIDE DEF Good
<1>9. groupOffset' \in Good
  <2>1. CASE commits # <<>> /\ groupOffset' = Head(commits).offset
    <3>1. 1 \in DOMAIN commits /\ Head(commits) = commits[1]
      BY <1>2, <2>1
    <3> QED
      BY <1>7, <2>1, <3>1
  <2> QED
    BY <1>6, <2>1
<1>10. progress'.next \in Good
  BY <1>5, <1>6, NothingTyped
<1>11. ASSUME NEW i \in DOMAIN commits' PROVE commits'[i].offset \in Good
  <2>1. CASE commits' = commits
    BY <1>7, <2>1
  <2>2. CASE commits # <<>> /\ commits' = Tail(commits)
    <3>1. i + 1 \in DOMAIN commits /\ commits'[i] = commits[i + 1]
      BY <1>2, <2>2, TailIs
    <3> QED
      BY <1>7, <3>1
  <2>3. CASE commits' = <<>>
    BY <2>3
  <2> QED
    BY <2>1, <2>2, <2>3
<1>12. ASSUME NEW o \in progress'.completed PROVE o \in 1..Len(log') /\ Settled(o)'
  BY <1>8, NothingTyped
<1> QED
  BY <1>9, <1>10, <1>11, <1>12 DEF Good, OffsetsSettle

(* The steps that complete offsets, and may ask for a commit.              *)
LEMMA OffsetsMark ==
  ASSUME Base, Base', HistoryGrows, OffsetsSettle, UNCHANGED groupOffset,
         NEW S \in SUBSET (1..Len(log)), NEW first \in 1..Len(log),
         \A o \in S : Settled(o)',
         progress.next = 0 => \A o \in 1..first - 1 : Settled(o)',
         progress' = Mark(S, first),
         \/ UNCHANGED commits
         \/ \E by : commits' = Append(commits, [by |-> by, offset |-> progress'.next])
  PROVE  OffsetsSettle' /\ progress'.next > 0
<1> DEFINE Good == {n \in Committable : SettledBelow(n)'}
<1>1. groupOffset \in Committable /\ groupOffset' \in Committable /\ progress'.next \in Committable
  BY Facts DEF Base, IngestionTypeOK, Progress
<1>2. commits \in Seq(Commit) /\ DOMAIN commits = 1..Len(commits) /\ Len(commits) \in Nat
  BY Facts
<1>3. \A n \in Committable : SettledBelow(n) => n \in Good
  BY SettledStays
<1>4. /\ SettledBelow(progress.next)' /\ progress'.next > 0
      /\ \A o \in progress'.completed : o \in 1..Len(log') /\ Settled(o)'
  BY MarkSettles
<1>5. progress'.next \in Good
  BY <1>1, <1>4
<1>6. groupOffset' \in Good
  BY <1>1, <1>3 DEF OffsetsSettle
<1>7. ASSUME NEW i \in DOMAIN commits PROVE commits[i].offset \in Good
  <2>1. commits[i].offset \in Committable
    <3>1. commits[i] \in Commit
      BY <1>2
    <3> QED
      BY <3>1 DEF Commit
  <2> QED
    BY <1>3, <2>1 DEF OffsetsSettle
<1> HIDE DEF Good
<1>8. ASSUME NEW i \in DOMAIN commits' PROVE commits'[i].offset \in Good
  <2>1. CASE UNCHANGED commits
    BY <1>7, <2>1
  <2>2. ASSUME NEW by, commits' = Append(commits, [by |-> by, offset |-> progress'.next])
        PROVE  commits'[i].offset \in Good
    <3> DEFINE c == [by |-> by, offset |-> progress'.next]
    <3>1. c.offset \in Good /\ commits' = Append(commits, c)
      BY <1>5, <2>2
    <3> HIDE DEF c
    <3>2. /\ DOMAIN Append(commits, c) = 1..Len(commits) + 1
          /\ \A j \in DOMAIN commits : Append(commits, c)[j] = commits[j]
          /\ Append(commits, c)[Len(commits) + 1] = c
      BY <1>2, AppendIs
    <3>3. i \in DOMAIN commits \/ i = Len(commits) + 1
      <4>1. i \in 1..Len(commits) + 1
        BY <3>1, <3>2, Zenon
      <4> QED
        BY <1>2, <4>1
    <3> QED
      BY <1>7, <3>1, <3>2, <3>3
  <2> QED
    BY <2>1, <2>2
<1> QED
  BY <1>4, <1>5, <1>6, <1>8 DEF Good, OffsetsSettle

LEMMA BatchFacts ==
  ASSUME Base
  PROVE  /\ flush.batch \in Seq(Offset) /\ DOMAIN flush.batch = 1..Len(flush.batch) /\ Len(flush.batch) \in Nat
         /\ flush.at \in Nat /\ flush.stage \in FlushStage /\ flush.fresh \subseteq Event
         /\ \A i \in DOMAIN flush.batch : flush.batch[i] \in Members(flush.batch)
         /\ \A o \in Members(flush.batch) : o \in 1..Len(log) /\ log[o] \in Event
<1>1. flush \in FlushRecord
  BY Facts
<1>2. \A o \in Members(flush.batch) : o \in 1..Len(log)
  BY DEF Base, HeldTyped
<1> QED
  BY <1>1, <1>2, Facts DEF FlushRecord, Members

(* All of a batch is settled once its new events are inserted.             *)
LEMMA BatchSettles ==
  ASSUME Base, KeyInv, ClaimsKept, NothingNew \/ InsertDone
  PROVE  \A o \in Members(flush.batch) : Settled(o)'
<1> SUFFICES ASSUME NEW o \in Members(flush.batch) PROVE Settled(o)'
  OBVIOUS
<1>1. PICK i \in DOMAIN flush.batch : o = flush.batch[i]
  BY DEF Members
<1>2. i < flush.at /\ flush.stage \in {"keys", "insert"}
  <2>1. flush.at > Len(flush.batch) /\ flush.stage \in {"keys", "insert"}
    BY DEF NothingNew, InsertDone, ClaimsKept
  <2> QED
    BY <2>1, BatchFacts
<1>3. log[o] \in keys /\ log[o] \in Event
  BY <1>1, <1>2, BatchFacts DEF ClaimsKept
<1>4. rows[log[o]] > 0 \/ log[o] \in flush.fresh \/ log[o] \in stale
  BY <1>3 DEF KeyInv, KeyMeansStored
<1>5. CASE NothingNew
  BY <1>4, <1>5 DEF NothingNew, Settled, store, history
<1>6. CASE InsertDone
  <2>1. rows' = WithFresh /\ UNCHANGED <<log, stale>> /\ rows \in [Event -> Nat]
    BY <1>6, Facts DEF InsertDone, history
  <2>2. rows'[log[o]] = IF log[o] \in flush.fresh THEN rows[log[o]] + 1 ELSE rows[log[o]]
    BY <1>3, <2>1, FreshRows
  <2>3. rows[log[o]] \in Nat
    BY <1>3, <2>1
  <2> QED
    BY <1>4, <2>1, <2>2, <2>3 DEF Settled
<1> QED
  BY <1>5, <1>6

LEMMA ClaimsQuiet ==
  ASSUME Base, Base', HistoryGrows, ClaimsKept, keys \subseteq keys', UNCHANGED flush
  PROVE  ClaimsKept'
<1>1. ASSUME NEW i \in DOMAIN flush.batch PROVE log'[flush.batch[i]] = log[flush.batch[i]]
  BY BatchFacts DEF HistoryGrows
<1>2. ASSUME NEW o \in Members(flush.batch), Settled(o) PROVE Settled(o)'
  BY <1>2, BatchFacts, SettledStays
<1> QED
  BY <1>1, <1>2 DEF ClaimsKept

LEMMA ClaimsStarted ==
  ASSUME Base', NEW b, StartFlush(b), ~UNCHANGED flush
  PROVE  ClaimsKept' /\ flush.stage = "none" /\ b # <<>> /\ buffer' = <<>> /\ flush'.batch = b /\ flush'.stage = "keys"
<1>1. /\ flush.stage = "none" /\ b # <<>> /\ buffer' = <<>>
      /\ flush' = [stage |-> "keys", batch |-> b, at |-> 1, fresh |-> {}]
  BY DEF StartFlush, NoFlush
<1>2. flush'.stage = "keys" /\ flush'.at = 1 /\ flush'.batch = b
  BY <1>1
<1>3. \A i \in DOMAIN flush'.batch : ~(i < flush'.at)
  <2>1. DOMAIN flush'.batch = 1..Len(flush'.batch) /\ Len(flush'.batch) \in Nat
    BY DEF Base, IngestionTypeOK, FlushRecord
  <2> QED
    BY <1>2, <2>1
<1> QED
  BY <1>1, <1>2, <1>3 DEF ClaimsKept

LEMMA ClaimsStep ==
  ASSUME Base, Base', HistoryGrows, KeyInv, ClaimsKept, IngestionStep
  PROVE  ClaimsKept'
<1>1. CASE UNCHANGED <<log, ingestionVars>> \/ Appends \/ CompletionFails \/ CompletionRejects \/ LogDirty
           \/ Rejoin \/ Shutdown \/ Restart
  <2>1. UNCHANGED <<keys, flush>>
    BY <1>1 DEF Appends, CompletionFails, CompletionRejects, LogDirty, Rejoin, Shutdown, Restart,
                ingestionVars, store, memory
  <2> QED
    BY <2>1, ClaimsQuiet
<1>2. CASE Consume \/ TimerFlush \/ LastFlush
  <2>1. UNCHANGED keys /\ (UNCHANGED flush \/ \E b : StartFlush(b))
    BY <1>2 DEF Consume, TimerFlush, LastFlush, store
  <2> QED
    BY <2>1, ClaimsQuiet, ClaimsStarted
<1>3. CASE ClaimKey
  <2>1. /\ flush.stage = "keys" /\ Claimed \in keys' /\ keys \subseteq keys' /\ UNCHANGED log
        /\ flush'.stage = "keys" /\ flush'.at = flush.at + 1 /\ flush'.batch = flush.batch
    BY <1>3, Facts DEF ClaimKey, FlushRecord
  <2>2. ASSUME NEW i \in DOMAIN flush.batch, i < flush.at + 1 PROVE log[flush.batch[i]] \in keys'
    <3>1. CASE i < flush.at
      BY <2>1, <3>1 DEF ClaimsKept
    <3>2. CASE i = flush.at
      BY <2>1, <3>2 DEF Claimed
    <3> QED
      BY <2>2, <3>1, <3>2, BatchFacts
  <2> QED
    BY <2>1, <2>2 DEF ClaimsKept
<1>4. CASE InsertEvents
  <2>1. /\ flush.stage = "keys" /\ flush.at > Len(flush.batch) /\ UNCHANGED <<log, keys>>
        /\ flush'.stage = "insert" /\ flush'.at = flush.at /\ flush'.batch = flush.batch
    BY <1>4, Facts DEF InsertEvents, FlushRecord, store
  <2> QED
    BY <2>1 DEF ClaimsKept
<1>5. CASE NothingNew \/ InsertDone
  <2>1. \A o \in Members(flush.batch) : Settled(o)'
    BY <1>5, BatchSettles
  <2>2. flush' = [flush EXCEPT !.stage = "commit"] \/ flush' = NoFlush
    BY <1>5 DEF NothingNew, InsertDone, Stored
  <2>3. (flush'.stage = "commit" /\ flush'.batch = flush.batch) \/ flush'.stage = "none"
    BY <2>2, Facts, NothingTyped DEF FlushRecord
  <2> QED
    BY <2>1, <2>3 DEF ClaimsKept
<1>6. CASE KeyFails \/ InsertFails
  <2>1. flush'.stage \in {"retryable", "unretryable"}
    BY <1>6, Facts DEF KeyFails, InsertFails, FlushRecord
  <2> QED
    BY <2>1 DEF ClaimsKept
<1>7. CASE ReleaseKeys \/ Exit \/ Crash
  <2>1. flush' = NoFlush
    BY <1>7 DEF ReleaseKeys, Exit, Crash, Forget
  <2> QED
    BY <2>1, NothingTyped DEF ClaimsKept
<1>8. CASE Committed \/ CommitFails
  <2>1. UNCHANGED keys /\ (UNCHANGED flush \/ flush' = NoFlush)
    BY <1>8 DEF Committed, CommitFails, After, store
  <2>2. CASE flush' = NoFlush
    BY <2>2, NothingTyped DEF ClaimsKept
  <2> QED
    BY <2>1, <2>2, ClaimsQuiet
<1> QED
  BY <1>1, <1>2, <1>3, <1>4, <1>5, <1>6, <1>7, <1>8
  DEF IngestionStep, IngestionNext, Handling, Flushing, Stopping

LEMMA OffsetsLogDirty ==
  ASSUME Base, Base', HistoryGrows, OffsetsSettle, LogDirty
  PROVE  OffsetsSettle' /\ progress'.next > 0
<1> DEFINE o == handler.offset
<1>1. o \in 1..Len(log)
  BY DEF LogDirty, Base, HeldTyped
<1>2. /\ progress' = Mark({o}, o) /\ UNCHANGED <<log, groupOffset>> /\ o \in dirty'
      /\ progress.next = 0 => o \in began'
      /\ UNCHANGED commits \/ Ask(progress', "handler")
  BY DEF LogDirty, store
<1>3. \A n \in {o} : Settled(n)'
  BY <1>2 DEF Settled
<1>4. progress.next = 0 => \A n \in 1..o - 1 : Settled(n)'
  <2> SUFFICES ASSUME progress.next = 0, NEW n \in 1..o - 1 PROVE Settled(n)'
    OBVIOUS
  <2>1. n < o
    BY <1>1
  <2> QED
    BY <1>2, <2>1 DEF Settled
<1>5. UNCHANGED commits \/ \E by : commits' = Append(commits, [by |-> by, offset |-> progress'.next])
  BY <1>2 DEF Ask
<1>6. {o} \in SUBSET (1..Len(log))
  BY <1>1
<1> HIDE DEF o
<1> QED
  BY <1>1, <1>2, <1>3, <1>4, <1>5, <1>6, OffsetsMark

LEMMA OffsetsStored ==
  ASSUME Base, Base', HistoryGrows, KeyInv, Settling, NothingNew \/ InsertDone
  PROVE  OffsetsSettle' /\ progress'.next > 0
<1> DEFINE S == Members(flush.batch)
           first == flush.batch[1]
<1>1. Stored /\ UNCHANGED groupOffset /\ flush.stage \in {"keys", "insert"}
  BY DEF NothingNew, InsertDone, store
<1>2. flush.batch # <<>> /\ first \in S /\ S \subseteq 1..Len(log)
  BY <1>1, BatchFacts, FirstOf DEF Base, HeldTyped
<1>3. progress' = Mark(S, first) /\ (UNCHANGED commits \/ Ask(progress', "flush"))
  BY <1>1 DEF Stored
<1>4. \A o \in S : Settled(o)'
  BY BatchSettles DEF Settling
<1>5. progress.next = 0 => \A n \in 1..first - 1 : Settled(n)'
  <2> SUFFICES ASSUME progress.next = 0, NEW n \in 1..first - 1 PROVE Settled(n)'
    OBVIOUS
  <2>1. SettledBelow(first)
    BY <1>2 DEF Settling, BeginningSettles
  <2>2. first \in 1..Len(log) /\ Len(log) \in Nat
    BY <1>2, Facts
  <2> HIDE DEF first
  <2>3. Settled(n) /\ n \in 1..Len(log)
    BY <2>1, <2>2 DEF SettledBelow
  <2> QED
    BY <2>3, SettledStays
<1>6. UNCHANGED commits \/ \E by : commits' = Append(commits, [by |-> by, offset |-> progress'.next])
  BY <1>3 DEF Ask
<1>7. S \in SUBSET (1..Len(log)) /\ first \in 1..Len(log)
  BY <1>2
<1> HIDE DEF S, first
<1> QED
  BY <1>1, <1>3, <1>4, <1>5, <1>6, <1>7, OffsetsMark DEF Settling

LEMMA OffsetsStep ==
  ASSUME Base, Base', HistoryGrows, KeyInv, Settling, IngestionStep
  PROVE  OffsetsSettle'
<1>1. CASE UNCHANGED <<log, ingestionVars>> \/ Appends \/ Consume \/ CompletionFails \/ CompletionRejects
           \/ TimerFlush \/ ClaimKey \/ InsertEvents \/ KeyFails \/ InsertFails \/ ReleaseKeys
           \/ Rejoin \/ Shutdown \/ LastFlush \/ Restart
  <2>1. UNCHANGED <<groupOffset, progress, commits>>
    BY <1>1 DEF Appends, Consume, CompletionFails, CompletionRejects, TimerFlush, ClaimKey, InsertEvents,
                KeyFails, InsertFails, ReleaseKeys, Rejoin, Shutdown, LastFlush, Restart,
                ingestionVars, store, memory
  <2> QED
    BY <2>1, OffsetsKeep DEF Settling
<1>2. CASE Committed \/ CommitFails
  <2>1. commits # <<>> /\ commits' = Tail(commits)
    BY <1>2 DEF Committed, CommitFails, After
  <2>2. UNCHANGED groupOffset \/ groupOffset' = Head(commits).offset
    BY <1>2 DEF Committed, CommitFails, store
  <2>3. progress'.next = progress.next /\ progress'.completed = progress.completed
    BY <1>2, Facts DEF Committed, CommitFails, Progress
  <2> QED
    BY <2>1, <2>2, <2>3, OffsetsKeep DEF Settling
<1>3. CASE Exit \/ Crash
  <2>1. UNCHANGED groupOffset /\ progress' = NoProgress /\ commits' = <<>>
    BY <1>3 DEF Exit, Crash, Forget
  <2> QED
    BY <2>1, OffsetsKeep DEF Settling
<1> QED
  BY <1>1, <1>2, <1>3, OffsetsLogDirty, OffsetsStored
  DEF IngestionStep, IngestionNext, Handling, Flushing, Stopping, Settling

(* The first offset of a buffer that was empty.                            *)
LEMMA FirstConsumed ==
  ASSUME Base, Settling, Consume, progress.next = 0, flush.batch = <<>>
  PROVE  SettledBelow(Append(buffer, position)[1])
<1>1. buffer \in Seq(Offset) /\ position \in Nat /\ Len(log) \in Nat
  BY Facts
<1>2. CASE buffer = <<>>
  <2>1. Append(buffer, position)[1] = position
    BY <1>1, <1>2
  <2>2. service # "down" /\ handler.stage = "idle" /\ Members(buffer) = {} /\ Members(flush.batch) = {}
    BY <1>2, MembersOf DEF Consume
  <2>3. SettledBelow(position)
    BY <2>2 DEF Settling, ConsumedSettle, Consumed, Holds, SettledBelow
  <2> QED
    BY <2>1, <2>3
<1>3. CASE buffer # <<>>
  <2>1. Append(buffer, position)[1] = buffer[1]
    BY <1>1, <1>3
  <2> QED
    BY <1>3, <2>1 DEF Settling, BeginningSettles
<1> QED
  BY <1>2, <1>3

(* What is held, when the offset it begins with is settled below.          *)
LEMMA BeginningKeeps ==
  ASSUME Base, Base', HistoryGrows, BeginningSettles, UNCHANGED commits,
         progress'.next = progress.next, UNCHANGED <<flush, buffer>>
  PROVE  BeginningSettles'
<1>1. ASSUME NEW s \in Seq(Offset), s # <<>>, SettledBelow(s[1]) PROVE SettledBelow(s[1])'
  <2>1. PICK n \in Offset : n = s[1]
    BY <1>1, FirstOf
  <2>2. n \in Committable
    BY Numbers DEF Offset, Committable
  <2> QED
    BY <1>1, <2>1, <2>2, SettledStays
<1>2. flush.batch \in Seq(Offset) /\ buffer \in Seq(Offset)
  BY Facts, BatchFacts
<1>3. PICK b \in Seq(Offset), c \in Seq(Offset) : b = flush.batch /\ c = buffer
  BY <1>2
<1>4. b = flush'.batch /\ c = buffer'
  BY <1>3
<1>5. progress'.next = 0 /\ b # <<>> => SettledBelow(b[1])'
  BY <1>1, <1>3 DEF BeginningSettles
<1>6. progress'.next = 0 /\ b = <<>> /\ c # <<>> => SettledBelow(c[1])'
  BY <1>1, <1>3 DEF BeginningSettles
<1> QED
  BY <1>4, <1>5, <1>6 DEF BeginningSettles, SettledBelow

(* A flush begins with the buffer b.                                       *)
LEMMA BeginningFlush ==
  ASSUME Base, Base', HistoryGrows, BeginningSettles, UNCHANGED <<commits, progress>>,
         NEW b \in Seq(Offset), b # <<>>,
         StartFlush(b) \/ (buffer' = b /\ UNCHANGED flush),
         progress.next = 0 /\ flush.batch = <<>> => SettledBelow(b[1])
  PROVE  BeginningSettles'
<1>1. ASSUME NEW s \in Seq(Offset), s # <<>>, SettledBelow(s[1]) PROVE SettledBelow(s[1])'
  <2>1. PICK n \in Offset : n = s[1]
    BY <1>1, FirstOf
  <2>2. n \in Committable
    BY Numbers DEF Offset, Committable
  <2> QED
    BY <1>1, <2>1, <2>2, SettledStays
<1>2. progress.next = 0 /\ flush.batch = <<>> => SettledBelow(b[1])'
  BY <1>1
<1>3. CASE UNCHANGED flush
  <2>1. buffer' = b
    BY <1>3, NothingTyped DEF StartFlush, BeginningSettles, NoFlush
  <2>2. PICK c \in Seq(Offset) : c = flush.batch
    BY BatchFacts
  <2>3. progress.next = 0 /\ c # <<>> => SettledBelow(c[1])'
    BY <1>1, <2>2 DEF BeginningSettles
  <2>4. c = flush'.batch
    BY <1>3, <2>2
  <2> QED
    BY <1>2, <1>3, <2>1, <2>2, <2>3, <2>4 DEF BeginningSettles, SettledBelow
<1>4. CASE ~UNCHANGED flush
  <2>1. /\ flush.stage = "none" /\ buffer' = <<>> /\ flush'.batch = b /\ flush'.stage = "keys"
    BY <1>4, ClaimsStarted
  <2>2. flush.batch = <<>>
    BY <2>1 DEF BeginningSettles
  <2> QED
    BY <1>2, <2>1, <2>2 DEF BeginningSettles, SettledBelow
<1> QED
  BY <1>3, <1>4

LEMMA BeginningStep ==
  ASSUME Base, Base', HistoryGrows, KeyInv, FlushCommits, Settling, IngestionStep
  PROVE  BeginningSettles'
<1>0. BeginningSettles /\ OffsetsSettle
  BY DEF Settling
<1>1. CASE UNCHANGED <<log, ingestionVars>> \/ Appends \/ CompletionFails \/ CompletionRejects
           \/ Rejoin \/ Shutdown \/ Restart
  <2>1. UNCHANGED <<progress, commits, flush, buffer>>
    BY <1>1 DEF Appends, CompletionFails, CompletionRejects, Rejoin, Shutdown, Restart, ingestionVars, memory
  <2> QED
    BY <1>0, <2>1, BeginningKeeps
<1>2. CASE ClaimKey \/ InsertEvents \/ KeyFails \/ InsertFails
  <2>1. UNCHANGED <<progress, commits, buffer>> /\ flush'.batch = flush.batch
        /\ flush.stage # "none" /\ flush'.stage # "none"
    BY <1>2, Facts DEF ClaimKey, InsertEvents, KeyFails, InsertFails, FlushRecord, memory
  <2>2. ASSUME NEW s \in Seq(Offset), s # <<>>, SettledBelow(s[1]) PROVE SettledBelow(s[1])'
    <3>1. PICK n \in Offset : n = s[1]
      BY <2>2, FirstOf
    <3>2. n \in Committable
      BY Numbers DEF Offset, Committable
    <3> QED
      BY <2>2, <3>1, <3>2, SettledStays
  <2>3. PICK b \in Seq(Offset) : b = flush.batch /\ b # <<>>
    BY <2>1, BatchFacts DEF Base, HeldTyped
  <2>4. progress'.next = 0 => SettledBelow(b[1])'
    BY <1>0, <2>1, <2>2, <2>3 DEF BeginningSettles
  <2> QED
    BY <1>0, <2>1, <2>3, <2>4 DEF BeginningSettles, SettledBelow
<1>3. CASE Consume
  <2> DEFINE b == Append(buffer, position)
  <2>1. b \in Seq(Offset) /\ b # <<>>
    <3>1. position \in Offset /\ buffer \in Seq(Offset)
      BY <1>3, Facts, Numbers DEF Consume, Offset
    <3>2. b \in Seq(Offset)
      BY <3>1
    <3>3. DOMAIN b = 1..Len(buffer) + 1 /\ Len(buffer) \in Nat
      BY <3>1, AppendIs
    <3>4. 1 \in DOMAIN b
      BY <3>3
    <3> HIDE DEF b
    <3> QED
      BY <3>2, <3>4
  <2>2. progress.next = 0 /\ flush.batch = <<>> => SettledBelow(b[1])
    BY <1>3, FirstConsumed
  <2>3. /\ UNCHANGED <<commits, progress>>
        /\ StartFlush(b) \/ (buffer' = b /\ UNCHANGED flush)
    BY <1>3 DEF Consume
  <2> HIDE DEF b
  <2> QED
    BY <1>0, <2>1, <2>2, <2>3, BeginningFlush
<1>4. CASE TimerFlush \/ LastFlush
  <2>1. buffer \in Seq(Offset) /\ StartFlush(buffer) /\ UNCHANGED <<commits, progress>>
    BY <1>4, Facts DEF TimerFlush, LastFlush
  <2>2. CASE buffer = <<>>
    <3>1. UNCHANGED <<flush, buffer>>
      BY <2>1, <2>2 DEF StartFlush
    <3> QED
      BY <1>0, <2>1, <3>1, BeginningKeeps
  <2>3. CASE buffer # <<>>
    BY <1>0, <2>1, <2>3, BeginningFlush DEF BeginningSettles
  <2> QED
    BY <2>2, <2>3
<1>5. CASE LogDirty
  <2>1. progress'.next > 0 /\ UNCHANGED flush /\ progress' \in Progress
    BY <1>0, <1>5, OffsetsLogDirty DEF LogDirty, Base, IngestionTypeOK
  <2>2. progress'.next # 0
    BY <2>1, Numbers DEF Progress, Committable
  <2> QED
    BY <1>0, <2>1, <2>2 DEF BeginningSettles
<1>6. CASE NothingNew \/ InsertDone
  <2>1. progress'.next > 0 /\ Stored /\ progress' \in Progress
    BY <1>6, OffsetsStored DEF NothingNew, InsertDone, Base, IngestionTypeOK
  <2>2. progress'.next # 0
    BY <2>1, Numbers DEF Progress, Committable
  <2>3. flush'.stage = "none" => flush'.batch = <<>>
    <3>1. flush' = [flush EXCEPT !.stage = "commit"] \/ flush' = NoFlush
      BY <2>1 DEF Stored
    <3> QED
      BY <3>1, Facts, NothingTyped DEF FlushRecord
  <2> QED
    BY <2>2, <2>3 DEF BeginningSettles
<1>7. CASE ReleaseKeys
  <2>1. /\ UNCHANGED <<progress, commits>> /\ flush' = NoFlush /\ buffer' = flush.batch \o buffer
        /\ flush.batch # <<>>
    BY <1>7 DEF ReleaseKeys, Base, HeldTyped
  <2>2. PICK b \in Seq(Offset) : b = flush.batch
    BY BatchFacts
  <2>3. buffer \in Seq(Offset) /\ b # <<>>
    BY <2>1, <2>2, Facts
  <2>4. buffer'[1] = b[1]
    BY <2>1, <2>2, <2>3
  <2>5. progress.next = 0 => SettledBelow(b[1])
    BY <1>0, <2>2, <2>3 DEF BeginningSettles
  <2>6. PICK n \in Offset : n = b[1]
    BY <2>3, FirstOf
  <2>7. progress.next = 0 => SettledBelow(n)'
    <3>1. n \in Committable
      BY Numbers DEF Offset, Committable
    <3> QED
      BY <2>5, <2>6, <3>1, SettledStays
  <2>8. n = buffer'[1]
    BY <2>4, <2>6
  <2>9. flush'.batch = <<>> /\ flush'.stage = "none"
    BY <2>1, NothingTyped
  <2> QED
    BY <1>0, <2>1, <2>7, <2>8, <2>9 DEF BeginningSettles, SettledBelow
<1>8. CASE Committed \/ CommitFails
  <2>1. /\ commits # <<>> /\ progress'.next = progress.next
        /\ UNCHANGED flush \/ flush' = NoFlush
    BY <1>8, Facts DEF Committed, CommitFails, After, Progress
  <2>2. progress'.next # 0
    BY <1>0, <2>1 DEF BeginningSettles
  <2> QED
    BY <1>0, <2>1, <2>2, NothingTyped DEF BeginningSettles
<1>9. CASE Exit \/ Crash
  <2>1. commits' = <<>> /\ flush' = NoFlush /\ buffer' = <<>>
    BY <1>9 DEF Exit, Crash, Forget
  <2> QED
    BY <2>1, NothingTyped DEF BeginningSettles
<1> QED
  BY <1>1, <1>2, <1>3, <1>4, <1>5, <1>6, <1>7, <1>8, <1>9
  DEF IngestionStep, IngestionNext, Handling, Flushing, Stopping

(* A commit asked for by the handler is under way only while the handler   *)
(* waits for it.                                                           *)
HandlerCommits ==
  /\ \A i, j \in DOMAIN commits : commits[i].by = "handler" /\ commits[j].by = "handler" => i = j
  /\ \A i \in DOMAIN commits : commits[i].by = "handler" => handler.stage = "commit"

LEMMA HandlerQuiet ==
  ASSUME HandlerCommits, UNCHANGED commits, UNCHANGED handler \/ handler.stage # "commit"
  PROVE  HandlerCommits'
  BY DEF HandlerCommits

LEMMA HandlerAsked ==
  ASSUME Base, HandlerCommits, NEW by \in {"flush", "handler"}, NEW n,
         commits' = Append(commits, [by |-> by, offset |-> n]),
         by = "handler" => handler.stage # "commit" /\ handler'.stage = "commit",
         by # "handler" => UNCHANGED handler
  PROVE  HandlerCommits'
<1>1. commits \in Seq(Commit)
  BY Facts
<1>2. DOMAIN commits' = 1..Len(commits) + 1 /\ DOMAIN commits = 1..Len(commits) /\ Len(commits) \in Nat
  BY <1>1
<1>3. \A i \in 1..Len(commits) : commits'[i] = commits[i]
  BY <1>1
<1>4. commits'[Len(commits) + 1].by = by
  BY <1>1
<1> QED
  BY <1>2, <1>3, <1>4 DEF HandlerCommits

LEMMA HandlerAfter ==
  ASSUME Base, HandlerCommits, commits # <<>>, After(Head(commits))
  PROVE  HandlerCommits'
<1>1. commits \in Seq(Commit) /\ Head(commits) = commits[1] /\ 1 \in DOMAIN commits
  BY Facts
<1>2. commits' = Tail(commits)
  BY DEF After
<1>3. \A i \in DOMAIN commits' : i \in Nat /\ i >= 1 /\ i + 1 \in DOMAIN commits /\ commits'[i] = commits[i + 1]
  <2>1. DOMAIN commits' = 1..Len(commits) - 1 /\ Len(commits) \in Nat
    BY <1>1, <1>2
  <2> QED
    BY <1>1, <1>2, <2>1, TailIs
<1>4. \A i, j \in DOMAIN commits' : commits'[i].by = "handler" /\ commits'[j].by = "handler" => i = j
  BY <1>3 DEF HandlerCommits
<1>5. CASE commits[1].by = "handler"
  <2>1. ASSUME NEW i \in DOMAIN commits', commits'[i].by = "handler" PROVE FALSE
    <3>1. i + 1 = 1
      BY <1>1, <1>3, <1>5, <2>1 DEF HandlerCommits
    <3> QED
      BY <3>1, <1>3
  <2> QED
    BY <1>4, <2>1 DEF HandlerCommits
<1>6. CASE commits[1].by = "flush"
  <2>1. handler' = handler \/ handler.stage # "commit"
    BY <1>1, <1>6 DEF After
  <2> QED
    BY <1>3, <1>4, <2>1 DEF HandlerCommits
<1>7. commits[1].by \in {"flush", "handler"}
  <2>1. commits[1] \in Commit
    BY <1>1
  <2> QED
    BY <2>1 DEF Commit
<1> QED
  BY <1>5, <1>6, <1>7

LEMMA HandlerStep ==
  Base /\ HandlerCommits /\ IngestionStep => HandlerCommits'
<1> SUFFICES ASSUME Base, HandlerCommits, IngestionStep PROVE HandlerCommits'
  OBVIOUS
<1>1. CASE UNCHANGED <<log, ingestionVars>> \/ Appends \/ TimerFlush \/ ClaimKey \/ InsertEvents \/ KeyFails
           \/ InsertFails \/ Rejoin \/ Shutdown \/ LastFlush \/ Restart
  <2>1. UNCHANGED <<commits, handler>>
    BY <1>1 DEF Appends, TimerFlush, ClaimKey, InsertEvents, KeyFails, InsertFails, Rejoin, Shutdown,
                LastFlush, Restart, ingestionVars, memory
  <2> QED
    BY <2>1, HandlerQuiet
<1>2. CASE Consume \/ CompletionFails \/ CompletionRejects \/ ReleaseKeys
  <2>1. UNCHANGED commits /\ (UNCHANGED handler \/ handler.stage # "commit")
    BY <1>2 DEF Consume, CompletionFails, CompletionRejects, ReleaseKeys, FlushThrows
  <2> QED
    BY <2>1, HandlerQuiet
<1>3. CASE LogDirty
  <2> DEFINE p == Mark({handler.offset}, handler.offset)
  <2>1. CASE Ask(p, "handler") /\ handler' = [handler EXCEPT !.stage = "commit"]
    <3>1. handler.stage # "commit" /\ handler'.stage = "commit"
      BY <1>3, <2>1, Facts DEF LogDirty, Handler
    <3>2. \E n : commits' = Append(commits, [by |-> "handler", offset |-> n])
      BY <2>1 DEF Ask
    <3> QED
      BY <3>1, <3>2, HandlerAsked
  <2>2. CASE UNCHANGED commits
    BY <1>3, <2>2, HandlerQuiet DEF LogDirty
  <2> QED
    BY <1>3, <2>1, <2>2 DEF LogDirty
<1>4. CASE NothingNew \/ InsertDone
  <2> DEFINE p == Mark(Members(flush.batch), flush.batch[1])
  <2>1. CASE Ask(p, "flush") /\ UNCHANGED handler
    <3>1. \E n : commits' = Append(commits, [by |-> "flush", offset |-> n])
      BY <2>1 DEF Ask
    <3> QED
      BY <2>1, <3>1, HandlerAsked
  <2>2. CASE UNCHANGED commits /\ (UNCHANGED handler \/ handler.stage # "commit")
    BY <2>2, HandlerQuiet
  <2> QED
    BY <1>4, <2>1, <2>2 DEF NothingNew, InsertDone, Stored
<1>5. CASE Committed \/ CommitFails
  BY <1>5, HandlerAfter DEF Committed, CommitFails
<1>6. CASE Exit \/ Crash
  <2>1. commits' = <<>>
    BY <1>6 DEF Exit, Crash, Forget
  <2> QED
    BY <2>1 DEF HandlerCommits
<1> QED
  BY <1>1, <1>2, <1>3, <1>4, <1>5, <1>6 DEF IngestionStep, IngestionNext, Handling, Flushing, Stopping

(* What is held stays held or is settled: then so is what was consumed.    *)
HoldingKept == \A o \in 1..Len(log) : Holds(o) => Holds(o)' \/ Settled(o)'

LEMMA ConsumedStays ==
  ASSUME Base, Base', HistoryGrows, HoldingKept, NEW n \in Committable, Consumed(n)
  PROVE  Consumed(n)'
<1>1. n \in Nat /\ Len(log) \in Nat /\ Len(log') \in Nat /\ Len(log) <= Len(log')
  BY Facts, Numbers DEF Committable, HistoryGrows, Base, LogTyped
<1>2. n <= Len(log) + 1
  BY DEF Consumed
<1>3. n <= Len(log') + 1
  BY <1>1, <1>2
<1>4. ASSUME NEW o \in 1..n - 1 PROVE Holds(o)' \/ Settled(o)'
  <2>1. o \in 1..Len(log)
    BY <1>1, <1>2
  <2>2. Holds(o) \/ Settled(o)
    BY DEF Consumed
  <2> QED
    BY <2>1, <2>2, SettledStays DEF HoldingKept
<1> QED
  BY <1>3, <1>4 DEF Consumed

(* The positions the consumer may be taken to.                             *)
LEMMA ConsumedLower ==
  ASSUME Base, NEW n \in Nat, NEW m \in Nat, m <= n, Consumed(n)
  PROVE  Consumed(m)
<1>1. Len(log) \in Nat
  BY Facts
<1>2. 1..m - 1 \subseteq 1..n - 1
  OBVIOUS
<1>3. m <= Len(log) + 1
  BY <1>1 DEF Consumed
<1> QED
  BY <1>2, <1>3 DEF Consumed

(* The consumer begins anew, and what it jumps over is missed.             *)
LEMMA ConsumedResumes ==
  ASSUME Base, Base', HistoryGrows, HoldingKept, OffsetsSettle, UNCHANGED <<log, groupOffset>>,
         NEW n \in Committable, Consumed(n), n..(Resume - 1) \subseteq missed'
  PROVE  Consumed(Resume)'
<1>1. PICK r \in 1..MaxLog + 1 : r = Resume
  BY ResumeTyped
<1>2. r <= Len(log) + 1 /\ Len(log) \in Nat
  <2>1. groupOffset <= Len(log) + 1 /\ Len(log) \in Nat
    BY Facts DEF OffsetsSettle, SettledBelow
  <2> QED
    BY <1>1, <2>1 DEF Resume
<1>3. ASSUME NEW o \in 1..r - 1 PROVE Holds(o)' \/ Settled(o)'
  <2>1. o \in Nat /\ n \in Nat /\ r \in Nat
    BY <1>1, Numbers DEF Committable
  <2>2. CASE o < n
    <3>1. o \in 1..n - 1 /\ Consumed(n)'
      BY <2>1, <2>2, ConsumedStays
    <3> QED
      BY <3>1 DEF Consumed
  <2>3. CASE o >= n
    <3>1. o \in n..r - 1
      BY <2>1, <2>3
    <3> QED
      BY <1>1, <3>1 DEF Settled
  <2> QED
    BY <2>1, <2>2, <2>3
<1>4. Resume' = r
  BY <1>1 DEF Resume
<1> QED
  BY <1>2, <1>3, <1>4 DEF Consumed

LEMMA ConsumedRedelivers ==
  ASSUME Base, Base', HistoryGrows, HoldingKept, OffsetsSettle, UNCHANGED <<log, groupOffset>>,
         NEW o \in Offset, Consumed(o), Redeliver(o)
  PROVE  Consumed(position)'
<1>1. o \in Committable /\ o \in Nat
  BY Numbers DEF Offset, Committable
<1>2. ASSUME NEW p \in from..o, position' = p PROVE Consumed(position)'
  <2>1. p \in Nat /\ p <= o /\ p \in Committable
    BY <1>1, Facts, Numbers DEF Committable
  <2>2. Consumed(p)
    BY <1>1, <2>1, ConsumedLower
  <2>3. Consumed(p)'
    BY <2>1, <2>2, ConsumedStays
  <2> QED
    BY <1>2, <2>3 DEF Consumed
<1>3. CASE position' = Resume /\ missed' = missed \cup o..(Resume - 1)
  <2>1. o..(Resume - 1) \subseteq missed'
    BY <1>3
  <2>2. Consumed(Resume)'
    BY <1>1, <2>1, ConsumedResumes
  <2>3. Resume' = Resume
    BY DEF Resume
  <2> QED
    BY <1>3, <2>2, <2>3 DEF Consumed
<1> QED
  BY <1>2, <1>3 DEF Redeliver

(* The steps that leave the position alone, and take no message into the   *)
(* handler.                                                                *)
LEMMA ConsumedKeep ==
  ASSUME Base, Base', HistoryGrows, HoldingKept, ConsumedSettle, UNCHANGED position,
         service' = "down" <=> service = "down",
         handler'.stage = "flush" => UNCHANGED handler
  PROVE  ConsumedSettle'
<1>1. PICK n \in Committable : n = position
  BY Facts, Numbers DEF Committable
<1>2. service # "down" => Consumed(n)'
  BY <1>1, ConsumedStays DEF ConsumedSettle
<1>3. service' # "down" => Consumed(position)'
  BY <1>1, <1>2 DEF Consumed
<1>4. ASSUME handler'.stage = "flush" PROVE service' # "down" /\ Consumed(handler.offset)'
  <2>1. UNCHANGED handler
    BY <1>4
  <2>2. PICK m \in Committable : m = handler.offset
    BY Facts, Numbers DEF Handler, Committable
  <2>3. Consumed(m)'
    BY <1>4, <2>1, <2>2, ConsumedStays DEF ConsumedSettle
  <2> QED
    BY <1>4, <2>1, <2>2, <2>3 DEF Consumed, ConsumedSettle
<1> QED
  BY <1>3, <1>4 DEF ConsumedSettle

LEMMA HeldIs ==
  ASSUME Base
  PROVE  /\ buffer \in Seq(Offset) /\ flush.batch \in Seq(Offset)
         /\ \A o \in Members(buffer) \cup Members(flush.batch) : o \in 1..Len(log)
  BY HeldFetched DEF Fetched

(* A flush that begins holds what the buffer held.                         *)
LEMMA StartedHolds ==
  ASSUME Base, Base', BeginningSettles, NEW b \in Seq(Offset), StartFlush(b) \/ (buffer' = b /\ UNCHANGED flush)
  PROVE  Members(b) \cup Members(flush.batch) \subseteq Members(buffer') \cup Members(flush'.batch)
<1>1. CASE UNCHANGED flush
  <2>1. buffer' = b
    BY <1>1, NothingTyped DEF StartFlush, BeginningSettles, NoFlush
  <2> QED
    BY <1>1, <2>1
<1>2. CASE ~UNCHANGED flush
  <2>1. flush.stage = "none" /\ flush'.batch = b
    BY <1>2, ClaimsStarted
  <2>2. Members(flush.batch) = {}
    BY <2>1, MembersOf DEF BeginningSettles
  <2> QED
    BY <2>1, <2>2
<1> QED
  BY <1>1, <1>2

LEMMA ConsumedConsume ==
  ASSUME Base, Base', HistoryGrows, Settling, Consume
  PROVE  ConsumedSettle'
<1> DEFINE b == Append(buffer, position)
<1>1. position \in Nat /\ position \in Offset /\ Len(log) \in Nat /\ position <= Len(log)
  BY Facts, Numbers DEF Consume, Offset
<1>2. b \in Seq(Offset) /\ Members(b) = Members(buffer) \cup {position}
  BY <1>1, Facts, MembersOf
<1>3. StartFlush(b) \/ (buffer' = b /\ UNCHANGED flush)
  BY DEF Consume
<1>4. Members(b) \cup Members(flush.batch) \subseteq Members(buffer') \cup Members(flush'.batch)
  <2> HIDE DEF b
  <2> QED
    BY <1>2, <1>3, StartedHolds DEF Settling
<1>5. HoldingKept
  BY <1>2, <1>4 DEF HoldingKept, Holds, Consume
<1>6. PICK n \in Committable : n = position
  BY <1>1, Numbers DEF Offset, Committable
<1>7. Consumed(n)'
  BY <1>5, <1>6, ConsumedStays DEF Consume, Settling, ConsumedSettle
<1>8. Holds(n)'
  BY <1>2, <1>4, <1>6 DEF Holds
<1>9. ASSUME NEW m \in Nat, m = n + 1 PROVE Consumed(m)'
  <2>1. UNCHANGED log
    BY DEF Consume
  <2>2. m <= Len(log') + 1
    BY <1>1, <1>6, <1>9, <2>1
  <2>3. ASSUME NEW o \in 1..m - 1 PROVE Holds(o)' \/ Settled(o)'
    <3>1. o = n \/ o \in 1..n - 1
      BY <1>1, <1>6, <1>9
    <3> QED
      BY <1>7, <1>8, <3>1 DEF Consumed
  <2> QED
    BY <2>2, <2>3 DEF Consumed
<1>10. Consumed(position)'
  <2>1. PICK m \in Nat : m = n + 1
    BY <1>1, <1>6
  <2>2. position' = m
    BY <1>6, <2>1 DEF Consume
  <2> QED
    BY <1>9, <2>1, <2>2 DEF Consumed
<1>11. ASSUME handler'.stage = "flush" PROVE Consumed(handler.offset)'
  <2>1. handler'.offset = n
    BY <1>6, <1>11 DEF Consume
  <2> QED
    BY <1>7, <2>1 DEF Consumed
<1> QED
  BY <1>10, <1>11 DEF ConsumedSettle, Consume

LEMMA ConsumedRejects ==
  ASSUME Base, Base', HistoryGrows, Settling, CompletionRejects
  PROVE  ConsumedSettle'
<1>1. position \in Nat /\ Len(log) \in Nat /\ position <= Len(log)
  BY Facts DEF CompletionRejects
<1>2. /\ UNCHANGED <<log, buffer, flush, service>> /\ service # "down" /\ handler.stage = "idle"
      /\ handler' = [offset |-> position, stage |-> "log"] /\ position' = position + 1
  BY DEF CompletionRejects, store
<1>3. HoldingKept
  BY <1>2 DEF HoldingKept, Holds
<1>4. PICK n \in Committable : n = position
  BY Facts, Numbers DEF Committable
<1>5. Consumed(n)'
  BY <1>2, <1>3, <1>4, ConsumedStays DEF Settling, ConsumedSettle
<1>6. Holds(n)'
  BY <1>2, <1>4 DEF Holds
<1>7. PICK m \in Nat : m = position + 1
  BY <1>1
<1>8. m <= Len(log') + 1
  BY <1>1, <1>2, <1>7
<1>9. ASSUME NEW o \in 1..m - 1 PROVE Holds(o)' \/ Settled(o)'
  <2>1. o = n \/ o \in 1..n - 1
    BY <1>1, <1>4, <1>7
  <2> QED
    BY <1>5, <1>6, <2>1 DEF Consumed
<1>10. Consumed(position)'
  BY <1>2, <1>7, <1>8, <1>9 DEF Consumed
<1>11. handler'.stage # "flush"
  BY <1>2
<1> QED
  BY <1>10, <1>11 DEF ConsumedSettle

LEMMA ConsumedReleases ==
  ASSUME Base, Base', HistoryGrows, Settling, ReleaseKeys
  PROVE  ConsumedSettle'
<1>1. /\ UNCHANGED <<log, groupOffset, service>> /\ flush' = NoFlush /\ buffer' = flush.batch \o buffer
      /\ FlushThrows
  BY DEF ReleaseKeys
<1>2. Members(buffer') = Members(flush.batch) \cup Members(buffer)
  BY <1>1, HeldIs, MembersOf
<1>3. HoldingKept
  <2>1. handler.stage = "log" => UNCHANGED handler
    BY <1>1 DEF FlushThrows
  <2> QED
    BY <1>2, <2>1 DEF HoldingKept, Holds
<1>4. CASE UNCHANGED position /\ (handler'.stage = "flush" => UNCHANGED handler)
  BY <1>1, <1>3, <1>4, ConsumedKeep DEF Settling
<1>5. CASE handler.stage = "flush" /\ Redeliver(handler.offset) /\ handler' = NoHandler
  <2>1. PICK o \in Offset : o = handler.offset
    BY <1>5, Facts DEF Base, HeldTyped
  <2>2. Consumed(o) /\ Redeliver(o)
    BY <1>5, <2>1 DEF Settling, ConsumedSettle
  <2>3. Consumed(position)'
    BY <1>1, <1>3, <2>2, ConsumedRedelivers DEF Settling
  <2> QED
    BY <1>5, <2>3, NothingTyped DEF ConsumedSettle
<1>6. handler.stage = "flush" /\ handler' = [handler EXCEPT !.stage = "log"] => handler'.stage # "flush"
  BY Facts DEF Handler
<1> QED
  BY <1>1, <1>4, <1>5, <1>6 DEF FlushThrows

LEMMA ConsumedAfter ==
  ASSUME Base, Base', HistoryGrows, FlushCommits, HandlerCommits, Settling, Committed \/ CommitFails
  PROVE  ConsumedSettle'
<1>1. /\ commits # <<>> /\ After(Head(commits)) /\ UNCHANGED <<log, position, service, buffer>>
  BY DEF Committed, CommitFails, store
<1>2. commits[1] = Head(commits) /\ 1 \in DOMAIN commits /\ commits[1] \in Commit
  BY <1>1, Facts
<1>3. CASE commits[1].by = "flush"
  <2>1. \A o \in Members(flush.batch) : Settled(o)'
    BY <1>2, <1>3, BatchFacts, SettledStays DEF FlushCommits, Settling, ClaimsKept
  <2>2. handler.stage # "flush" => UNCHANGED handler
    BY <1>1, <1>2, <1>3 DEF After
  <2>3. HoldingKept
    BY <1>1, <2>1, <2>2 DEF HoldingKept, Holds
  <2>4. handler'.stage = "flush" => UNCHANGED handler
    BY <1>1, <1>2, <1>3, NothingTyped DEF After
  <2> QED
    BY <1>1, <2>3, <2>4, ConsumedKeep DEF Settling
<1>4. CASE commits[1].by # "flush"
  <2>1. commits[1].by = "handler"
    BY <1>2, <1>4 DEF Commit
  <2>2. handler.stage = "commit" /\ handler' = NoHandler /\ UNCHANGED flush
    BY <1>1, <1>2, <2>1 DEF After, HandlerCommits
  <2>3. HoldingKept
    BY <1>1, <2>2 DEF HoldingKept, Holds
  <2> QED
    BY <1>1, <2>2, <2>3, NothingTyped, ConsumedKeep DEF Settling
<1> QED
  BY <1>3, <1>4

LEMMA ConsumedStep ==
  ASSUME Base, Base', HistoryGrows, KeyInv, FlushCommits, HandlerCommits, Settling, IngestionStep
  PROVE  ConsumedSettle'
<1>1. CASE UNCHANGED <<log, ingestionVars>> \/ Appends \/ ClaimKey \/ InsertEvents \/ KeyFails \/ InsertFails
           \/ Shutdown
  <2>1. /\ UNCHANGED <<position, handler, buffer>> /\ flush'.batch = flush.batch
        /\ service' = "down" <=> service = "down"
    BY <1>1, Facts DEF Appends, ClaimKey, InsertEvents, KeyFails, InsertFails, Shutdown, FlushRecord,
                       ingestionVars, memory
  <2>2. HoldingKept
    BY <2>1 DEF HoldingKept, Holds
  <2> QED
    BY <2>1, <2>2, ConsumedKeep DEF Settling
<1>2. CASE TimerFlush \/ LastFlush
  <2>1. /\ StartFlush(buffer) /\ UNCHANGED <<position, handler>>
        /\ service' = "down" <=> service = "down"
    BY <1>2 DEF TimerFlush, LastFlush
  <2>2. Members(buffer) \cup Members(flush.batch) \subseteq Members(buffer') \cup Members(flush'.batch)
    BY <2>1, HeldIs, StartedHolds DEF Settling
  <2>3. HoldingKept
    BY <2>1, <2>2 DEF HoldingKept, Holds
  <2> QED
    BY <2>1, <2>3, ConsumedKeep DEF Settling
<1>3. CASE CompletionFails
  <2>1. /\ UNCHANGED <<log, groupOffset, service, handler, buffer, flush>> /\ Redeliver(position)
        /\ service # "down" /\ handler.stage = "idle" /\ position <= Len(log)
    BY <1>3 DEF CompletionFails, store
  <2>2. HoldingKept
    BY <2>1 DEF HoldingKept, Holds
  <2>3. PICK o \in Offset : o = position
    BY <2>1, Facts, Numbers DEF Offset
  <2>4. Consumed(o) /\ Redeliver(o)
    BY <2>1, <2>3 DEF Settling, ConsumedSettle
  <2>5. Consumed(position)'
    BY <2>1, <2>2, <2>4, ConsumedRedelivers DEF Settling
  <2> QED
    BY <2>1, <2>5 DEF ConsumedSettle
<1>4. CASE LogDirty
  <2>1. /\ UNCHANGED <<position, service, buffer, flush>> /\ handler.stage = "log" /\ handler.offset \in dirty'
        /\ handler' = NoHandler \/ handler' = [handler EXCEPT !.stage = "commit"]
    BY <1>4 DEF LogDirty
  <2>2. HoldingKept
    BY <2>1 DEF HoldingKept, Holds, Settled
  <2>3. handler'.stage # "flush"
    BY <2>1, Facts, NothingTyped DEF Handler
  <2> QED
    BY <2>1, <2>2, <2>3, ConsumedKeep DEF Settling
<1>5. CASE NothingNew \/ InsertDone
  <2>1. /\ Stored /\ UNCHANGED <<position, service, buffer>>
    BY <1>5 DEF NothingNew, InsertDone
  <2>2. UNCHANGED handler \/ (handler.stage = "flush" /\ handler' = NoHandler)
    BY <2>1 DEF Stored
  <2>3. HoldingKept
    BY <1>5, <2>1, <2>2, BatchSettles DEF HoldingKept, Holds, Settling
  <2> QED
    BY <2>1, <2>2, <2>3, NothingTyped, ConsumedKeep DEF Settling
<1>6. CASE Rejoin
  <2>1. /\ UNCHANGED <<log, groupOffset, service, handler, buffer, flush>> /\ service # "down"
        /\ position' = Resume /\ position..(Resume - 1) \subseteq missed'
    BY <1>6 DEF Rejoin, store
  <2>2. HoldingKept
    BY <2>1 DEF HoldingKept, Holds
  <2>3. PICK n \in Committable : n = position
    BY Facts, Numbers DEF Committable
  <2>4. Consumed(Resume)'
    BY <2>1, <2>2, <2>3, ConsumedResumes DEF Settling, ConsumedSettle
  <2>5. Consumed(position)'
    <3>1. position' = Resume'
      BY <2>1 DEF Resume
    <3> QED
      BY <2>4, <3>1 DEF Consumed
  <2>6. ASSUME handler.stage = "flush" PROVE Consumed(handler.offset)'
    <3>1. PICK m \in Committable : m = handler.offset
      BY Facts, Numbers DEF Handler, Committable
    <3>2. Consumed(m)'
      BY <2>2, <2>6, <3>1, ConsumedStays DEF Settling, ConsumedSettle
    <3> QED
      BY <2>1, <3>1, <3>2 DEF Consumed
  <2> QED
    BY <2>1, <2>5, <2>6 DEF ConsumedSettle
<1>7. CASE Restart
  <2>1. /\ UNCHANGED <<log, groupOffset, handler>> /\ service = "down" /\ position' = Resume
        /\ missed' = missed \cup (IF groupOffset = 0 THEN 1..Len(log) ELSE {})
    BY <1>7 DEF Restart, store
  <2>2. handler.stage # "flush"
    BY <2>1 DEF Settling, ConsumedSettle
  <2>3. Consumed(position)'
    <3>1. CASE groupOffset = 0
      <4>1. position' = Len(log') + 1 /\ Len(log') \in Nat /\ 1..Len(log') \subseteq missed'
        BY <2>1, <3>1, Facts DEF Resume
      <4>2. 1..position' - 1 = 1..Len(log')
        BY <4>1
      <4> QED
        BY <4>1, <4>2 DEF Consumed, Settled
    <3>2. CASE groupOffset # 0
      <4>1. SettledBelow(groupOffset)'
        <5>1. PICK n \in Committable : n = groupOffset
          BY Facts
        <5>2. SettledBelow(n)'
          BY <5>1, SettledStays DEF Settling, OffsetsSettle
        <5> QED
          BY <2>1, <5>1, <5>2 DEF SettledBelow
      <4>2. position' = groupOffset'
        BY <2>1, <3>2 DEF Resume
      <4> QED
        BY <4>1, <4>2 DEF Consumed, SettledBelow
    <3> QED
      BY <3>1, <3>2
  <2> QED
    BY <2>1, <2>2, <2>3 DEF ConsumedSettle
<1>8. CASE Exit \/ Crash
  <2>1. service' = "down" /\ handler' = NoHandler
    BY <1>8 DEF Exit, Crash, Forget
  <2> QED
    BY <2>1, NothingTyped DEF ConsumedSettle
<1> QED
  BY <1>1, <1>2, <1>3, <1>4, <1>5, <1>6, <1>7, <1>8, ConsumedConsume, ConsumedRejects, ConsumedReleases, ConsumedAfter
  DEF IngestionStep, IngestionNext, Handling, Flushing, Stopping

(* The inductive invariant: all of the parts at once.                      *)
IngestionInv == Base /\ KeyInv /\ FlushCommits /\ HandlerCommits /\ Settling

LEMMA IngestionInvInit == IngestionStart => IngestionInv
<1> SUFFICES ASSUME IngestionStart PROVE IngestionInv
  OBVIOUS
<1>1. Base /\ KeyInv /\ FlushCommits
  BY BaseInit, KeyInit, CommitsInit DEF IngestionStart
<1>2. /\ groupOffset = 0 /\ position = 1 /\ handler = NoHandler /\ buffer = <<>> /\ flush = NoFlush
      /\ progress = NoProgress /\ commits = <<>> /\ log = <<>>
  BY DEF IngestionStart, IngestionInit
<1>3. HandlerCommits
  BY <1>2 DEF HandlerCommits
<1>4. progress.next = 0 /\ progress.completed = {} /\ Len(log) = 0
  BY <1>2 DEF NoProgress
<1>5. OffsetsSettle
  BY <1>2, <1>4 DEF OffsetsSettle, SettledBelow
<1>6. BeginningSettles /\ ClaimsKept
  BY <1>2, NothingTyped DEF BeginningSettles, ClaimsKept
<1>7. ConsumedSettle
  BY <1>2, <1>4, NothingTyped DEF ConsumedSettle, Consumed
<1> QED
  BY <1>1, <1>3, <1>5, <1>6, <1>7 DEF IngestionInv, Settling

LEMMA IngestionInvStep == IngestionInv /\ IngestionStep => IngestionInv'
<1> SUFFICES ASSUME IngestionInv, IngestionStep PROVE IngestionInv'
  OBVIOUS
<1>1. Base /\ Base' /\ HistoryGrows /\ KeyInv /\ FlushCommits /\ HandlerCommits /\ Settling
  BY TypeStep, EveryStepGrows DEF IngestionInv
<1>2. KeyInv' /\ FlushCommits' /\ HandlerCommits'
  BY <1>1, KeyStep, CommitsStep, HandlerStep
<1>3. OffsetsSettle' /\ BeginningSettles'
  BY <1>1, OffsetsStep, BeginningStep
<1>4. ConsumedSettle'
  BY <1>1, ConsumedStep
<1>5. ClaimsKept'
  BY <1>1, ClaimsStep DEF Settling
<1> QED
  BY <1>1, <1>2, <1>3, <1>4, <1>5 DEF IngestionInv, Settling

LEMMA IngestionAlways == IngestionSpec => []IngestionInv
<1>1. IngestionInv /\ [IngestionNext \/ Produce]_<<log, faults, ingestionVars>> => IngestionInv'
  BY StepIs, IngestionInvStep
<1> QED
  BY <1>1, IngestionInvInit, PTL DEF IngestionSpec

(* What lies before the committed offset is stored, or known to be given   *)
(* up: whatever fails, no offset is committed that somebody still has to   *)
(* store.                                                                  *)
THEOREM CommittedOffsetsSettled == IngestionSpec => []CommittedIsSettled
<1>1. IngestionInv => CommittedIsSettled
  BY DEF IngestionInv, Settling, OffsetsSettle, SettledBelow, Settled, CommittedIsSettled
<1> QED
  BY <1>1, IngestionAlways, PTL
=============================================================================
