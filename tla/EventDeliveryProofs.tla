-------------------------- MODULE EventDeliveryProofs --------------------------
(***************************************************************************)
(* Proofs about the sender and about its composition with the consumer, for*)
(* any number of events, batches of any size and any number of faults.     *)
(***************************************************************************)
EXTENDS EventDelivery, EventIngestionProofs, FiniteSetTheorems

LEMMA SenderNumbers ==
  /\ MaxRetries \in Nat /\ MaxRequests \in Nat /\ BatchSizes \subseteq Nat \ {0}
  /\ Transport \subseteq {"beacon", "gif", "fetch"}
  BY SenderAssumption DEF SenderAssumption

(* Types: what is queued has been accepted, and hop is a place of the chain*)
SenderBase ==
  /\ SenderTypeOK /\ LogTyped
  /\ hop \in 1..Len(Chain)

-----------------------------------------------------------------------------
(* Sequences that are cut into batches.                                    *)
LEMMA Concat ==
  ASSUME NEW S, NEW s \in Seq(S), NEW t \in Seq(S)
  PROVE  /\ s \o t \in Seq(S) /\ Len(s \o t) = Len(s) + Len(t)
         /\ \A i \in 1..Len(s) : (s \o t)[i] = s[i]
         /\ \A i \in 1..Len(t) : (s \o t)[Len(s) + i] = t[i]
  OBVIOUS

LEMMA SameSeq ==
  ASSUME NEW S, NEW s \in Seq(S), NEW t \in Seq(S), Len(s) = Len(t),
         \A i \in 1..Len(s) : s[i] = t[i]
  PROVE  s = t
  OBVIOUS

LEMMA ChainTyped ==
  ASSUME config \in Config
  PROVE  Chain \in Seq(Channel) /\ Len(Chain) \in 1..5
<1> DEFINE rest == <<"fetch", "xhr", "gif">>
<1>1. rest \in Seq(Channel) /\ Len(rest) = 3
  BY DEF Channel
<1>2. <<config.transport>> \in Seq(Channel) /\ Len(<<config.transport>>) = 1
  <2>1. config.transport \in Channel
    BY SenderNumbers DEF Config, Channel
  <2> QED
    BY <2>1
<1>3. <<"gif", "beacon">> \in Seq(Channel) /\ Len(<<"gif", "beacon">>) = 2
  BY DEF Channel
<1>4. <<"beacon", "gif">> \in Seq(Channel) /\ Len(<<"beacon", "gif">>) = 2
  BY DEF Channel
<1>5. \/ Chain = <<config.transport>> \/ Chain = rest
      \/ Chain = <<"gif", "beacon">> \o rest \/ Chain = <<"beacon", "gif">> \o rest
  BY DEF Chain
<1> HIDE DEF rest
<1>6. <<"gif", "beacon">> \o rest \in Seq(Channel) /\ Len(<<"gif", "beacon">> \o rest) = 5
  BY <1>1, <1>3, Concat, SMTT(30)
<1>7. <<"beacon", "gif">> \o rest \in Seq(Channel) /\ Len(<<"beacon", "gif">> \o rest) = 5
  BY <1>1, <1>4, Concat, SMTT(30)
<1>8. /\ Chain = <<config.transport>> => Chain \in Seq(Channel) /\ Len(Chain) = 1
      /\ Chain = rest => Chain \in Seq(Channel) /\ Len(Chain) = 3
      /\ Chain = <<"gif", "beacon">> \o rest => Chain \in Seq(Channel) /\ Len(Chain) = 5
      /\ Chain = <<"beacon", "gif">> \o rest => Chain \in Seq(Channel) /\ Len(Chain) = 5
  BY <1>1, <1>2, <1>6, <1>7, Zenon
<1> QED
  BY <1>5, <1>8

LEMMA HopTyped == ASSUME SenderBase PROVE Chain[hop] \in Channel /\ 1 \in 1..Len(Chain)
  BY ChainTyped DEF SenderBase, SenderTypeOK

LEMMA SizeTyped == ASSUME config \in Config PROVE BatchSize \in Nat \ {0}
  BY SenderNumbers DEF BatchSize, Config

LEMMA SubSeqs ==
  ASSUME NEW S, NEW q \in Seq(S), NEW m \in Nat \ {0}, NEW n \in Nat, n <= Len(q)
  PROVE  /\ SubSeq(q, m, n) \in Seq(S)
         /\ Len(SubSeq(q, m, n)) = IF m <= n THEN n - m + 1 ELSE 0
         /\ \A i \in 1..Len(SubSeq(q, m, n)) : SubSeq(q, m, n)[i] = q[m + i - 1]
  OBVIOUS

(* The batch that is taken and the rest make up the queue.                 *)
LEMMA TakeRest ==
  ASSUME config \in Config, NEW S, NEW q \in Seq(S)
  PROVE  /\ Take(q) \in Seq(S) /\ Rest(q) \in Seq(S)
         /\ Len(Take(q)) <= BatchSize
         /\ Take(q) \o Rest(q) = q
         /\ Members(q) = Members(Take(q)) \cup Members(Rest(q))
<1> DEFINE k == IF Len(q) < BatchSize THEN Len(q) ELSE BatchSize
<1>1. BatchSize \in Nat \ {0} /\ Len(q) \in Nat
  BY SizeTyped
<1>2. k \in Nat /\ k <= Len(q) /\ k <= BatchSize
  BY <1>1
<1>3. Take(q) = SubSeq(q, 1, k) /\ Rest(q) = SubSeq(q, BatchSize + 1, Len(q))
  BY DEF Take, Rest
<1>4. /\ Take(q) \in Seq(S) /\ Len(Take(q)) = k
      /\ \A i \in 1..k : Take(q)[i] = q[i]
  <2> HIDE DEF k
  <2>1. Len(SubSeq(q, 1, k)) = k
    BY <1>2, SubSeqs
  <2> QED
    BY <1>2, <1>3, <2>1, SubSeqs
<1>5. /\ Rest(q) \in Seq(S) /\ Len(Rest(q)) = Len(q) - k
      /\ \A i \in 1..Len(q) - k : Rest(q)[i] = q[k + i]
  <2> DEFINE m == BatchSize + 1
  <2>1. m \in Nat \ {0} /\ Rest(q) = SubSeq(q, m, Len(q))
    BY <1>1, <1>3
  <2>2. k < Len(q) => m = k + 1
    BY <1>1
  <2>3. k = Len(q) => m > Len(q)
    BY <1>1
  <2> HIDE DEF m, k
  <2>4. Rest(q) \in Seq(S) /\ Len(Rest(q)) = IF m <= Len(q) THEN Len(q) - m + 1 ELSE 0
    BY <1>1, <2>1, SubSeqs
  <2>5. \A i \in 1..Len(Rest(q)) : Rest(q)[i] = q[m + i - 1]
    BY <1>1, <2>1, SubSeqs
  <2>6. CASE k < Len(q)
    BY <1>1, <1>2, <2>2, <2>4, <2>5, <2>6
  <2>7. CASE k = Len(q)
    BY <1>1, <1>2, <2>1, <2>3, <2>4, <2>7
  <2> QED
    BY <1>1, <1>2, <2>6, <2>7
<1> HIDE DEF k
<1>6. Take(q) \o Rest(q) = q
  <2> DEFINE u == Take(q) \o Rest(q)
  <2>1. u \in Seq(S) /\ Len(u) = Len(Take(q)) + Len(Rest(q))
    BY <1>4, <1>5, Concat
  <2>2. Len(u) = Len(q)
    BY <1>1, <1>2, <1>4, <1>5, <2>1
  <2>3. ASSUME NEW i \in 1..Len(u) PROVE u[i] = q[i]
    <3>1. CASE i <= k
      <4>1. i \in 1..k
        BY <1>1, <1>2, <2>2, <3>1
      <4>2. u[i] = Take(q)[i]
        BY <1>4, <1>5, <4>1, Concat
      <4> QED
        BY <1>4, <4>1, <4>2
    <3>2. CASE i > k
      <4>1. i - k \in 1..Len(q) - k /\ k + (i - k) = i
        BY <1>1, <1>2, <2>2, <3>2
      <4>2. u[Len(Take(q)) + (i - k)] = Rest(q)[i - k]
        BY <1>4, <1>5, <4>1, Concat
      <4>3. Rest(q)[i - k] = q[k + (i - k)]
        BY <1>5, <4>1
      <4> QED
        BY <1>4, <4>1, <4>2, <4>3
    <3> QED
      BY <1>1, <1>2, <2>2, <3>1, <3>2
  <2> HIDE DEF u
  <2>4. u = q
    BY <2>1, <2>2, <2>3, SameSeq
  <2> QED
    BY <2>4 DEF u
<1>7. Members(q) = Members(Take(q)) \cup Members(Rest(q))
  <2>1. Members(Take(q) \o Rest(q)) = Members(Take(q)) \cup Members(Rest(q))
    BY <1>4, <1>5, MembersOf
  <2> QED
    BY <1>6, <2>1
<1> QED
  BY <1>2, <1>4, <1>5, <1>6, <1>7

(* How many batches a queue makes, and one of them.                        *)
CountOf(q) == (Len(q) + BatchSize - 1) \div BatchSize
PartOf(q, i) ==
  SubSeq(q, (i - 1) * BatchSize + 1, IF i * BatchSize < Len(q) THEN i * BatchSize ELSE Len(q))

LEMMA Quotient ==
  ASSUME NEW a \in Nat, NEW b \in Nat \ {0}
  PROVE  LET c == a \div b IN c \in Nat /\ c * b <= a /\ a < c * b + b
  OBVIOUS

LEMMA Multiples ==
  ASSUME NEW a \in Nat, NEW b \in Nat \ {0}, NEW c \in Nat
  PROVE  /\ a * b \in Nat /\ a <= a * b /\ (a + 1) * b = a * b + b
         /\ a < c => a * b + b <= c * b
  OBVIOUS

LEMMA PartTyped ==
  ASSUME config \in Config, NEW S, NEW q \in Seq(S), NEW i \in 1..CountOf(q)
  PROVE  PartOf(q, i) \in Seq(S)
<1>1. BatchSize \in Nat \ {0} /\ Len(q) \in Nat
  BY SizeTyped
<1>2. CountOf(q) \in Nat
  BY <1>1, Quotient DEF CountOf
<1>3. i \in Nat /\ i - 1 \in Nat
  BY <1>2
<1> DEFINE m == (i - 1) * BatchSize
           n == i * BatchSize
<1>4. m \in Nat /\ n \in Nat
  BY <1>1, <1>3, Multiples
<1>5. PartOf(q, i) = SubSeq(q, m + 1, IF n < Len(q) THEN n ELSE Len(q))
  BY DEF PartOf
<1> HIDE DEF m, n
<1> QED
  BY <1>1, <1>4, <1>5, SubSeqs

(* Every event of the queue is in one of its batches.                      *)
LEMMA PartsCover ==
  ASSUME config \in Config, NEW S, NEW q \in Seq(S), NEW e \in Members(q)
  PROVE  \E i \in 1..CountOf(q) : e \in Members(PartOf(q, i))
<1>1. BatchSize \in Nat \ {0} /\ Len(q) \in Nat
  BY SizeTyped
<1>2. PICK j \in 1..Len(q) : e = q[j]
  BY DEF Members
<1>3. PICK c \in Nat : c * BatchSize <= j - 1 /\ j - 1 < c * BatchSize + BatchSize
  <2>1. j - 1 \in Nat
    BY <1>2
  <2> QED
    BY <1>1, <2>1, Quotient
<1> DEFINE m == c * BatchSize
           n == (c + 1) * BatchSize
           last == IF n < Len(q) THEN n ELSE Len(q)
<1>4. m \in Nat /\ n = m + BatchSize
  BY <1>1, <1>3, Multiples
<1>5. PartOf(q, c + 1) = SubSeq(q, m + 1, last)
  <2>1. (c + 1) - 1 = c
    BY <1>3
  <2> QED
    BY <2>1 DEF PartOf
<1>6. c + 1 \in 1..CountOf(q)
  <2>1. PICK k \in Nat : /\ k = CountOf(q)
                         /\ Len(q) + BatchSize - 1 < k * BatchSize + BatchSize
    <3>1. Len(q) + BatchSize - 1 \in Nat
      BY <1>1
    <3> QED
      BY <1>1, <3>1, Quotient DEF CountOf
  <2>2. m + 1 <= Len(q)
    BY <1>2, <1>3, <1>4
  <2>3. m < k * BatchSize
    <3>1. k * BatchSize \in Nat
      BY <1>1, Multiples
    <3> QED
      BY <1>1, <1>4, <2>1, <2>2, <3>1
  <2>4. ~(k < c) /\ k # c
    <3>1. k < c => k * BatchSize + BatchSize <= c * BatchSize
      BY <1>1, <1>3, Multiples
    <3>2. k * BatchSize \in Nat
      BY <1>1, Multiples
    <3> QED
      BY <1>1, <1>4, <2>3, <3>1, <3>2
  <2> QED
    BY <1>3, <2>1, <2>4
<1>7. m + 1 <= j /\ j <= n
  BY <1>1, <1>2, <1>3, <1>4
<1> HIDE DEF m, n
<1>8. last \in Nat /\ last <= Len(q) /\ j <= last
  BY <1>1, <1>2, <1>4, <1>7
<1> HIDE DEF last
<1>9. /\ Len(SubSeq(q, m + 1, last)) = last - m
      /\ \A i \in 1..last - m : SubSeq(q, m + 1, last)[i] = q[m + i]
  <2>1. m + 1 \in Nat \ {0} /\ m + 1 <= last
    BY <1>2, <1>4, <1>7, <1>8
  <2>2. Len(SubSeq(q, m + 1, last)) = last - (m + 1) + 1
    BY <1>8, <2>1, SubSeqs
  <2>3. \A i \in 1..Len(SubSeq(q, m + 1, last)) : SubSeq(q, m + 1, last)[i] = q[(m + 1) + i - 1]
    BY <1>8, <2>1, SubSeqs
  <2> QED
    BY <1>4, <1>8, <2>2, <2>3
<1>10. j - m \in 1..last - m /\ SubSeq(q, m + 1, last)[j - m] = e
  BY <1>2, <1>4, <1>7, <1>8, <1>9
<1>11. SubSeq(q, m + 1, last) \in Seq(S)
  BY <1>4, <1>8, SubSeqs
<1>12. e \in Members(SubSeq(q, m + 1, last))
  BY <1>9, <1>10, <1>11 DEF Members
<1> QED
  BY <1>5, <1>6, <1>12

-----------------------------------------------------------------------------
(* Type correctness of the sender.                                         *)
FlushTyped ==
  /\ batch \in Seq(Event)
  /\ phase \in {"idle", "sending", "waiting", "stuck"}
  /\ (phase = "idle" => batch = <<>>) /\ Len(batch) <= config.batchSize
  /\ hop \in 1..6 /\ hop \in 1..Len(Chain)
  /\ retryCount \in 0..MaxRetries
  /\ waits \in 0..MaxRequests /\ (waits > 0 => phase = "sending")
  /\ reply \in {"none", "ok", "error"} /\ (reply # "none" => waits > 0)

WireTyped == wire \subseteq Request /\ requests \in 0..MaxRequests /\ dropped \subseteq Event

PageTyped ==
  /\ config \in Config /\ page \in {"open", "destroyed", "gone"}
  /\ accepted \in 0..MaxEvents /\ queue \in Seq(Event)

LEMMA BaseParts ==
  SenderBase <=> /\ PageTyped /\ FlushTyped /\ WireTyped /\ LogTyped /\ confirmed \subseteq Event
  BY DEF SenderBase, SenderTypeOK, PageTyped, FlushTyped, WireTyped

LEMMA SenderTypeInit == SenderInit /\ log = <<>> => SenderBase
<1> SUFFICES ASSUME SenderInit, log = <<>> PROVE SenderBase
  OBVIOUS
<1>1. config \in Config
  BY DEF SenderInit
<1>2. Len(Chain) \in 1..5 /\ config.batchSize \in Nat
  BY <1>1, ChainTyped, SenderNumbers DEF Config
<1>3. LogTyped
  BY Numbers DEF LogTyped
<1>4. <<>> \in Seq(Event) /\ Len(<<>>) = 0
  OBVIOUS
<1> QED
  BY <1>2, <1>3, <1>4, SenderNumbers, Numbers DEF SenderInit, SenderBase, SenderTypeOK

LEMMA NextAccepted ==
  ASSUME SenderBase, accepted < MaxEvents
  PROVE  /\ accepted + 1 \in Event /\ accepted + 1 \in 0..MaxEvents
         /\ Append(queue, accepted + 1) \in Seq(Event)
<1>1. accepted \in 0..MaxEvents /\ queue \in Seq(Event)
  BY DEF SenderBase, SenderTypeOK
<1>2. accepted + 1 \in Event /\ accepted + 1 \in 0..MaxEvents
  BY <1>1, Numbers DEF Event
<1> QED
  BY <1>1, <1>2

LEMMA FlushTypes ==
  ASSUME SenderBase, NEW q \in Seq(Event), Flush(q),
         UNCHANGED <<config, retryCount, waits, reply>>
  PROVE  FlushTyped' /\ queue' \in Seq(Event)
<1>1. Chain' = Chain
  BY DEF Chain
<1>2. FlushTyped
  BY BaseParts
<1>3. CASE isSending \/ q = <<>>
  BY <1>1, <1>2, <1>3 DEF Flush, FlushTyped
<1>4. CASE ~(isSending \/ q = <<>>)
  <2>1. queue' = Rest(q) /\ batch' = Take(q) /\ phase' = "sending" /\ hop' = 1
    BY <1>4 DEF Flush
  <2>2. /\ Take(q) \in Seq(Event) /\ Rest(q) \in Seq(Event) /\ Len(Take(q)) <= config.batchSize
    BY TakeRest DEF BatchSize, SenderBase, SenderTypeOK
  <2>3. 1 \in 1..Len(Chain)
    BY HopTyped
  <2> QED
    BY <1>1, <1>2, <2>1, <2>2, <2>3 DEF FlushTyped
<1> QED
  BY <1>3, <1>4

LEMMA EmitTypes ==
  ASSUME SenderBase, NEW events \in Seq(Event), NEW via \in Channel, Emit(events, via)
  PROVE  /\ wire' \subseteq Request /\ requests' = requests + 1 /\ requests' \in 0..MaxRequests
         /\ wire' = wire \cup {[no |-> requests + 1, events |-> events, via |-> via]}
<1>1. requests \in 0..MaxRequests /\ wire \subseteq Request
  BY DEF SenderBase, SenderTypeOK
<1>2. requests' = requests + 1 /\ requests + 1 \in 1..MaxRequests
      /\ wire' = wire \cup {[no |-> requests + 1, events |-> events, via |-> via]}
  BY <1>1, SenderNumbers DEF Emit
<1>3. [no |-> requests + 1, events |-> events, via |-> via] \in Request
  BY <1>2 DEF Request
<1> QED
  BY <1>1, <1>2, <1>3, SenderNumbers

(* What flushSync makes of the queue q.                                    *)
LEMMA FlushSyncs ==
  ASSUME SenderBase, NEW q \in Seq(Event), NEW refused, NEW gone \in SUBSET Event,
         FlushSync(q, refused, gone)
  PROVE  /\ WireTyped'
         /\ wire \subseteq wire' /\ requests' >= requests
         /\ \A r \in wire' : r \in wire \/ (requests < r.no /\ r.no <= requests')
         /\ dropped \cup gone \subseteq dropped'
         /\ Members(q) \subseteq dropped' \cup UNION {Members(r.events) : r \in wire'}
<1> DEFINE count == CountOf(q)
           via == IF config.transport = "gif" THEN "gif" ELSE "beacon"
           sent(i) == [no |-> requests + i, events |-> PartOf(q, i), via |-> via]
<1>1. /\ refused \subseteq 1..count
      /\ requests + count <= MaxRequests /\ requests' = requests + count
      /\ wire' = wire \cup {sent(i) : i \in (1..count) \ refused}
      /\ dropped' = dropped \cup gone \cup UNION {Members(PartOf(q, i)) : i \in refused}
  BY DEF FlushSync, CountOf, PartOf
<1>2. config \in Config /\ requests \in 0..MaxRequests /\ wire \subseteq Request /\ dropped \subseteq Event
  BY DEF SenderBase, SenderTypeOK
<1>3. count \in Nat
  <2>1. BatchSize \in Nat \ {0} /\ Len(q) + BatchSize - 1 \in Nat
    BY <1>2, SizeTyped
  <2> QED
    BY <2>1, Quotient DEF CountOf
<1>4. \A i \in 1..count : PartOf(q, i) \in Seq(Event)
  BY <1>2, PartTyped
<1>5. \A e \in Members(q) : \E i \in 1..count : e \in Members(PartOf(q, i))
  BY <1>2, PartsCover
<1> HIDE DEF count
<1>6. via \in Channel
  BY DEF Channel
<1> HIDE DEF via
<1>7. \A i \in 1..count : /\ sent(i) \in Request /\ sent(i).events = PartOf(q, i)
                          /\ sent(i).no = requests + i
  BY <1>1, <1>2, <1>3, <1>4, <1>6, SenderNumbers DEF Request
<1>8. \A i \in 1..count : Members(PartOf(q, i)) \subseteq Event
  BY <1>4, MembersOf
<1> HIDE DEF sent
<1>9. WireTyped'
  BY <1>1, <1>2, <1>3, <1>7, <1>8, SenderNumbers DEF WireTyped
<1>10. wire \subseteq wire' /\ requests' >= requests /\ dropped \cup gone \subseteq dropped'
  BY <1>1, <1>2, <1>3
<1>11. ASSUME NEW r \in wire' PROVE r \in wire \/ (requests < r.no /\ r.no <= requests')
  <2>1. CASE r \in wire
    BY <2>1
  <2>2. ASSUME NEW i \in 1..count, r = sent(i) PROVE requests < r.no /\ r.no <= requests'
    <3>1. r.no = requests + i
      BY <1>7, <2>2
    <3> QED
      BY <1>1, <1>2, <1>3, <3>1
  <2> QED
    BY <1>1, <2>1, <2>2
<1>12. ASSUME NEW e \in Members(q)
       PROVE  e \in dropped' \cup UNION {Members(r.events) : r \in wire'}
  <2>1. PICK i \in 1..count : e \in Members(PartOf(q, i))
    BY <1>5
  <2>2. CASE i \in refused
    BY <1>1, <2>1, <2>2
  <2>3. CASE i \notin refused
    <3>1. sent(i) \in wire' /\ e \in Members(sent(i).events)
      BY <1>1, <1>7, <2>1, <2>3
    <3> QED
      BY <3>1
  <2> QED
    BY <2>2, <2>3
<1>13. Members(q) \subseteq dropped' \cup UNION {Members(r.events) : r \in wire'}
  BY <1>12
<1>14. \A r \in wire' : r \in wire \/ (requests < r.no /\ r.no <= requests')
  BY <1>11, Zenon
<1> QED
  BY <1>9, <1>10, <1>13, <1>14

LEMMA DeliveredTypes ==
  ASSUME SenderBase, Delivered, UNCHANGED config
  PROVE  FlushTyped'
<1>1. Chain' = Chain /\ 1 \in 1..Len(Chain)
  BY HopTyped DEF Chain
<1>2. <<>> \in Seq(Event) /\ Len(<<>>) = 0
  OBVIOUS
<1>3. config.batchSize \in Nat
  BY SizeTyped DEF SenderBase, SenderTypeOK, BatchSize
<1> QED
  BY <1>1, <1>2, <1>3, SenderNumbers DEF Delivered, FlushTyped

LEMMA FailedTypes ==
  ASSUME SenderBase, BatchFailed \/ FailOver, UNCHANGED config
  PROVE  FlushTyped' /\ dropped' \subseteq Event /\ dropped \subseteq dropped'
<1>1. Chain' = Chain /\ 1 \in 1..Len(Chain) /\ Len(Chain) \in 1..5
  BY HopTyped, ChainTyped DEF Chain, SenderBase, SenderTypeOK
<1>2. FlushTyped /\ dropped \subseteq Event
  BY BaseParts DEF WireTyped
<1>3. <<>> \in Seq(Event) /\ Len(<<>>) = 0 /\ Members(batch) \subseteq Event
  BY <1>2, MembersOf DEF FlushTyped
<1>6. config.batchSize \in Nat
  BY SizeTyped DEF SenderBase, SenderTypeOK, BatchSize
<1>4. CASE BatchFailed
  <2>1. waits' = 0 /\ reply' = "none" /\ hop' = 1 /\ hop' \in 1..6 /\ hop' \in 1..Len(Chain)'
    BY <1>1, <1>4 DEF BatchFailed
  <2>2. CASE retryCount < MaxRetries /\ retryCount' = retryCount + 1 /\ phase' = "waiting"
             /\ UNCHANGED <<batch, dropped>>
    <3>1. retryCount' \in 0..MaxRetries
      BY <1>2, <2>2, SenderNumbers DEF FlushTyped
    <3> QED
      BY <1>2, <2>1, <2>2, <3>1, SenderNumbers DEF FlushTyped
  <2>3. CASE retryCount' = 0 /\ phase' = "idle" /\ batch' = <<>>
             /\ dropped' = dropped \cup Members(batch)
    BY <1>2, <1>3, <1>6, <2>1, <2>3, SenderNumbers DEF FlushTyped
  <2> QED
    BY <1>4, <2>2, <2>3 DEF BatchFailed
<1>5. CASE hop # Len(Chain) /\ hop' = hop + 1 /\ waits' = 0 /\ reply' = "none"
           /\ UNCHANGED <<batch, phase, retryCount, dropped>>
  <2>2. hop \in 1..Len(Chain)
    BY <1>2 DEF FlushTyped
  <2>3. hop + 1 \in 1..6 /\ hop + 1 \in 1..Len(Chain)
    <3>1. PICK n \in 1..5 : n = Len(Chain) /\ hop # n
      BY <1>1, <1>5
    <3> QED
      BY <2>2, <3>1
  <2>1. hop' \in 1..6 /\ hop' \in 1..Len(Chain)'
    BY <1>1, <1>5, <2>3
  <2> QED
    BY <1>2, <1>5, <2>1, SenderNumbers DEF FlushTyped
<1> QED
  BY <1>4, <1>5 DEF FailOver

LEMMA TypeScript == SenderBase /\ (Send \/ FlushTimer \/ RetryTimer) => SenderBase'
<1> SUFFICES ASSUME SenderBase, Send \/ FlushTimer \/ RetryTimer PROVE SenderBase'
  OBVIOUS
<1>1. PageTyped /\ FlushTyped /\ WireTyped /\ LogTyped /\ confirmed \subseteq Event
  BY BaseParts
<1>2. UNCHANGED <<log, config, page, retryCount, waits, reply, wireVars, dropped, confirmed>>
  BY DEF Send, FlushTimer, RetryTimer
<1>3. FlushTyped' /\ queue' \in Seq(Event) /\ accepted' \in 0..MaxEvents
  <2>1. CASE Send
    <3>1. PICK high \in BOOLEAN :
            LET q == Append(queue, accepted + 1) IN
            /\ accepted < MaxEvents
            /\ accepted' = accepted + 1
            /\ IF Len(q) >= BatchSize \/ high THEN Flush(q)
               ELSE queue' = q /\ UNCHANGED <<batch, phase, hop>>
      BY <2>1 DEF Send
    <3>2. Append(queue, accepted + 1) \in Seq(Event) /\ accepted' \in 0..MaxEvents
      BY <3>1, NextAccepted
    <3>3. CASE Flush(Append(queue, accepted + 1))
      BY <1>2, <3>2, <3>3, FlushTypes
    <3>4. CASE queue' = Append(queue, accepted + 1) /\ UNCHANGED <<batch, phase, hop>>
      BY <1>1, <1>2, <3>2, <3>4 DEF FlushTyped, Chain
    <3> QED
      BY <3>1, <3>2, <3>3, <3>4
  <2>2. CASE FlushTimer
    BY <1>1, <1>2, <2>2, FlushTypes DEF FlushTimer, PageTyped
  <2>3. CASE RetryTimer
    <3> DEFINE q == batch \o queue
    <3>1. queue' = Rest(q) /\ batch' = Take(q) /\ phase' = "sending" /\ hop' = 1
          /\ UNCHANGED accepted
      BY <2>3 DEF RetryTimer
    <3>2. q \in Seq(Event) /\ config \in Config
      BY <1>1 DEF PageTyped, FlushTyped
    <3> HIDE DEF q
    <3>3. Take(q) \in Seq(Event) /\ Rest(q) \in Seq(Event) /\ Len(Take(q)) <= config.batchSize
      BY <3>2, TakeRest DEF BatchSize
    <3>4. Chain' = Chain /\ 1 \in 1..Len(Chain)
      BY <1>2, HopTyped DEF Chain
    <3> QED
      BY <1>1, <1>2, <3>1, <3>3, <3>4 DEF FlushTyped, PageTyped
  <2> QED
    BY <2>1, <2>2, <2>3
<1>4. PageTyped' /\ WireTyped' /\ LogTyped'
  BY <1>1, <1>2, <1>3 DEF PageTyped, WireTyped, LogTyped, wireVars
<1> QED
  BY <1>1, <1>2, <1>3, <1>4, BaseParts DEF SenderBase, SenderTypeOK, PageTyped, FlushTyped, WireTyped

LEMMA TypeTransmit == SenderBase /\ (Transmit \/ Refuse) => SenderBase'
<1> SUFFICES ASSUME SenderBase, Transmit \/ Refuse PROVE SenderBase'
  OBVIOUS
<1>1. PageTyped /\ FlushTyped /\ WireTyped /\ LogTyped /\ confirmed \subseteq Event
  BY BaseParts
<1>2. UNCHANGED <<log, config, page, accepted, queue, confirmed>> /\ phase = "sending"
  BY DEF Transmit, Refuse, Busy
<1>3. Chain[hop] \in Channel /\ batch \in Seq(Event) /\ <<>> \in Seq(Event)
      /\ "gif" \in Channel /\ Members(batch) \subseteq Event
  BY <1>1, HopTyped, MembersOf DEF FlushTyped, Channel
<1>4. FlushTyped' /\ WireTyped'
  <2>1. CASE Transmit
    <3>1. wire' \subseteq Request /\ requests' = requests + 1 /\ requests' \in 0..MaxRequests
      BY <1>3, <2>1, EmitTypes DEF Transmit
    <3>2. CASE Delivered
      BY <1>1, <1>2, <2>1, <3>1, <3>2, DeliveredTypes DEF Transmit, WireTyped
    <3>3. CASE waits' = requests + 1 /\ UNCHANGED <<batch, phase, hop, retryCount, reply>>
      BY <1>1, <1>2, <2>1, <3>1, <3>3 DEF Transmit, WireTyped, FlushTyped, Chain
    <3> QED
      BY <2>1, <3>2, <3>3 DEF Transmit
  <2>2. CASE Emit(<<>>, "gif") /\ waits' = requests + 1 /\ dropped' = dropped \cup Members(batch)
             /\ UNCHANGED <<batch, phase, hop, retryCount, reply>>
    <3>1. wire' \subseteq Request /\ requests' = requests + 1 /\ requests' \in 0..MaxRequests
      BY <1>3, <2>2, EmitTypes
    <3> QED
      BY <1>1, <1>2, <1>3, <2>2, <3>1 DEF WireTyped, FlushTyped, Chain
  <2>3. CASE FailOver /\ UNCHANGED wireVars
    BY <1>1, <1>2, <2>3, FailedTypes DEF WireTyped, wireVars
  <2> QED
    BY <2>1, <2>2, <2>3 DEF Refuse
<1>5. PageTyped' /\ LogTyped'
  BY <1>1, <1>2 DEF PageTyped, LogTyped
<1> QED
  BY <1>1, <1>2, <1>4, <1>5 DEF SenderBase, SenderTypeOK, PageTyped, FlushTyped, WireTyped

LEMMA TypeAnswer == SenderBase /\ (Answer \/ NoAnswer) => SenderBase'
<1> SUFFICES ASSUME SenderBase, Answer \/ NoAnswer PROVE SenderBase'
  OBVIOUS
<1>1. PageTyped /\ FlushTyped /\ WireTyped /\ LogTyped /\ confirmed \subseteq Event
  BY BaseParts
<1>2. UNCHANGED <<log, config, page, accepted, queue, wireVars>>
  BY DEF Answer, NoAnswer
<1>3. confirmed' \subseteq Event
  BY <1>1, MembersOf DEF Answer, NoAnswer, FlushTyped
<1>4. FlushTyped' /\ dropped' \subseteq Event
  BY <1>1, <1>2, DeliveredTypes, FailedTypes DEF Answer, NoAnswer, WireTyped
<1>5. PageTyped' /\ LogTyped' /\ WireTyped'
  BY <1>1, <1>2, <1>4 DEF PageTyped, LogTyped, WireTyped, wireVars
<1> QED
  BY <1>3, <1>4, <1>5 DEF SenderBase, SenderTypeOK, PageTyped, FlushTyped, WireTyped

LEMMA TypeLeaving == SenderBase /\ (PageHide \/ Destroy \/ PageGone) => SenderBase'
<1> SUFFICES ASSUME SenderBase, PageHide \/ Destroy \/ PageGone PROVE SenderBase'
  OBVIOUS
<1>1. PageTyped /\ FlushTyped /\ WireTyped /\ LogTyped /\ confirmed \subseteq Event
  BY BaseParts
<1>2. UNCHANGED <<log, config, confirmed>> /\ Chain' = Chain
  BY DEF PageHide, Destroy, PageGone, Chain
<1>3. /\ 1 \in 1..Len(Chain) /\ config \in Config /\ config.batchSize \in Nat
      /\ <<>> \in Seq(Event) /\ Len(<<>>) = 0
      /\ Members(queue) \subseteq Event /\ Members(batch) \subseteq Event
  BY <1>1, HopTyped, SizeTyped, MembersOf DEF PageTyped, FlushTyped, BatchSize
<1>4. FlushTyped' /\ WireTyped' /\ page' \in {"open", "destroyed", "gone"}
      /\ accepted' \in 0..MaxEvents /\ queue' \in Seq(Event)
  <2>1. CASE PageHide
    <3> DEFINE q == Append(queue, accepted + 1)
               flushed == Len(q) >= BatchSize /\ ~isSending
    <3>1. PICK refused : FlushSync(IF flushed THEN Rest(q) ELSE q, refused, {})
      BY <2>1 DEF PageHide
    <3>2. q \in Seq(Event) /\ accepted' \in 0..MaxEvents
      BY <2>1, NextAccepted DEF PageHide
    <3>3. UNCHANGED <<page, retryCount, waits, reply>> /\ queue' = <<>>
      BY <2>1 DEF PageHide
    <3>4. \/ ~isSending /\ batch' = Take(q) /\ phase' = "sending" /\ hop' = 1
          \/ UNCHANGED <<batch, phase, hop>>
      BY <2>1 DEF PageHide
    <3> HIDE DEF q, flushed
    <3>5. Take(q) \in Seq(Event) /\ Rest(q) \in Seq(Event) /\ Len(Take(q)) <= config.batchSize
      BY <1>3, <3>2, TakeRest DEF BatchSize
    <3>6. (IF flushed THEN Rest(q) ELSE q) \in Seq(Event) /\ {} \in SUBSET Event
      BY <3>2, <3>5
    <3>7. WireTyped'
      BY <3>1, <3>6, FlushSyncs
    <3>8. FlushTyped'
      BY <1>1, <1>2, <1>3, <3>3, <3>4, <3>5 DEF FlushTyped, isSending
    <3> QED
      BY <1>1, <1>3, <3>2, <3>3, <3>7, <3>8 DEF PageTyped
  <2>2. CASE Destroy
    <3>1. page' = "destroyed" /\ queue' = <<>> /\ UNCHANGED <<accepted, retryCount, waits, reply>>
      BY <2>2 DEF Destroy
    <3>2. CASE /\ isSending
               /\ \E refused \in SUBSET (1..MaxEvents) :
                    FlushSync(queue, refused, IF phase = "waiting" THEN Members(batch) ELSE {})
               /\ IF phase = "waiting" THEN phase' = "stuck" /\ batch' = <<>>
                  ELSE UNCHANGED <<phase, batch>>
               /\ UNCHANGED hop
      <4>1. (IF phase = "waiting" THEN Members(batch) ELSE {}) \in SUBSET Event
        BY <1>3
      <4>2. WireTyped'
        BY <1>1, <3>2, <4>1, FlushSyncs DEF PageTyped
      <4>3. CASE phase = "waiting"
        <5>1. phase' = "stuck" /\ batch' = <<>> /\ waits = 0 /\ reply = "none"
          BY <1>1, <3>2, <4>3 DEF FlushTyped
        <5>2. FlushTyped'
          BY <1>1, <1>2, <1>3, <3>1, <3>2, <5>1 DEF FlushTyped
        <5> QED
          BY <1>1, <1>3, <3>1, <4>2, <5>2 DEF PageTyped
      <4>4. CASE phase # "waiting"
        <5>1. FlushTyped'
          BY <1>1, <1>2, <3>1, <3>2, <4>4 DEF FlushTyped
        <5> QED
          BY <1>1, <1>3, <3>1, <4>2, <5>1 DEF PageTyped
      <4> QED
        BY <4>3, <4>4
    <3>3. CASE /\ ~isSending
               /\ batch' = Take(queue) /\ hop' = 1
               /\ phase' = IF queue = <<>> THEN "idle" ELSE "sending"
               /\ dropped' = dropped \cup Members(Rest(queue))
               /\ UNCHANGED <<faults, wireVars>>
      <4>1. Take(queue) \in Seq(Event) /\ Rest(queue) \in Seq(Event)
            /\ Len(Take(queue)) <= config.batchSize
        BY <1>1, TakeRest DEF BatchSize, PageTyped
      <4>2. queue = <<>> => Take(queue) = <<>>
        BY <1>3, SizeTyped DEF Take
      <4>3. WireTyped'
        BY <1>1, <3>3, <4>1, MembersOf DEF WireTyped, wireVars
      <4>4. FlushTyped'
        BY <1>1, <1>2, <1>3, <3>1, <3>3, <4>1, <4>2 DEF FlushTyped, isSending
      <4> QED
        BY <1>1, <1>3, <3>1, <4>3, <4>4 DEF PageTyped
    <3> QED
      BY <2>2, <3>2, <3>3 DEF Destroy
  <2>3. CASE PageGone
    <3>1. FlushTyped'
      BY <1>2, <1>3, <2>3, SenderNumbers DEF PageGone, FlushTyped
    <3>2. WireTyped' /\ UNCHANGED accepted /\ page' = "gone" /\ queue' = <<>>
      BY <1>1, <1>3, <2>3 DEF PageGone, WireTyped, wireVars
    <3> QED
      BY <1>1, <1>3, <3>1, <3>2 DEF PageTyped
  <2> QED
    BY <2>1, <2>2, <2>3
<1>5. PageTyped' /\ LogTyped'
  BY <1>1, <1>2, <1>4 DEF PageTyped, LogTyped
<1> QED
  BY <1>1, <1>2, <1>4, <1>5 DEF SenderBase, SenderTypeOK, PageTyped, FlushTyped, WireTyped

(* A request is received: the events that arrive are appended in some order*)
LEMMA Received ==
  ASSUME SenderBase, NEW r \in wire, Receive(r)
  PROVE  \E appended \in SUBSET DOMAIN r.events : \E known \in SUBSET appended, s \in Seq(Event) :
           /\ Members(s) = {r.events[i] : i \in appended}
           /\ Append2Log(s)
           /\ wire' = wire \ {r}
           /\ reply' = IF r.no = waits THEN Reply(r, known) ELSE reply
           /\ dropped' = dropped \cup
                (IF r.no = waits /\ r.via # "gif" THEN {}
                 ELSE {r.events[i] : i \in DOMAIN r.events \ appended})
<1>1. PICK appended \in SUBSET DOMAIN r.events : \E known \in SUBSET appended, place \in Ascending(appended) :
        /\ wire' = wire \ {r}
        /\ Append2Log([i \in DOMAIN place |-> r.events[place[i]]])
        /\ reply' = IF r.no = waits THEN Reply(r, known) ELSE reply
        /\ dropped' = dropped \cup
             (IF r.no = waits /\ r.via # "gif" THEN {}
              ELSE {r.events[i] : i \in DOMAIN r.events \ appended})
  BY DEF Receive
<1>2. PICK known \in SUBSET appended, place \in Ascending(appended) :
        /\ wire' = wire \ {r}
        /\ Append2Log([i \in DOMAIN place |-> r.events[place[i]]])
        /\ reply' = IF r.no = waits THEN Reply(r, known) ELSE reply
        /\ dropped' = dropped \cup
             (IF r.no = waits /\ r.via # "gif" THEN {}
              ELSE {r.events[i] : i \in DOMAIN r.events \ appended})
  BY <1>1
<1>3. r.events \in Seq(Event) /\ DOMAIN r.events = 1..Len(r.events) /\ Len(r.events) \in Nat
  BY DEF SenderBase, SenderTypeOK, Request
<1>4. Cardinality(appended) \in Nat
  <2>1. IsFiniteSet(1..Len(r.events))
    BY <1>3, FS_Interval
  <2>2. IsFiniteSet(appended)
    BY <1>3, <2>1, FS_Subset
  <2> QED
    BY <2>2, FS_CardinalityType
<1> DEFINE n == Cardinality(appended)
           s == [i \in DOMAIN place |-> r.events[place[i]]]
<1>5. place \in [1..n -> appended] /\ Members(place) = appended
  BY DEF Ascending
<1> HIDE DEF n
<1>6. s = [i \in 1..n |-> r.events[place[i]]] /\ n \in Nat
  BY <1>4, <1>5 DEF n
<1>7. s \in [1..n -> Event]
  BY <1>3, <1>5, <1>6
<1>8. s \in Seq(Event)
  BY <1>6, <1>7
<1>9. Members(s) = {r.events[i] : i \in appended}
  BY <1>5, <1>6 DEF Members
<1> QED
  BY <1>2, <1>8, <1>9

LEMMA TypeNetwork == SenderBase /\ Network => SenderBase'
<1> SUFFICES ASSUME SenderBase, NEW r \in wire, LoseRequest(r) \/ Receive(r) PROVE SenderBase'
  BY DEF Network
<1>1. PageTyped /\ FlushTyped /\ WireTyped /\ LogTyped /\ confirmed \subseteq Event
  BY BaseParts
<1>2. r.events \in Seq(Event) /\ r.no \in 1..MaxRequests
  BY <1>1 DEF WireTyped, Request
<1>3. UNCHANGED <<config, page, accepted, queue, batch, phase, hop, retryCount, waits, requests,
                  confirmed>>
  BY DEF LoseRequest, Receive, flushVars
<1>4. CASE LoseRequest(r)
  <2>1. wire' = wire \ {r} /\ dropped' \subseteq Event
    BY <1>1, <1>2, <1>4, MembersOf DEF LoseRequest, WireTyped
  <2>2. UNCHANGED <<log, reply>>
    BY <1>4 DEF LoseRequest, flushVars
  <2> QED
    BY <1>1, <1>3, <2>1, <2>2
    DEF SenderBase, SenderTypeOK, PageTyped, FlushTyped, WireTyped, LogTyped, Chain
<1>5. CASE Receive(r)
  <2>1. PICK appended \in SUBSET DOMAIN r.events, known \in SUBSET DOMAIN r.events, s \in Seq(Event) :
           /\ Append2Log(s)
           /\ wire' = wire \ {r}
           /\ reply' = IF r.no = waits THEN Reply(r, known) ELSE reply
           /\ dropped' = dropped \cup
                (IF r.no = waits /\ r.via # "gif" THEN {}
                 ELSE {r.events[i] : i \in DOMAIN r.events \ appended})
    BY <1>5, Received
  <2>2. LogTyped'
    BY <1>1, <2>1 DEF Append2Log, LogTyped
  <2>3. dropped' \subseteq Event
    BY <1>1, <1>2, <2>1 DEF WireTyped
  <2>4. reply' \in {"none", "ok", "error"} /\ (reply' # "none" => waits > 0)
    BY <1>1, <1>2, <2>1 DEF Reply, FlushTyped
  <2> QED
    BY <1>1, <1>3, <2>1, <2>2, <2>3, <2>4
    DEF SenderBase, SenderTypeOK, PageTyped, FlushTyped, WireTyped, Chain
<1> QED
  BY <1>4, <1>5

LEMMA SenderTypeStep == SenderBase /\ [SenderNext]_<<log, faults, senderVars>> => SenderBase'
<1> SUFFICES ASSUME SenderBase, [SenderNext]_<<log, faults, senderVars>> PROVE SenderBase'
  OBVIOUS
<1>1. CASE UNCHANGED <<log, faults, senderVars>>
  BY <1>1 DEF SenderBase, SenderTypeOK, LogTyped, senderVars, flushVars, wireVars, Chain
<1>2. CASE Script
  BY <1>2, TypeScript, TypeTransmit, TypeAnswer DEF Script
<1>3. CASE Leaving
  BY <1>3, TypeLeaving DEF Leaving
<1>4. CASE Network
  BY <1>4, TypeNetwork
<1> QED
  BY <1>1, <1>2, <1>3, <1>4 DEF SenderNext

(* The types of the sender hold: a batch is never longer than configured,  *)
(* and flush waits for an answer only while it sends.                      *)
THEOREM SenderTypeCorrect == SenderSpec => []SenderTypeOK
<1>1. SenderStart => SenderBase
  BY SenderTypeInit DEF SenderStart
<1>2. SenderBase /\ [SenderNext]_<<log, faults, senderVars>> => SenderBase'
  BY SenderTypeStep
<1>3. SenderBase => SenderTypeOK
  BY DEF SenderBase
<1> QED
  BY <1>1, <1>2, <1>3, PTL DEF SenderSpec

-----------------------------------------------------------------------------
(* Order.  What the page holds is in order, and came before the next event.*)
InOrder(s) == \A i, j \in DOMAIN s : i < j => s[i] < s[j]

HeldInOrder ==
  /\ InOrder(batch) /\ InOrder(queue)
  /\ \A d \in Members(batch), e \in Members(queue) : d < e
  /\ \A e \in Members(batch) \cup Members(queue) : e <= accepted

LEMMA OrderedConcat ==
  ASSUME NEW s \in Seq(Event), NEW t \in Seq(Event)
  PROVE  InOrder(s \o t) <=> /\ InOrder(s) /\ InOrder(t)
                             /\ \A d \in Members(s), e \in Members(t) : d < e
<1> DEFINE u == s \o t
<1>1. /\ u \in Seq(Event) /\ Len(u) = Len(s) + Len(t)
      /\ \A i \in 1..Len(s) : u[i] = s[i]
      /\ \A i \in 1..Len(t) : u[Len(s) + i] = t[i]
  BY Concat
<1>2. /\ DOMAIN u = 1..Len(u) /\ DOMAIN s = 1..Len(s) /\ DOMAIN t = 1..Len(t)
      /\ Len(s) \in Nat /\ Len(t) \in Nat
  BY <1>1
<1> HIDE DEF u
<1>3. ASSUME InOrder(u)
      PROVE  InOrder(s) /\ InOrder(t) /\ \A d \in Members(s), e \in Members(t) : d < e
  <2>1. InOrder(s)
    BY <1>1, <1>2, <1>3 DEF InOrder
  <2>2. ASSUME NEW i \in DOMAIN t, NEW j \in DOMAIN t, i < j PROVE t[i] < t[j]
    <3>1. Len(s) + i \in DOMAIN u /\ Len(s) + j \in DOMAIN u /\ Len(s) + i < Len(s) + j
      BY <1>1, <1>2, <2>2
    <3>2. u[Len(s) + i] < u[Len(s) + j]
      BY <1>3, <3>1 DEF InOrder
    <3> QED
      BY <1>1, <1>2, <3>2
  <2>3. ASSUME NEW i \in DOMAIN s, NEW j \in DOMAIN t PROVE s[i] < t[j]
    <3>1. i \in DOMAIN u /\ Len(s) + j \in DOMAIN u /\ i < Len(s) + j
      BY <1>1, <1>2, <2>3
    <3>2. u[i] < u[Len(s) + j]
      BY <1>3, <3>1 DEF InOrder
    <3> QED
      BY <1>1, <1>2, <3>2
  <2> QED
    BY <2>1, <2>2, <2>3 DEF InOrder, Members
<1>4. ASSUME InOrder(s), InOrder(t), \A d \in Members(s), e \in Members(t) : d < e
      PROVE  InOrder(u)
  <2> SUFFICES ASSUME NEW i \in DOMAIN u, NEW j \in DOMAIN u, i < j PROVE u[i] < u[j]
    BY DEF InOrder
  <2>1. CASE j <= Len(s)
    BY <1>1, <1>2, <1>4, <2>1 DEF InOrder
  <2>2. CASE i <= Len(s) /\ j > Len(s)
    <3>1. i \in DOMAIN s /\ j - Len(s) \in DOMAIN t /\ Len(s) + (j - Len(s)) = j
      BY <1>1, <1>2, <2>2
    <3>2. u[i] = s[i] /\ u[j] = t[j - Len(s)]
      BY <1>1, <1>2, <3>1
    <3>3. s[i] \in Members(s) /\ t[j - Len(s)] \in Members(t)
      BY <3>1 DEF Members
    <3> QED
      BY <1>4, <3>2, <3>3
  <2>3. CASE i > Len(s)
    <3>1. /\ i - Len(s) \in DOMAIN t /\ j - Len(s) \in DOMAIN t /\ i - Len(s) < j - Len(s)
          /\ Len(s) + (j - Len(s)) = j /\ Len(s) + (i - Len(s)) = i
      BY <1>1, <1>2, <2>3
    <3>2. u[i] = t[i - Len(s)] /\ u[j] = t[j - Len(s)]
      BY <1>1, <1>2, <3>1
    <3> QED
      BY <1>4, <3>1, <3>2 DEF InOrder
  <2> QED
    BY <1>1, <1>2, <2>1, <2>2, <2>3
<1> QED
  BY <1>3, <1>4 DEF u

LEMMA OrderedSmall == InOrder(<<>>) /\ \A x \in Event : InOrder(<<x>>) /\ Members(<<x>>) = {x}
  BY DEF InOrder, Members

LEMMA OrderedAppend ==
  ASSUME NEW s \in Seq(Event), NEW x \in Event, InOrder(s), \A e \in Members(s) : e < x
  PROVE  InOrder(Append(s, x)) /\ Members(Append(s, x)) = Members(s) \cup {x}
<1>1. Append(s, x) = s \o <<x>>
  OBVIOUS
<1>2. <<x>> \in Seq(Event)
  OBVIOUS
<1>3. InOrder(s \o <<x>>)
  <2>1. InOrder(<<x>>) /\ Members(<<x>>) = {x}
    BY OrderedSmall
  <2> QED
    BY <1>2, <2>1, OrderedConcat
<1>4. Members(Append(s, x)) = Members(s) \cup {x}
  BY MembersOf
<1> QED
  BY <1>1, <1>3, <1>4

(* A queue in order is cut into a batch and a rest in order.               *)
LEMMA OrderedCut ==
  ASSUME config \in Config, NEW q \in Seq(Event), InOrder(q)
  PROVE  /\ InOrder(Take(q)) /\ InOrder(Rest(q))
         /\ \A d \in Members(Take(q)), e \in Members(Rest(q)) : d < e
         /\ Members(q) = Members(Take(q)) \cup Members(Rest(q))
<1>1. /\ Take(q) \in Seq(Event) /\ Rest(q) \in Seq(Event) /\ Take(q) \o Rest(q) = q
      /\ Members(q) = Members(Take(q)) \cup Members(Rest(q))
  BY TakeRest
<1>2. InOrder(Take(q) \o Rest(q))
  BY <1>1
<1> QED
  BY <1>1, <1>2, OrderedConcat

(* flush keeps the order of the queue it is called with.                   *)
LEMMA OrderFlush ==
  ASSUME SenderBase, NEW q \in Seq(Event), Flush(q), InOrder(batch), InOrder(q),
         \A d \in Members(batch), e \in Members(q) : d < e,
         \A e \in Members(batch) \cup Members(q) : e <= accepted'
  PROVE  HeldInOrder'
<1>1. CASE isSending \/ q = <<>>
  BY <1>1 DEF Flush, HeldInOrder
<1>2. CASE ~(isSending \/ q = <<>>)
  <2>1. queue' = Rest(q) /\ batch' = Take(q)
    BY <1>2 DEF Flush
  <2> QED
    BY <2>1, OrderedCut DEF HeldInOrder, SenderBase, SenderTypeOK
<1> QED
  BY <1>1, <1>2

LEMMA OrderScript == SenderBase /\ HeldInOrder /\ (Send \/ FlushTimer \/ RetryTimer) => HeldInOrder'
<1> SUFFICES ASSUME SenderBase, HeldInOrder, Send \/ FlushTimer \/ RetryTimer PROVE HeldInOrder'
  OBVIOUS
<1>1. /\ batch \in Seq(Event) /\ queue \in Seq(Event) /\ accepted \in Nat /\ config \in Config
      /\ Members(batch) \subseteq Event /\ Members(queue) \subseteq Event /\ Event \subseteq Nat
  BY Numbers, MembersOf DEF SenderBase, SenderTypeOK, Event
<1>2. CASE Send
  <2> DEFINE q == Append(queue, accepted + 1)
  <2>1. /\ accepted' = accepted + 1 /\ accepted < MaxEvents
        /\ Flush(q) \/ (queue' = q /\ UNCHANGED <<batch, phase, hop>>)
    BY <1>2 DEF Send
  <2>2. accepted + 1 \in Event /\ q \in Seq(Event)
    BY <2>1, NextAccepted
  <2>3. ASSUME NEW e \in Members(batch) \cup Members(queue) PROVE e < accepted + 1 /\ e \in Nat
    <3>1. e <= accepted /\ e \in Nat
      BY <1>1 DEF HeldInOrder
    <3> QED
      BY <1>1, <3>1
  <2>4. InOrder(q) /\ Members(q) = Members(queue) \cup {accepted + 1}
    BY <1>1, <2>2, <2>3, OrderedAppend DEF HeldInOrder
  <2> HIDE DEF q
  <2>5. \A d \in Members(batch), e \in Members(q) : d < e
    BY <2>3, <2>4 DEF HeldInOrder
  <2>7. ASSUME NEW e \in Members(batch) \cup Members(q) PROVE e <= accepted'
    <3>1. CASE e \in Members(batch) \cup Members(queue)
      BY <1>1, <2>1, <2>3, <3>1
    <3>2. CASE e = accepted + 1
      BY <1>1, <2>1, <3>2
    <3> QED
      BY <2>4, <3>1, <3>2
  <2>6. CASE Flush(q)
    BY <2>2, <2>4, <2>5, <2>6, <2>7, OrderFlush DEF HeldInOrder
  <2> QED
    BY <2>1, <2>4, <2>5, <2>6, <2>7 DEF HeldInOrder
<1>3. CASE FlushTimer
  BY <1>1, <1>3, OrderFlush DEF FlushTimer, HeldInOrder
<1>4. CASE RetryTimer
  <2> DEFINE q == batch \o queue
  <2>1. queue' = Rest(q) /\ batch' = Take(q) /\ UNCHANGED accepted
    BY <1>4 DEF RetryTimer
  <2>2. q \in Seq(Event) /\ InOrder(q) /\ Members(q) = Members(batch) \cup Members(queue)
    BY <1>1, OrderedConcat, Concat, MembersOf DEF HeldInOrder
  <2> HIDE DEF q
  <2> QED
    BY <1>1, <2>1, <2>2, OrderedCut DEF HeldInOrder
<1> QED
  BY <1>2, <1>3, <1>4

LEMMA OrderLeaving == SenderBase /\ HeldInOrder /\ Leaving => HeldInOrder'
<1> SUFFICES ASSUME SenderBase, HeldInOrder, Leaving PROVE HeldInOrder'
  OBVIOUS
<1>1. /\ batch \in Seq(Event) /\ queue \in Seq(Event) /\ accepted \in Nat /\ config \in Config
      /\ Members(batch) \subseteq Event /\ Members(queue) \subseteq Event /\ Event \subseteq Nat
  BY Numbers, MembersOf DEF SenderBase, SenderTypeOK, Event
<1>2. queue' = <<>> /\ Members(<<>>) = {} /\ InOrder(<<>>)
  BY MembersOf, OrderedSmall DEF Leaving, PageHide, Destroy, PageGone
<1>3. InOrder(batch') /\ \A e \in Members(batch') : e <= accepted'
  <2>1. CASE PageHide
    <3> DEFINE q == Append(queue, accepted + 1)
    <3>1. /\ accepted' = accepted + 1 /\ accepted < MaxEvents
          /\ batch' = Take(q) \/ batch' = batch
      BY <2>1 DEF PageHide
    <3>2. accepted + 1 \in Event /\ q \in Seq(Event)
      BY <3>1, NextAccepted
    <3>3. ASSUME NEW e \in Members(batch) \cup Members(queue) PROVE e < accepted + 1 /\ e \in Nat
      <4>1. e <= accepted /\ e \in Nat
        BY <1>1 DEF HeldInOrder
      <4> QED
        BY <1>1, <4>1
    <3>4. InOrder(q) /\ Members(q) = Members(queue) \cup {accepted + 1}
      BY <1>1, <3>2, <3>3, OrderedAppend DEF HeldInOrder
    <3> HIDE DEF q
    <3>5. InOrder(Take(q)) /\ Members(Take(q)) \subseteq Members(q)
      BY <1>1, <3>2, <3>4, OrderedCut
    <3>6. ASSUME NEW e \in Members(batch) \cup Members(q) PROVE e <= accepted'
      <4>1. CASE e \in Members(batch) \cup Members(queue)
        BY <1>1, <3>1, <3>3, <4>1
      <4>2. CASE e = accepted + 1
        BY <1>1, <3>1, <4>2
      <4> QED
        BY <3>4, <4>1, <4>2
    <3> QED
      BY <3>1, <3>5, <3>6 DEF HeldInOrder
  <2>2. CASE Destroy
    <3>1. UNCHANGED accepted /\ (batch' = <<>> \/ batch' = batch \/ batch' = Take(queue))
      BY <2>2 DEF Destroy
    <3>2. InOrder(Take(queue)) /\ Members(Take(queue)) \subseteq Members(queue)
      BY <1>1, OrderedCut DEF HeldInOrder
    <3> QED
      BY <1>2, <3>1, <3>2 DEF HeldInOrder
  <2>3. CASE PageGone
    BY <1>2, <2>3 DEF PageGone
  <2> QED
    BY <2>1, <2>2, <2>3 DEF Leaving
<1> QED
  BY <1>2, <1>3 DEF HeldInOrder

LEMMA OrderStep == SenderBase /\ HeldInOrder /\ [SenderNext]_<<log, faults, senderVars>> => HeldInOrder'
<1> SUFFICES ASSUME SenderBase, HeldInOrder, [SenderNext]_<<log, faults, senderVars>> PROVE HeldInOrder'
  OBVIOUS
<1>1. CASE UNCHANGED <<log, faults, senderVars>> \/ Network
  <2>1. UNCHANGED <<batch, queue, accepted>>
    BY <1>1 DEF Network, LoseRequest, Receive, senderVars, flushVars
  <2> QED
    BY <2>1 DEF HeldInOrder
<1>2. CASE Transmit \/ Refuse \/ Answer \/ NoAnswer
  <2>1. UNCHANGED <<queue, accepted>> /\ (batch' = batch \/ batch' = <<>>)
    BY <1>2 DEF Transmit, Refuse, Answer, NoAnswer, Delivered, FailOver, BatchFailed
  <2> QED
    BY <2>1, MembersOf, OrderedSmall DEF HeldInOrder
<1> QED
  BY <1>1, <1>2, OrderScript, OrderLeaving DEF SenderNext, Script

(* A batch that is sent again goes before the events accepted after it:    *)
(* batch and queue together are in the order in which send was called.     *)
THEOREM QueueStaysInOrder == SenderSpec => []QueueInOrder
<1> DEFINE I == SenderBase /\ HeldInOrder
<1>1. SenderStart => I
  BY SenderTypeInit, OrderedSmall, MembersOf DEF SenderStart, SenderInit, HeldInOrder
<1>2. I /\ [SenderNext]_<<log, faults, senderVars>> => I'
  BY SenderTypeStep, OrderStep
<1>3. I => QueueInOrder
  <2> SUFFICES ASSUME I PROVE QueueInOrder
    OBVIOUS
  <2>1. InOrder(batch \o queue)
    BY OrderedConcat DEF HeldInOrder, SenderBase, SenderTypeOK
  <2> QED
    BY <2>1 DEF InOrder, QueueInOrder
<1> QED
  BY <1>1, <1>2, <1>3, PTL DEF SenderSpec

-----------------------------------------------------------------------------
(* Where the events are.  A request whose answer is awaited carries the    *)
(* batch, or is a gif that only counts an abandoned one; so a success means*)
(* that the batch is in the log, or that what a gif has lost is given up.  *)
AbandonedGif(r) == r.via = "gif" /\ r.events = <<>> /\ Members(batch) \subseteq dropped

Awaited ==
  /\ waits <= requests
  /\ \A r \in wire : r.no <= requests
  /\ \A r \in wire : r.no = waits =>
       r.via = Chain[hop] /\ (r.events = batch \/ AbandonedGif(r))
  /\ reply = "ok" => Members(batch) \subseteq Members(log) \cup dropped
  /\ reply = "ok" /\ Chain[hop] # "gif" => Members(batch) \subseteq Members(log)

InHand == Members(queue) \cup Members(batch) \cup OnWire \cup Members(log) \cup dropped

Carried == Awaited /\ 1..accepted \subseteq InHand /\ ConfirmedIsLogged

LEMMA CarriedMeans == Carried => EventsAccounted /\ ConfirmedIsLogged
  BY DEF Carried, EventsAccounted, InHand

LEMMA SenderFacts ==
  ASSUME SenderBase
  PROVE  /\ config \in Config /\ accepted \in Nat /\ requests \in Nat /\ waits \in Nat
         /\ queue \in Seq(Event) /\ batch \in Seq(Event) /\ log \in Seq(Event)
         /\ wire \subseteq Request /\ \A r \in wire : r.no \in Nat /\ r.no > 0
         /\ (waits > 0 => phase = "sending") /\ (waits = 0 => reply = "none")
         /\ (phase = "idle" => batch = <<>>)
  BY SenderNumbers, Numbers DEF SenderBase, SenderTypeOK, LogTyped, Request

(* Nothing is awaited.                                                     *)
LEMMA AwaitNothing ==
  ASSUME SenderBase, Awaited, waits' = 0, reply' = "none", UNCHANGED wireVars
  PROVE  Awaited'
  BY SenderFacts DEF Awaited, wireVars

(* What is awaited stays as it is, while other requests are sent.          *)
LEMMA AwaitSame ==
  ASSUME SenderBase, Awaited, UNCHANGED <<waits, reply, config>>,
         waits > 0 => UNCHANGED <<batch, hop>>,
         requests' \in Nat, requests' >= requests, dropped \subseteq dropped',
         Members(log) \subseteq Members(log'),
         \A r \in wire' : r \in wire \/ (requests < r.no /\ r.no <= requests')
  PROVE  Awaited'
<1>1. Chain' = Chain
  BY DEF Chain
<1>2. waits' <= requests'
  BY SenderFacts DEF Awaited
<1>3. ASSUME NEW r \in wire' PROVE r.no <= requests' /\ (r.no = waits' => r \in wire /\ waits > 0)
  <2>1. CASE r \in wire
    <3>1. r.no <= requests /\ r.no \in Nat /\ r.no > 0
      BY <2>1, SenderFacts DEF Awaited
    <3> QED
      BY <2>1, <3>1, SenderFacts
  <2>2. CASE requests < r.no /\ r.no <= requests'
    BY <2>2, SenderFacts DEF Awaited
  <2> QED
    BY <2>1, <2>2
<1>4. ASSUME NEW r \in wire', r.no = waits'
      PROVE  r.via = Chain'[hop'] /\ (r.events = batch' \/ AbandonedGif(r)')
  <2>1. r \in wire /\ waits > 0 /\ r.no = waits
    BY <1>3, <1>4
  <2>2. r.via = Chain[hop] /\ (r.events = batch \/ AbandonedGif(r))
    BY <2>1 DEF Awaited
  <2> QED
    BY <1>1, <2>1, <2>2 DEF AbandonedGif
<1>5. reply' = "ok" => waits > 0 /\ reply = "ok"
  BY SenderFacts
<1>6. /\ reply' = "ok" => Members(batch') \subseteq Members(log') \cup dropped'
      /\ reply' = "ok" /\ Chain'[hop'] # "gif" => Members(batch') \subseteq Members(log')
  BY <1>1, <1>5 DEF Awaited
<1> QED
  BY <1>1, <1>2, <1>3, <1>4, <1>6 DEF Awaited

LEMMA CarryScript == SenderBase /\ Carried /\ (Send \/ FlushTimer \/ RetryTimer) => Carried'
<1> SUFFICES ASSUME SenderBase, Carried, Send \/ FlushTimer \/ RetryTimer PROVE Carried'
  OBVIOUS
<1>1. UNCHANGED <<log, config, waits, reply, wire, requests, dropped, confirmed>>
  BY DEF Send, FlushTimer, RetryTimer, wireVars
<1>2. waits > 0 => UNCHANGED <<batch, hop>>
  BY SenderFacts DEF Send, FlushTimer, RetryTimer, Flush, isSending
<1>3. Awaited'
  BY <1>1, <1>2, SenderFacts, AwaitSame DEF Carried
<1>4. /\ Members(queue) \cup Members(batch) \subseteq Members(queue') \cup Members(batch')
      /\ \/ accepted' = accepted
         \/ accepted' = accepted + 1 /\ accepted + 1 \in Members(queue') \cup Members(batch')
  <2>1. ASSUME NEW q \in Seq(Event), Flush(q)
        PROVE  Members(q) \cup Members(batch) \subseteq Members(queue') \cup Members(batch')
    <3>1. CASE isSending \/ q = <<>>
      BY <2>1, <3>1 DEF Flush
    <3>2. CASE ~(isSending \/ q = <<>>)
      <4>1. queue' = Rest(q) /\ batch' = Take(q) /\ batch = <<>>
        BY <2>1, <3>2, SenderFacts DEF Flush, isSending
      <4>2. Members(q) = Members(Take(q)) \cup Members(Rest(q))
        BY SenderFacts, TakeRest
      <4> QED
        BY <4>1, <4>2, MembersOf
    <3> QED
      BY <3>1, <3>2
  <2>2. CASE Send
    <3> DEFINE q == Append(queue, accepted + 1)
    <3>1. /\ accepted' = accepted + 1 /\ accepted < MaxEvents
          /\ Flush(q) \/ (queue' = q /\ UNCHANGED <<batch, phase, hop>>)
      BY <2>2 DEF Send
    <3>2. q \in Seq(Event) /\ accepted + 1 \in Event
      BY <3>1, NextAccepted
    <3>3. Members(q) = Members(queue) \cup {accepted + 1}
      BY <3>2, SenderFacts, MembersOf
    <3> HIDE DEF q
    <3>4. Members(q) \cup Members(batch) \subseteq Members(queue') \cup Members(batch')
      BY <2>1, <3>1, <3>2
    <3> QED
      BY <3>1, <3>3, <3>4
  <2>3. CASE FlushTimer
    <3>1. Flush(queue) /\ UNCHANGED accepted /\ queue \in Seq(Event)
      BY <2>3, SenderFacts DEF FlushTimer
    <3>2. Members(queue) \cup Members(batch) \subseteq Members(queue') \cup Members(batch')
      BY <2>1, <3>1
    <3> QED
      BY <3>1, <3>2
  <2>4. CASE RetryTimer
    <3> DEFINE q == batch \o queue
    <3>1. queue' = Rest(q) /\ batch' = Take(q) /\ UNCHANGED accepted
      BY <2>4 DEF RetryTimer
    <3>2. q \in Seq(Event) /\ Members(q) = Members(batch) \cup Members(queue)
      BY SenderFacts, Concat, MembersOf
    <3> HIDE DEF q
    <3>3. Members(q) = Members(Take(q)) \cup Members(Rest(q))
      BY <3>2, SenderFacts, TakeRest
    <3>4. Members(queue') = Members(Rest(q)) /\ Members(batch') = Members(Take(q))
      BY <3>1
    <3> QED
      BY <3>1, <3>2, <3>3, <3>4
  <2> QED
    BY <2>2, <2>3, <2>4
<1>5. OnWire' = OnWire
  BY <1>1 DEF OnWire
<1>6. ASSUME NEW e \in 1..accepted' PROVE e \in InHand'
  <2>1. e \in 1..accepted \/ (accepted' = accepted + 1 /\ e = accepted + 1)
    BY <1>4, SenderFacts
  <2> QED
    BY <1>1, <1>4, <1>5, <2>1 DEF Carried, InHand
<1> QED
  BY <1>1, <1>3, <1>6 DEF Carried, ConfirmedIsLogged

(* A batch is given up, or kept.                                           *)
LEMMA FailKeeps ==
  ASSUME BatchFailed \/ FailOver
  PROVE  /\ waits' = 0 /\ reply' = "none" /\ dropped \subseteq dropped'
         /\ batch' = batch \/ Members(batch) \subseteq dropped'
  BY DEF BatchFailed, FailOver

LEMMA CarryTransmit == SenderBase /\ Carried /\ (Transmit \/ Refuse) => Carried'
<1> SUFFICES ASSUME SenderBase, Carried, Transmit \/ Refuse PROVE Carried'
  OBVIOUS
<1>1. UNCHANGED <<log, config, accepted, queue, confirmed>> /\ waits = 0 /\ reply = "none"
  BY SenderFacts DEF Transmit, Refuse, Busy
<1>2. ConfirmedIsLogged' /\ Chain' = Chain
  BY <1>1 DEF Carried, ConfirmedIsLogged, Chain
<1>3. SUFFICES Awaited' /\ InHand \subseteq InHand'
  BY <1>1, <1>2 DEF Carried
<1>4. ASSUME NEW events \in Seq(Event), NEW via \in Channel, Emit(events, via)
      PROVE  /\ wire \subseteq wire' /\ requests' = requests + 1
             /\ \A r \in wire' : \/ r \in wire /\ r.no <= requests /\ r.no > 0
                                 \/ r = [no |-> requests + 1, events |-> events, via |-> via]
             /\ OnWire' = OnWire \cup Members(events)
  <2>1. wire' = wire \cup {[no |-> requests + 1, events |-> events, via |-> via]}
        /\ requests' = requests + 1
    BY <1>4, EmitTypes
  <2> DEFINE new == [no |-> requests + 1, events |-> events, via |-> via]
  <2>2. new.events = events /\ wire' = wire \cup {new}
    BY <2>1
  <2> HIDE DEF new
  <2>3. OnWire' = OnWire \cup Members(events)
    BY <2>2 DEF OnWire
  <2> QED
    BY <2>1, <2>3, SenderFacts DEF Carried, Awaited
<1>5. CASE Transmit
  <2> DEFINE new == [no |-> requests + 1, events |-> batch, via |-> Chain[hop]]
  <2>1. /\ wire \subseteq wire' /\ requests' = requests + 1
        /\ \A r \in wire' : (r \in wire /\ r.no <= requests /\ r.no > 0) \/ r = new
        /\ OnWire' = OnWire \cup Members(batch)
    BY <1>4, <1>5, SenderFacts, HopTyped DEF Transmit
  <2>2. new.no = requests + 1 /\ new.events = batch /\ new.via = Chain[hop]
    OBVIOUS
  <2> HIDE DEF new
  <2>3. \A r \in wire' : r.no <= requests' /\ r.no > 0
    BY <2>1, <2>2, SenderFacts
  <2>4. CASE Delivered
    <3>1. Awaited'
      BY <2>1, <2>3, <2>4, SenderFacts DEF Delivered, Awaited
    <3>2. InHand \subseteq InHand'
      BY <1>1, <1>5, <2>1, <2>4 DEF Transmit, InHand
    <3> QED
      BY <3>1, <3>2
  <2>5. CASE waits' = requests + 1 /\ UNCHANGED <<batch, phase, hop, retryCount, reply>>
    <3>1. \A r \in wire' : r.no = waits' => r = new
      BY <2>1, <2>5, SenderFacts
    <3>2. Awaited'
      BY <1>1, <1>2, <2>1, <2>2, <2>3, <2>5, <3>1, SenderFacts DEF Awaited
    <3>3. InHand \subseteq InHand'
      BY <1>1, <1>5, <2>1, <2>5 DEF Transmit, InHand
    <3> QED
      BY <3>2, <3>3
  <2> QED
    BY <1>5, <2>4, <2>5 DEF Transmit
<1>6. CASE /\ Chain[hop] = "gif" /\ Emit(<<>>, "gif") /\ waits' = requests + 1
           /\ dropped' = dropped \cup Members(batch)
           /\ UNCHANGED <<batch, phase, hop, retryCount, reply>>
  <2> DEFINE new == [no |-> requests + 1, events |-> <<>>, via |-> "gif"]
  <2>0. <<>> \in Seq(Event) /\ "gif" \in Channel
    BY DEF Channel
  <2>1. /\ wire \subseteq wire' /\ requests' = requests + 1
        /\ \A r \in wire' : (r \in wire /\ r.no <= requests /\ r.no > 0) \/ r = new
        /\ OnWire' = OnWire \cup Members(<<>>)
    BY <1>4, <1>6, <2>0
  <2>2. new.no = requests + 1 /\ new.via = "gif" /\ new.events = <<>>
    OBVIOUS
  <2> HIDE DEF new
  <2>3. \A r \in wire' : r.no <= requests' /\ r.no > 0
    BY <2>1, <2>2, SenderFacts
  <2>4. \A r \in wire' : r.no = waits' => r = new
    BY <1>6, <2>1, SenderFacts
  <2>5. Awaited'
    BY <1>1, <1>2, <1>6, <2>1, <2>2, <2>3, <2>4, SenderFacts DEF Awaited, AbandonedGif
  <2>6. InHand \subseteq InHand'
    BY <1>1, <1>6, <2>1 DEF InHand
  <2> QED
    BY <2>5, <2>6
<1>7. CASE FailOver /\ UNCHANGED wireVars
  <2>1. Awaited'
    BY <1>7, FailKeeps, AwaitNothing DEF Carried
  <2>2. OnWire' = OnWire
    BY <1>7 DEF OnWire, wireVars
  <2>3. InHand \subseteq InHand'
    BY <1>1, <1>7, <2>2, FailKeeps DEF InHand
  <2> QED
    BY <2>1, <2>3
<1> QED
  BY <1>5, <1>6, <1>7 DEF Refuse

LEMMA CarryAnswer == SenderBase /\ Carried /\ (Answer \/ NoAnswer) => Carried'
<1> SUFFICES ASSUME SenderBase, Carried, Answer \/ NoAnswer PROVE Carried'
  OBVIOUS
<1>1. UNCHANGED <<log, config, accepted, queue, wireVars>> /\ OnWire' = OnWire
  BY DEF Answer, NoAnswer, OnWire, wireVars
<1>2. CASE reply = "ok" /\ Delivered /\ UNCHANGED dropped
           /\ confirmed' = confirmed \cup (IF Chain[hop] = "gif" THEN {} ELSE Members(batch))
  <2>1. Awaited'
    BY <1>1, <1>2, AwaitNothing DEF Delivered, Carried
  <2>2. Members(batch) \subseteq Members(log) \cup dropped
    BY <1>2 DEF Carried, Awaited
  <2>3. confirmed' \subseteq Members(log)
    BY <1>2 DEF Carried, Awaited, ConfirmedIsLogged
  <2>4. InHand \subseteq InHand'
    BY <1>1, <1>2, <2>2 DEF InHand
  <2> QED
    BY <1>1, <2>1, <2>3, <2>4 DEF Carried, ConfirmedIsLogged
<1>3. CASE (BatchFailed \/ FailOver) /\ UNCHANGED confirmed
  <2>1. Awaited'
    BY <1>1, <1>3, FailKeeps, AwaitNothing DEF Carried
  <2>2. InHand \subseteq InHand'
    BY <1>1, <1>3, FailKeeps DEF InHand
  <2> QED
    BY <1>1, <1>3, <2>1, <2>2 DEF Carried, ConfirmedIsLogged
<1> QED
  BY <1>2, <1>3 DEF Answer, NoAnswer

LEMMA CarryLeaving == SenderBase /\ Carried /\ Leaving => Carried'
<1> SUFFICES ASSUME SenderBase, Carried, Leaving PROVE Carried'
  OBVIOUS
<1>1. UNCHANGED <<log, config, confirmed>>
  BY DEF Leaving, PageHide, Destroy, PageGone
<1>2. ConfirmedIsLogged'
  BY <1>1 DEF Carried, ConfirmedIsLogged
<1>3. CASE PageHide
  <2> DEFINE q == Append(queue, accepted + 1)
             flushed == Len(q) >= BatchSize /\ ~isSending
             rest == IF flushed THEN Rest(q) ELSE q
  <2>1. PICK refused : FlushSync(rest, refused, {})
    BY <1>3 DEF PageHide
  <2>2. /\ accepted' = accepted + 1 /\ accepted < MaxEvents /\ UNCHANGED <<waits, reply>>
        /\ flushed => ~isSending /\ batch' = Take(q)
        /\ ~flushed => UNCHANGED <<batch, hop>>
    BY <1>3 DEF PageHide
  <2>3. q \in Seq(Event) /\ Members(q) = Members(queue) \cup {accepted + 1}
    BY <2>2, NextAccepted, SenderFacts, MembersOf
  <2> HIDE DEF q, flushed
  <2>4. Take(q) \in Seq(Event) /\ Rest(q) \in Seq(Event)
        /\ Members(q) = Members(Take(q)) \cup Members(Rest(q))
    BY <2>3, SenderFacts, TakeRest
  <2>5. rest \in Seq(Event) /\ Members(q) \cup Members(batch) \subseteq Members(batch') \cup Members(rest)
    BY <2>2, <2>3, <2>4, SenderFacts, MembersOf DEF isSending
  <2> HIDE DEF rest
  <2>6. /\ WireTyped' /\ wire \subseteq wire' /\ requests' >= requests
        /\ \A r \in wire' : r \in wire \/ (requests < r.no /\ r.no <= requests')
        /\ dropped \subseteq dropped'
        /\ Members(rest) \subseteq dropped' \cup UNION {Members(r.events) : r \in wire'}
    BY <2>1, <2>5, FlushSyncs
  <2>7. waits > 0 => UNCHANGED <<batch, hop>>
    BY <2>2, SenderFacts DEF isSending
  <2>8. requests' \in Nat
    BY <2>6, SenderNumbers DEF WireTyped
  <2>9. Awaited'
    BY <1>1, <2>2, <2>6, <2>7, <2>8, AwaitSame DEF Carried
  <2>10. OnWire \subseteq OnWire' /\ Members(rest) \subseteq dropped' \cup OnWire'
    BY <2>6 DEF OnWire
  <2>11. ASSUME NEW e \in 1..accepted' PROVE e \in InHand'
    <3>1. e \in 1..accepted \/ e = accepted + 1
      BY <2>2, SenderFacts
    <3>2. e \in Members(q) \cup Members(batch) \cup OnWire \cup Members(log) \cup dropped
      BY <2>3, <3>1 DEF Carried, InHand
    <3> QED
      BY <1>1, <2>5, <2>6, <2>10, <3>2 DEF InHand
  <2> QED
    BY <1>2, <2>9, <2>11 DEF Carried
<1>4. CASE Destroy
  <2>1. UNCHANGED <<accepted, waits, reply>>
    BY <1>4 DEF Destroy
  <2>2. CASE /\ isSending
             /\ \E refused \in SUBSET (1..MaxEvents) :
                  FlushSync(queue, refused, IF phase = "waiting" THEN Members(batch) ELSE {})
             /\ IF phase = "waiting" THEN phase' = "stuck" /\ batch' = <<>>
                ELSE UNCHANGED <<phase, batch>>
             /\ UNCHANGED hop
    <3> DEFINE gone == IF phase = "waiting" THEN Members(batch) ELSE {}
    <3>1. gone \in SUBSET Event /\ Members(batch) \subseteq Members(batch') \cup gone
      BY <2>2, SenderFacts, MembersOf
    <3>2. PICK refused : FlushSync(queue, refused, gone)
      BY <2>2
    <3> HIDE DEF gone
    <3>3. /\ WireTyped' /\ wire \subseteq wire' /\ requests' >= requests
          /\ \A r \in wire' : r \in wire \/ (requests < r.no /\ r.no <= requests')
          /\ dropped \cup gone \subseteq dropped'
          /\ Members(queue) \subseteq dropped' \cup UNION {Members(r.events) : r \in wire'}
      BY <3>1, <3>2, SenderFacts, FlushSyncs
    <3>4. waits > 0 => UNCHANGED <<batch, hop>>
      BY <2>2, SenderFacts
    <3>5. requests' \in Nat /\ dropped \subseteq dropped'
      BY <3>3, SenderNumbers DEF WireTyped
    <3>6. Awaited'
      BY <1>1, <2>1, <3>3, <3>4, <3>5, AwaitSame DEF Carried
    <3>7. OnWire \subseteq OnWire' /\ Members(queue) \subseteq dropped' \cup OnWire'
      BY <3>3 DEF OnWire
    <3>8. InHand \subseteq InHand'
      BY <1>1, <3>1, <3>3, <3>7 DEF InHand
    <3> QED
      BY <1>2, <2>1, <3>6, <3>8 DEF Carried
  <2>3. CASE /\ ~isSending
             /\ batch' = Take(queue) /\ hop' = 1
             /\ dropped' = dropped \cup Members(Rest(queue))
             /\ UNCHANGED <<faults, wireVars>>
    <3>1. waits = 0 /\ reply = "none" /\ batch = <<>>
      BY <2>3, SenderFacts DEF isSending
    <3>2. Awaited'
      BY <2>1, <2>3, <3>1, AwaitNothing DEF Carried
    <3>3. Members(queue) = Members(Take(queue)) \cup Members(Rest(queue))
      BY SenderFacts, TakeRest
    <3>4. OnWire' = OnWire
      BY <2>3 DEF OnWire, wireVars
    <3>5. InHand \subseteq InHand'
      BY <1>1, <2>3, <3>1, <3>3, <3>4, MembersOf DEF InHand
    <3> QED
      BY <1>2, <2>1, <3>2, <3>5 DEF Carried
  <2> QED
    BY <1>4, <2>2, <2>3 DEF Destroy
<1>5. CASE PageGone
  <2>1. Awaited'
    BY <1>5, AwaitNothing DEF PageGone, Carried
  <2>2. OnWire' = OnWire /\ UNCHANGED accepted
    BY <1>5 DEF PageGone, OnWire, wireVars
  <2>3. InHand \subseteq InHand'
    BY <1>1, <1>5, <2>2 DEF PageGone, InHand
  <2> QED
    BY <1>2, <2>1, <2>2, <2>3 DEF Carried
<1> QED
  BY <1>3, <1>4, <1>5 DEF Leaving

LEMMA CarryNetwork == SenderBase /\ Carried /\ Network => Carried'
<1> SUFFICES ASSUME SenderBase, Carried, NEW r \in wire, LoseRequest(r) \/ Receive(r) PROVE Carried'
  BY DEF Network
<1>1. UNCHANGED <<config, accepted, queue, batch, hop, waits, requests, confirmed>> /\ Chain' = Chain
  BY DEF LoseRequest, Receive, flushVars, Chain
<1>2. wire' = wire \ {r} /\ r.events \in Seq(Event) /\ r.no \in Nat
  BY SenderFacts DEF LoseRequest, Receive, Request
<1>3. /\ \A s \in wire' : s.no <= requests'
      /\ waits' <= requests'
  BY <1>1, <1>2 DEF Carried, Awaited
<1>4. r.no = waits => r.via = Chain[hop]
                      /\ (r.events = batch \/ AbandonedGif(r))
  BY DEF Carried, Awaited
<1>5. OnWire \subseteq OnWire' \cup Members(r.events)
  BY <1>2 DEF OnWire
<1>6. CASE LoseRequest(r)
  <2>1. /\ dropped' = dropped \cup (IF r.no = waits THEN {} ELSE Members(r.events))
        /\ UNCHANGED <<log, reply>>
    BY <1>6 DEF LoseRequest, flushVars
  <2>2. Awaited'
    BY <1>1, <1>2, <1>3, <2>1 DEF Carried, Awaited, AbandonedGif
  <2>3. Members(r.events) \subseteq dropped' \cup Members(batch)
    BY <1>4, <2>1, MembersOf DEF Carried, Awaited, AbandonedGif
  <2> QED
    BY <1>1, <1>5, <2>1, <2>2, <2>3 DEF Carried, InHand, ConfirmedIsLogged
<1>7. CASE Receive(r)
  <2>1. PICK appended \in SUBSET DOMAIN r.events : \E known \in SUBSET appended, s \in Seq(Event) :
           /\ Members(s) = {r.events[i] : i \in appended}
           /\ Append2Log(s)
           /\ wire' = wire \ {r}
           /\ reply' = IF r.no = waits THEN Reply(r, known) ELSE reply
           /\ dropped' = dropped \cup
                (IF r.no = waits /\ r.via # "gif" THEN {}
                 ELSE {r.events[i] : i \in DOMAIN r.events \ appended})
    BY <1>7, Received
  <2>2. PICK known \in SUBSET appended, s \in Seq(Event) :
           /\ Members(s) = {r.events[i] : i \in appended}
           /\ Append2Log(s)
           /\ wire' = wire \ {r}
           /\ reply' = IF r.no = waits THEN Reply(r, known) ELSE reply
           /\ dropped' = dropped \cup
                (IF r.no = waits /\ r.via # "gif" THEN {}
                 ELSE {r.events[i] : i \in DOMAIN r.events \ appended})
    BY <2>1
  <2>3. Members(log') = Members(log) \cup {r.events[i] : i \in appended}
    BY <2>2, SenderFacts, MembersOf DEF Append2Log
  <2>4. Members(r.events) \subseteq Members(log') \cup
          (IF r.no = waits /\ r.via # "gif" THEN Members(batch) ELSE dropped')
    <3>1. CASE r.no = waits /\ r.via # "gif"
      BY <1>4, <3>1 DEF AbandonedGif
    <3>2. CASE ~(r.no = waits /\ r.via # "gif")
      BY <2>2, <2>3, <3>2 DEF Members
    <3> QED
      BY <3>1, <3>2
  <2>5. ASSUME reply' = "ok"
        PROVE  /\ Members(batch) \subseteq Members(log') \cup dropped'
               /\ Chain[hop] # "gif" => Members(batch) \subseteq Members(log')
    <3>1. CASE r.no # waits
      BY <2>2, <2>3, <2>5, <3>1 DEF Carried, Awaited
    <3>2. CASE r.no = waits /\ r.via = "gif"
      BY <1>4, <2>2, <2>4, <3>2 DEF AbandonedGif
    <3>3. CASE r.no = waits /\ r.via # "gif"
      <4>1. known = DOMAIN r.events
        BY <2>2, <2>5, <3>3 DEF Reply
      <4>2. Members(batch) \subseteq Members(log')
        BY <1>4, <2>3, <3>3, <4>1 DEF Members, AbandonedGif
      <4> QED
        BY <4>2
    <3> QED
      BY <3>1, <3>2, <3>3
  <2>6. dropped \subseteq dropped' /\ Members(log) \subseteq Members(log')
    BY <2>2, <2>3
  <2>7. \A t \in wire' : t.no = waits' =>
          t.via = Chain'[hop'] /\ (t.events = batch' \/ AbandonedGif(t)')
    BY <1>1, <1>2, <2>6 DEF Carried, Awaited, AbandonedGif
  <2>8. Awaited'
    BY <1>1, <1>3, <2>5, <2>7 DEF Awaited
  <2>9. InHand \subseteq InHand'
    BY <1>1, <1>5, <2>4, <2>6 DEF InHand
  <2> QED
    BY <1>1, <2>6, <2>8, <2>9 DEF Carried, ConfirmedIsLogged
<1> QED
  BY <1>6, <1>7

LEMMA CarryStep == SenderBase /\ Carried /\ [SenderNext]_<<log, faults, senderVars>> => Carried'
<1> SUFFICES ASSUME SenderBase, Carried, [SenderNext]_<<log, faults, senderVars>> PROVE Carried'
  OBVIOUS
<1>1. CASE UNCHANGED <<log, faults, senderVars>>
  BY <1>1 DEF Carried, Awaited, InHand, OnWire, ConfirmedIsLogged, senderVars, flushVars, wireVars, Chain, AbandonedGif
<1> QED
  BY <1>1, CarryScript, CarryTransmit, CarryAnswer, CarryLeaving, CarryNetwork DEF SenderNext, Script

LEMMA CarryInit == SenderInit => Carried
<1> SUFFICES ASSUME SenderInit PROVE Carried
  OBVIOUS
<1>1. wire = {} /\ waits = 0 /\ requests = 0 /\ reply = "none" /\ accepted = 0 /\ confirmed = {}
  BY DEF SenderInit
<1> QED
  BY <1>1 DEF Carried, Awaited, ConfirmedIsLogged

LEMMA CarryAlways == SenderSpec => []Carried
<1> DEFINE I == SenderBase /\ Carried
<1>1. SenderStart => I
  BY SenderTypeInit, CarryInit DEF SenderStart
<1>2. I /\ [SenderNext]_<<log, faults, senderVars>> => I'
  BY SenderTypeStep, CarryStep
<1>3. I => Carried
  OBVIOUS
<1> QED
  BY <1>1, <1>2, <1>3, PTL DEF SenderSpec

(* No event disappears between the queue, the batch flush holds, the       *)
(* requests and Kafka, whatever fails: it is in one of them, or given up   *)
(* where the code gives events up.                                         *)
THEOREM NoEventVanishes == SenderSpec => []EventsAccounted
<1>1. Carried => EventsAccounted
  BY CarriedMeans
<1> QED
  BY <1>1, CarryAlways, PTL

(* When /report answers with success, every event of the batch is in Kafka,*)
(* whatever failed before and whichever attempt was answered.              *)
THEOREM SuccessMeansLogged == SenderSpec => []ConfirmedIsLogged
<1>1. Carried => ConfirmedIsLogged
  BY CarriedMeans
<1> QED
  BY <1>1, CarryAlways, PTL

-----------------------------------------------------------------------------
(* The composition.  For the consumer a step of the sender appends to the  *)
(* log or does nothing; for the sender a step of the consumer is a stutter.*)
LEMMA SenderAppends ==
  ASSUME SenderBase, SenderNext, UNCHANGED ingestionVars
  PROVE  IngestionStep
<1>1. CASE UNCHANGED log
  BY <1>1 DEF IngestionStep
<1>2. ASSUME NEW r \in wire, Receive(r) PROVE IngestionStep
  <2>1. \E s \in Seq(Event) : Append2Log(s)
    BY <1>2, Received
  <2> QED
    BY <2>1 DEF IngestionStep, Appends
<1>3. SenderNext => UNCHANGED log \/ \E r \in wire : Receive(r)
  BY DEF SenderNext, Script, Leaving, Network, Send, FlushTimer, Transmit, Refuse, Answer, NoAnswer, RetryTimer,
         PageHide, Destroy, PageGone, LoseRequest
<1> QED
  BY <1>1, <1>2, <1>3

LEMMA IngestionReads == IngestionNext => UNCHANGED log
  BY DEF IngestionNext, Handling, Flushing, Stopping, Consume, CompletionFails, CompletionRejects, LogDirty,
         TimerFlush, ClaimKey, InsertEvents, NothingNew, InsertDone, KeyFails, InsertFails, ReleaseKeys,
         Committed, CommitFails, Rejoin, Shutdown, LastFlush, Exit, Crash, Restart, Forget

LEMMA SenderQuiet ==
  ASSUME UNCHANGED <<log, senderVars>>, SenderBase, Carried
  PROVE  SenderBase' /\ Carried'
<1>1. SenderBase'
  BY DEF SenderBase, SenderTypeOK, LogTyped, senderVars, flushVars, wireVars, Chain
<1> QED
  BY <1>1 DEF Carried, Awaited, InHand, OnWire, ConfirmedIsLogged, senderVars, flushVars, wireVars, Chain,
              AbandonedGif

DeliveryInv == SenderBase /\ Carried /\ IngestionInv

LEMMA DeliveryInit == Init => DeliveryInv
  BY SenderTypeInit, CarryInit, IngestionInvInit DEF Init, DeliveryInv, IngestionStart

LEMMA DeliveryStep == DeliveryInv /\ [Next]_vars => DeliveryInv'
<1> SUFFICES ASSUME DeliveryInv, [Next]_vars PROVE DeliveryInv'
  OBVIOUS
<1>1. SenderBase /\ Carried /\ IngestionInv
  BY DEF DeliveryInv
<1>2. CASE SenderNext /\ UNCHANGED ingestionVars
  <2>1. IngestionStep
    BY <1>1, <1>2, SenderAppends
  <2> QED
    BY <1>1, <1>2, <2>1, SenderTypeStep, CarryStep, IngestionInvStep DEF DeliveryInv
<1>3. CASE IngestionNext /\ UNCHANGED senderVars
  <2>1. UNCHANGED <<log, senderVars>> /\ IngestionStep
    BY <1>3, IngestionReads DEF IngestionStep
  <2> QED
    BY <1>1, <2>1, SenderQuiet, IngestionInvStep DEF DeliveryInv
<1>4. CASE UNCHANGED vars
  <2>1. UNCHANGED <<log, senderVars>> /\ IngestionStep
    BY <1>4 DEF IngestionStep, vars
  <2> QED
    BY <1>1, <2>1, SenderQuiet, IngestionInvStep DEF DeliveryInv
<1> QED
  BY <1>2, <1>3, <1>4 DEF Next

(* An event in the log is stored, given up, or will be looked at.          *)
LEMMA LoggedAccounted ==
  ASSUME DeliveryInv, NEW e \in Members(log)
  PROVE  \/ rows[e] > 0 \/ e \in Pending \/ e \in stale
         \/ \E o \in DOMAIN log : log[o] = e /\ (o \in dirty \cup missed \/ \E d \in began : o < d)
<1>1. Base /\ OffsetsSettle /\ ConsumedSettle
  BY DEF DeliveryInv, IngestionInv, Settling
<1>2. PICK o \in DOMAIN log : log[o] = e
  BY DEF Members
<1>3. o \in Nat /\ o >= 1 /\ position \in Nat /\ groupOffset \in Nat
  BY <1>1, <1>2, Facts, Numbers DEF Committable
<1>4. CASE service = "down"
  <2>1. CASE o >= groupOffset
    BY <1>2, <1>4, <2>1 DEF Pending
  <2>2. CASE o < groupOffset
    <3>1. o \in 1..groupOffset - 1
      BY <1>3, <2>2
    <3>2. Settled(o)
      BY <1>1, <3>1 DEF OffsetsSettle, SettledBelow
    <3> QED
      BY <1>2, <3>2 DEF Settled
  <2> QED
    BY <1>3, <2>1, <2>2
<1>5. CASE service # "down"
  <2>1. CASE o >= position
    BY <1>2, <1>5, <2>1 DEF Pending
  <2>2. CASE o < position
    <3>1. o \in 1..position - 1
      BY <1>3, <2>2
    <3>2. Holds(o) \/ Settled(o)
      BY <1>1, <1>5, <3>1 DEF ConsumedSettle, Consumed
    <3>3. Holds(o) => e \in Pending
      BY <1>2, <1>5 DEF Holds, Pending
    <3> QED
      BY <1>2, <3>2, <3>3 DEF Settled
  <2> QED
    BY <1>3, <2>1, <2>2
<1> QED
  BY <1>4, <1>5

LEMMA Accounts == DeliveryInv => EveryEventAccounted
<1> SUFFICES ASSUME DeliveryInv, NEW e \in 1..accepted
             PROVE  \/ rows[e] > 0 \/ e \in Underway
                    \/ e \in dropped \cup stale
                    \/ \E o \in DOMAIN log : log[o] = e /\ (o \in dirty \cup missed \/ \E d \in began : o < d)
  BY DEF EveryEventAccounted
<1>1. e \in InHand
  BY DEF DeliveryInv, Carried
<1>2. CASE e \in Members(log)
  BY <1>2, LoggedAccounted DEF Underway
<1> QED
  BY <1>1, <1>2 DEF InHand, Underway

(* Whatever fails at either end, an event that was accepted is stored, on  *)
(* its way, or lost for a reason the page or the consumer knows.           *)
THEOREM EventsAccountedEndToEnd == Spec => []EveryEventAccounted
<1>1. DeliveryInv => EveryEventAccounted
  BY Accounts
<1> QED
  BY <1>1, DeliveryInit, DeliveryStep, PTL DEF Spec

-----------------------------------------------------------------------------
(* Without a failure nothing is given up: neither by the page, for which a *)
(* request it waits for is answered with success, nor by the consumer.     *)
ConsumerCalm ==
  faults = 0 =>
    /\ stale = {} /\ unsure = {} /\ dirty = {} /\ began = {} /\ missed = {}
    /\ service = "up"
    /\ flush.stage \notin {"retryable", "unretryable"} /\ handler.stage # "log"

PageCalm ==
  faults = 0 /\ page = "open" =>
    /\ dropped = {} /\ reply # "error"
    /\ waits > 0 => reply = "ok" \/ \E r \in wire : r.no = waits

Calm == faults \in Nat /\ ConsumerCalm /\ PageCalm

LEMMA CalmInit == Init => Calm
  BY NothingTyped DEF Init, SenderInit, IngestionInit, Calm, ConsumerCalm, PageCalm

LEMMA Counted ==
  ASSUME faults \in Nat
  PROVE  /\ Fault => faults' \in Nat /\ faults' # 0
         /\ \A failed : FaultIf(failed) => faults' \in Nat /\ (failed => faults' # 0) /\ (~failed => UNCHANGED faults)
  BY DEF Fault, FaultIf

LEMMA CalmConsumer ==
  ASSUME Base, Calm, IngestionNext
  PROVE  /\ faults' \in Nat
         /\ faults' = 0 => UNCHANGED faults
         /\ ConsumerCalm'
<1>1. CASE Consume \/ TimerFlush \/ ClaimKey \/ InsertEvents \/ NothingNew \/ InsertDone \/ Committed
  <2>1. UNCHANGED <<faults, service, stale, unsure, dirty, began, missed>>
    BY <1>1 DEF Consume, TimerFlush, ClaimKey, InsertEvents, NothingNew, InsertDone, Committed, history
  <2>2. flush'.stage \in {flush.stage, "none", "keys", "insert", "commit"}
    BY <1>1, Facts, NothingTyped, ZenonT(30)
    DEF Consume, TimerFlush, ClaimKey, InsertEvents, NothingNew, InsertDone, Committed, StartFlush, Stored, After,
        FlushRecord, NoFlush
  <2>3. handler'.stage \in {handler.stage, "idle", "flush"}
    BY <1>1, NothingTyped
    DEF Consume, TimerFlush, ClaimKey, InsertEvents, NothingNew, InsertDone, Committed, Stored, After
  <2> QED
    BY <2>1, <2>2, <2>3 DEF Calm, ConsumerCalm
<1>2. CASE CompletionFails \/ CompletionRejects \/ KeyFails \/ InsertFails \/ Rejoin \/ Shutdown \/ Crash
  <2>1. Fault
    BY <1>2 DEF CompletionFails, CompletionRejects, KeyFails, InsertFails, Rejoin, Shutdown, Crash
  <2> QED
    BY <2>1, Counted DEF Calm, ConsumerCalm
<1>3. CASE LogDirty \/ ReleaseKeys \/ LastFlush \/ Exit \/ Restart
  <2>1. handler.stage = "log" \/ flush.stage \in {"retryable", "unretryable"} \/ service # "up"
    BY <1>3 DEF LogDirty, ReleaseKeys, LastFlush, Exit, Restart
  <2>2. faults # 0
    BY <2>1 DEF Calm, ConsumerCalm
  <2>3. UNCHANGED faults \/ \E failed : FaultIf(failed)
    BY <1>3 DEF LogDirty, ReleaseKeys, LastFlush, Exit, Restart
  <2>4. faults' \in Nat /\ faults' # 0
    BY <2>2, <2>3 DEF Calm, FaultIf, Fault
  <2> QED
    BY <2>4 DEF ConsumerCalm
<1>4. CASE CommitFails
  <2>1. FaultIf(service = "up")
    BY <1>4 DEF CommitFails
  <2>2. faults' \in Nat /\ faults' # 0
    <3>1. service = "up" \/ faults # 0
      BY DEF Calm, ConsumerCalm
    <3> QED
      BY <2>1, <3>1 DEF Calm, FaultIf, Fault
  <2> QED
    BY <2>2 DEF ConsumerCalm
<1> QED
  BY <1>1, <1>2, <1>3, <1>4 DEF IngestionNext, Handling, Flushing, Stopping

LEMMA CalmFlushSync ==
  ASSUME Calm, page = "open", NEW q, NEW refused, FlushSync(q, refused, {})
  PROVE  /\ faults' \in Nat /\ (faults' = 0 => UNCHANGED <<faults, dropped>>)
         /\ wire \subseteq wire'
<1>1. FaultIf(refused # {}) /\ wire \subseteq wire'
  BY DEF FlushSync
<1>2. CASE refused = {}
  BY <1>1, <1>2 DEF FlushSync, Calm, FaultIf
<1>3. CASE refused # {}
  BY <1>1, <1>3 DEF Calm, FaultIf, Fault
<1> QED
  BY <1>1, <1>2, <1>3

LEMMA CalmScript ==
  ASSUME SenderBase, Calm, Script
  PROVE  faults' \in Nat /\ (faults' = 0 => UNCHANGED faults) /\ PageCalm'
<1>1. CASE Send \/ FlushTimer \/ RetryTimer
  <2>1. UNCHANGED <<faults, page, waits, reply, wire, dropped>>
    BY <1>1 DEF Send, FlushTimer, RetryTimer, wireVars
  <2> QED
    BY <2>1 DEF Calm, PageCalm
<1>2. CASE Transmit
  <2>1. UNCHANGED <<faults, page, dropped>> /\ requests \in Nat /\ reply = "none"
    BY <1>2, SenderFacts DEF Transmit, Busy
  <2> DEFINE new == [no |-> requests + 1, events |-> batch, via |-> Chain[hop]]
  <2>2. wire' = wire \cup {new} /\ new.no = requests + 1
    BY <1>2 DEF Transmit, Emit
  <2> HIDE DEF new
  <2>3. \E r \in wire' : r.no = requests + 1
    BY <2>2
  <2>4. (waits' = requests + 1 /\ UNCHANGED reply) \/ (waits' = 0 /\ reply' = "none")
    BY <1>2 DEF Transmit, Delivered
  <2> QED
    BY <2>1, <2>3, <2>4 DEF Calm, PageCalm
<1>3. CASE Refuse
  BY <1>3, Counted DEF Refuse, Calm, PageCalm
<1>4. CASE Answer
  <2>1. UNCHANGED <<faults, page>> /\ reply # "none"
    BY <1>4 DEF Answer
  <2>2. reply = "ok" => waits' = 0 /\ reply' = "none" /\ UNCHANGED dropped
    BY <1>4 DEF Answer, Delivered
  <2>3. faults = 0 /\ page = "open" => reply = "ok"
    BY <1>4 DEF Answer, Calm, PageCalm
  <2> QED
    BY <2>1, <2>2, <2>3 DEF Calm, PageCalm
<1>5. CASE NoAnswer
  <2>1. FaultIf(reply # "none" \/ \E r \in wire : r.no = waits) /\ waits > 0 /\ UNCHANGED page
    BY <1>5 DEF NoAnswer
  <2>2. faults' \in Nat /\ (faults' = 0 => UNCHANGED faults /\ ~(reply # "none" \/ \E r \in wire : r.no = waits))
    BY <2>1, Counted DEF Calm
  <2>3. faults' = 0 => page # "open"
    BY <2>1, <2>2 DEF Calm, PageCalm
  <2> QED
    BY <2>1, <2>2, <2>3 DEF PageCalm
<1> QED
  BY <1>1, <1>2, <1>3, <1>4, <1>5 DEF Script

LEMMA CalmLeaving ==
  ASSUME SenderBase, Calm, Leaving
  PROVE  faults' \in Nat /\ (faults' = 0 => UNCHANGED faults) /\ PageCalm'
<1>1. CASE PageHide
  <2>1. PICK q, refused : FlushSync(q, refused, {})
    BY <1>1 DEF PageHide
  <2>2. /\ faults' \in Nat /\ (faults' = 0 => UNCHANGED <<faults, dropped>>)
        /\ wire \subseteq wire'
    BY <1>1, <2>1, CalmFlushSync DEF PageHide
  <2>3. UNCHANGED <<page, waits, reply>>
    BY <1>1 DEF PageHide
  <2> QED
    BY <2>2, <2>3 DEF Calm, PageCalm
<1>2. CASE Destroy
  <2>1. page' = "destroyed"
    BY <1>2 DEF Destroy
  <2>2. UNCHANGED faults \/ \E failed : FaultIf(failed)
    BY <1>2 DEF Destroy, FlushSync
  <2>3. faults' \in Nat /\ (faults' = 0 => UNCHANGED faults)
    BY <2>2 DEF Calm, FaultIf, Fault
  <2> QED
    BY <2>1, <2>3 DEF PageCalm
<1>3. CASE PageGone
  BY <1>3 DEF PageGone, Calm, PageCalm
<1> QED
  BY <1>1, <1>2, <1>3 DEF Leaving

LEMMA CalmNetwork ==
  ASSUME SenderBase, Calm, Network
  PROVE  faults' \in Nat /\ (faults' = 0 => UNCHANGED faults) /\ PageCalm'
<1> SUFFICES ASSUME NEW r \in wire, LoseRequest(r) \/ Receive(r)
             PROVE  faults' \in Nat /\ (faults' = 0 => UNCHANGED faults) /\ PageCalm'
  BY DEF Network
<1>1. CASE LoseRequest(r)
  BY <1>1, Counted DEF LoseRequest, Calm, PageCalm
<1>2. CASE Receive(r)
  <2>1. PICK appended \in SUBSET DOMAIN r.events : \E known \in SUBSET appended :
          /\ FaultIf(known # DOMAIN r.events)
          /\ wire' = wire \ {r}
          /\ reply' = IF r.no = waits THEN Reply(r, known) ELSE reply
          /\ dropped' = dropped \cup
               (IF r.no = waits /\ r.via # "gif" THEN {}
                ELSE {r.events[i] : i \in DOMAIN r.events \ appended})
    BY <1>2 DEF Receive
  <2>2. PICK known \in SUBSET appended :
          /\ FaultIf(known # DOMAIN r.events)
          /\ wire' = wire \ {r}
          /\ reply' = IF r.no = waits THEN Reply(r, known) ELSE reply
          /\ dropped' = dropped \cup
               (IF r.no = waits /\ r.via # "gif" THEN {}
                ELSE {r.events[i] : i \in DOMAIN r.events \ appended})
    BY <2>1
  <2>3. faults' \in Nat /\ (faults' = 0 => UNCHANGED faults /\ known = DOMAIN r.events)
    BY <2>2, Counted DEF Calm
  <2>4. UNCHANGED <<page, waits>>
    BY <1>2 DEF Receive
  <2>5. ASSUME faults' = 0 PROVE UNCHANGED dropped /\ (r.no = waits => reply' = "ok") /\ (r.no # waits => UNCHANGED reply)
    <3>1. known = DOMAIN r.events /\ appended = DOMAIN r.events
      BY <2>3, <2>5
    <3> QED
      BY <2>2, <3>1 DEF Reply
  <2>6. r.no # waits /\ (\E s \in wire : s.no = waits) => \E s \in wire' : s.no = waits
    BY <2>2
  <2> QED
    BY <2>3, <2>4, <2>5, <2>6 DEF Calm, PageCalm
<1> QED
  BY <1>1, <1>2

LEMMA CalmStep == DeliveryInv /\ Calm /\ [Next]_vars => Calm'
<1> SUFFICES ASSUME SenderBase, Base, Calm, [Next]_vars PROVE Calm'
  BY DEF DeliveryInv, IngestionInv
<1>1. CASE SenderNext /\ UNCHANGED ingestionVars
  <2>1. faults' \in Nat /\ (faults' = 0 => UNCHANGED faults) /\ PageCalm'
    BY <1>1, CalmScript, CalmLeaving, CalmNetwork DEF SenderNext
  <2>2. ConsumerCalm'
    BY <1>1, <2>1 DEF Calm, ConsumerCalm, ingestionVars, memory, history
  <2> QED
    BY <2>1, <2>2 DEF Calm
<1>2. CASE IngestionNext /\ UNCHANGED senderVars
  <2>1. faults' \in Nat /\ (faults' = 0 => UNCHANGED faults) /\ ConsumerCalm'
    BY <1>2, CalmConsumer
  <2>2. PageCalm'
    BY <1>2, <2>1 DEF Calm, PageCalm, senderVars, flushVars, wireVars
  <2> QED
    BY <2>1, <2>2 DEF Calm
<1>3. CASE UNCHANGED vars
  BY <1>3 DEF Calm, ConsumerCalm, PageCalm, vars, senderVars, flushVars, wireVars, ingestionVars, memory, history
<1> QED
  BY <1>1, <1>2, <1>3 DEF Next

(* Without a failure, every event that a page that stays open has given to *)
(* the SDK is stored exactly once, or is still on its way.                 *)
THEOREM NothingLost == Spec => []NothingLostWithoutFault
<1>1. DeliveryInv /\ Calm => NothingLostWithoutFault
  <2> SUFFICES ASSUME DeliveryInv, Calm, faults = 0, page = "open", NEW e \in 1..accepted
               PROVE  rows[e] = 1 \/ (rows[e] = 0 /\ e \in Underway)
    BY DEF NothingLostWithoutFault
  <2>1. dropped = {} /\ stale = {} /\ dirty = {} /\ missed = {} /\ began = {} /\ unsure = {}
    BY DEF Calm, ConsumerCalm, PageCalm
  <2>2. rows[e] > 0 \/ e \in Underway
    BY <2>1, Accounts DEF EveryEventAccounted
  <2>3. e \in Event
    BY Numbers DEF DeliveryInv, SenderBase, SenderTypeOK, Event
  <2>4. rows[e] \in Nat /\ ~(rows[e] > 1)
    BY <2>1, <2>3, Facts DEF DeliveryInv, IngestionInv, KeyInv, StoredOnce
  <2> QED
    BY <2>2, <2>4
<1> QED
  BY <1>1, DeliveryInit, DeliveryStep, CalmInit, CalmStep, PTL DEF Spec
=============================================================================
