------------------------------ MODULE SdkSender ------------------------------
(***************************************************************************)
(* The sender of the web SDK (DataSender) and the receiving point behind   *)
(* it: the queue of a page, the batch that is sent or waits to be sent     *)
(* again, the chain of channels a batch goes down, and the requests, which *)
(* may be refused, lost, late, or answered for only some of their events.  *)
(***************************************************************************)
EXTENDS EventTopic

CONSTANTS
  Transport, BatchSizes,   \* what a page may be configured with
  MaxRetries,              \* of the configuration
  MaxRequests              \* bound: requests

ASSUME SenderAssumption ==
  /\ BatchSizes \subseteq Nat \ {0} /\ {MaxRetries, MaxRequests} \subseteq Nat
  /\ Transport \subseteq {"beacon", "gif", "fetch"}

VARIABLES
  config,      \* transport, allowFallback and batchSize
  page,        \* open, destroyed (the SDK was), or gone
  accepted,    \* how many events were given to send
  queue,
  batch,       \* the events flush holds
  phase,       \* of flush: idle, sending, waiting for the retry timer, stuck
  hop,         \* the channel of the chain the batch has got to
  retryCount,
  waits,       \* the request whose answer sendBatch awaits, 0: none
  reply,       \* its answer
  wire,        \* requests on their way to the receiving point
  requests,    \* how many there have been
  dropped,     \* history: events given up by the page, or lost on their way
  confirmed    \* history: events of batches answered with success by /report

flushVars == <<batch, phase, hop, retryCount, waits, reply>>
wireVars == <<wire, requests>>
senderVars == <<config, page, accepted, queue, flushVars, wireVars, dropped, confirmed>>

Config == [transport : Transport, allowFallback : BOOLEAN, batchSize : BatchSizes]
Channel == {"beacon", "gif", "fetch", "xhr"}
Request == [no : 1..MaxRequests, events : Seq(Event), via : Channel]

SenderTypeOK ==
  /\ config \in Config
  /\ page \in {"open", "destroyed", "gone"}
  /\ accepted \in 0..MaxEvents
  /\ queue \in Seq(Event) /\ batch \in Seq(Event)
  /\ phase \in {"idle", "sending", "waiting", "stuck"}
  /\ (phase = "idle" => batch = <<>>) /\ Len(batch) <= config.batchSize
  /\ hop \in 1..6
  /\ retryCount \in 0..MaxRetries
  /\ waits \in 0..MaxRequests /\ (waits > 0 => phase = "sending")
  /\ reply \in {"none", "ok", "error"} /\ (reply # "none" => waits > 0)
  /\ wire \subseteq Request /\ requests \in 0..MaxRequests
  /\ dropped \subseteq Event /\ confirmed \subseteq Event

SenderInit ==
  /\ config \in Config
  /\ page = "open" /\ accepted = 0
  /\ queue = <<>> /\ batch = <<>>
  /\ phase = "idle" /\ hop = 1 /\ retryCount = 0
  /\ waits = 0 /\ reply = "none"
  /\ wire = {} /\ requests = 0
  /\ dropped = {} /\ confirmed = {}

-----------------------------------------------------------------------------
isSending == phase # "idle"

BatchSize == config.batchSize

(* The channels sendBatch tries one after the other.                       *)
Chain ==
  LET makeRequest == <<"fetch", "xhr", "gif">> IN
  CASE ~config.allowFallback /\ config.transport # "fetch" -> <<config.transport>>
    [] config.transport = "gif" -> <<"gif", "beacon">> \o makeRequest
    [] config.transport = "beacon" -> <<"beacon", "gif">> \o makeRequest
    [] OTHER -> makeRequest

Take(q) == SubSeq(q, 1, IF Len(q) < BatchSize THEN Len(q) ELSE BatchSize)
Rest(q) == SubSeq(q, BatchSize + 1, Len(q))

(* flush, called when the queue is q: it does nothing while a batch is     *)
(* under way.                                                              *)
Flush(q) ==
  IF isSending \/ q = <<>>
  THEN queue' = q /\ UNCHANGED <<batch, phase, hop>>
  ELSE /\ queue' = Rest(q) /\ batch' = Take(q)
       /\ phase' = "sending" /\ hop' = 1

(* A request leaves the browser.                                           *)
Emit(events, via) ==
  /\ requests < MaxRequests
  /\ requests' = requests + 1
  /\ wire' = wire \cup {[no |-> requests + 1, events |-> events, via |-> via]}

(* Mutant: only the first batch of the queue is sent.                      *)
FlushSyncOnce(q, refused, gone) ==
  /\ refused = {} /\ q # <<>>
  /\ Emit(Take(q), "beacon")
  /\ dropped' = dropped \cup gone
  /\ UNCHANGED faults

(* flushSync cuts the queue q into batches, each sent without waiting for  *)
(* an answer, or not at all when its channels refuse it (those of refused).*)
(* The events of gone are given up with it.  A request that is refused has *)
(* a number too.                                                           *)
FlushSync(q, refused, gone) ==
  LET count == (Len(q) + BatchSize - 1) \div BatchSize
      part(i) == SubSeq(q, (i - 1) * BatchSize + 1, IF i * BatchSize < Len(q)
                                                    THEN i * BatchSize ELSE Len(q))
      via == IF config.transport = "gif" THEN "gif" ELSE "beacon" IN
  /\ refused \subseteq 1..count
  /\ requests + count <= MaxRequests
  /\ requests' = requests + count
  /\ wire' = wire \cup {[no |-> requests + i, events |-> part(i), via |-> via]
                          : i \in (1..count) \ refused}
  /\ dropped' = dropped \cup gone \cup UNION {Members(part(i)) : i \in refused}
  /\ FaultIf(refused # {})

-----------------------------------------------------------------------------
(* The script of the page is inside sendBatch, between two requests: no    *)
(* other callback of the page runs.                                        *)
Busy == phase = "sending" /\ waits = 0

(* send: a full queue, or an event of high priority, is flushed at once.   *)
Send ==
  \E high \in BOOLEAN :
    LET q == Append(queue, accepted + 1) IN
    /\ page = "open" /\ ~Busy /\ accepted < MaxEvents
    /\ accepted' = accepted + 1
    /\ IF Len(q) >= BatchSize \/ high THEN Flush(q)
       ELSE queue' = q /\ UNCHANGED <<batch, phase, hop>>
    /\ UNCHANGED <<log, faults, config, page, retryCount, waits, reply, wireVars, dropped, confirmed>>

FlushTimer ==
  /\ page = "open" /\ ~isSending /\ queue # <<>>
  /\ Flush(queue)
  /\ UNCHANGED <<log, faults, config, page, accepted, retryCount, waits, reply, wireVars, dropped,
                 confirmed>>

(* The batch has been delivered, as far as the page can tell.              *)
Delivered ==
  /\ batch' = <<>> /\ phase' = "idle" /\ hop' = 1 /\ retryCount' = 0
  /\ waits' = 0 /\ reply' = "none"

(* Mutant: isSending is left set after the last retry.                     *)
BatchFailedSending ==
  /\ waits' = 0 /\ reply' = "none" /\ hop' = 1
  /\ \/ /\ retryCount < MaxRetries
        /\ retryCount' = retryCount + 1 /\ phase' = "waiting"
        /\ UNCHANGED <<batch, dropped>>
     \/ /\ retryCount = MaxRetries
        /\ retryCount' = 0 /\ phase' = "stuck" /\ batch' = <<>>
        /\ dropped' = dropped \cup Members(batch)

(* sendBatch throws: the batch waits to be sent again, or is given up.     *)
BatchFailed ==
  /\ waits' = 0 /\ reply' = "none" /\ hop' = 1
  /\ \/ /\ retryCount < MaxRetries
        /\ retryCount' = retryCount + 1 /\ phase' = "waiting"
        /\ UNCHANGED <<batch, dropped>>
     \/ /\ retryCount = MaxRetries
        /\ retryCount' = 0 /\ phase' = "idle" /\ batch' = <<>>
        /\ dropped' = dropped \cup Members(batch)

(* The next channel of the chain, if there is one.                         *)
FailOver ==
  IF hop = Len(Chain) THEN BatchFailed
  ELSE /\ hop' = hop + 1 /\ waits' = 0 /\ reply' = "none"
       /\ UNCHANGED <<batch, phase, retryCount, dropped>>

(* The batch goes out: a beacon is not waited for.                         *)
Transmit ==
  /\ Busy
  /\ Emit(batch, Chain[hop])
  /\ IF Chain[hop] = "beacon" THEN Delivered
     ELSE waits' = requests + 1 /\ UNCHANGED <<batch, phase, hop, retryCount, reply>>
  /\ UNCHANGED <<log, faults, config, page, accepted, queue, dropped, confirmed>>

(* The channel is not there, does not take the beacon, or the URL of the   *)
(* gif is too long.  Without fallback a gif then carries only a count.     *)
Refuse ==
  /\ Busy /\ Fault
  /\ IF Chain[hop] = "gif" /\ ~config.allowFallback
     THEN /\ Emit(<<>>, "gif") /\ waits' = requests + 1
          /\ dropped' = dropped \cup Members(batch)
          /\ UNCHANGED <<batch, phase, hop, retryCount, reply>>
     ELSE FailOver /\ UNCHANGED wireVars
  /\ UNCHANGED <<log, config, page, accepted, queue, confirmed>>

(* The answer arrives: success, or an HTTP error, which is not a reason to *)
(* try another channel.                                                    *)
Answer ==
  /\ reply # "none"
  /\ \/ /\ reply = "ok" /\ Delivered
        /\ confirmed' = confirmed \cup (IF Chain[hop] = "gif" THEN {} ELSE Members(batch))
        /\ UNCHANGED dropped
     \/ reply = "error" /\ BatchFailed /\ UNCHANGED confirmed
  /\ UNCHANGED <<log, faults, config, page, accepted, queue, wireVars>>

(* No answer before sendTimeout, or the connection breaks.  The handler of *)
(* XMLHttpRequest takes readyState 4 with status 0 for an answer.          *)
NoAnswer ==
  /\ waits > 0
  /\ FaultIf(reply # "none" \/ \E r \in wire : r.no = waits)
  /\ IF Chain[hop] = "xhr" THEN BatchFailed ELSE FailOver
  /\ UNCHANGED <<log, config, page, accepted, queue, wireVars, confirmed>>

(* Mutant: the batch goes back to the end of the queue.                    *)
RetryTimerAtTail ==
  LET q == queue \o batch IN
  /\ phase = "waiting"
  /\ queue' = Rest(q) /\ batch' = Take(q) /\ phase' = "sending" /\ hop' = 1
  /\ UNCHANGED <<log, faults, config, page, accepted, retryCount, waits, reply, wireVars, dropped,
                 confirmed>>

(* The retry timer puts the batch back at the head and flushes.            *)
RetryTimer ==
  LET q == batch \o queue IN
  /\ phase = "waiting"
  /\ queue' = Rest(q) /\ batch' = Take(q) /\ phase' = "sending" /\ hop' = 1
  /\ UNCHANGED <<log, faults, config, page, accepted, retryCount, waits, reply, wireVars, dropped,
                 confirmed>>

(* handlePageUnload tracks page_stay and sends the queue synchronously; the*)
(* batch of flush is left as it is.                                        *)
PageHide ==
  LET q == Append(queue, accepted + 1)
      flushed == Len(q) >= BatchSize /\ ~isSending IN
  /\ page = "open" /\ ~Busy /\ accepted < MaxEvents
  /\ accepted' = accepted + 1
  /\ IF flushed THEN batch' = Take(q) /\ phase' = "sending" /\ hop' = 1
     ELSE UNCHANGED <<batch, phase, hop>>
  /\ queue' = <<>>
  /\ \E refused \in SUBSET (1..MaxEvents) :
       FlushSync(IF flushed THEN Rest(q) ELSE q, refused, {})
  /\ UNCHANGED <<log, config, page, retryCount, waits, reply, confirmed>>

(* destroy: a batch that waits for its retry goes with the timer.  The     *)
(* queue is sent synchronously while a batch is under way; otherwise flush *)
(* takes one batch and the rest is cleared.                                *)
Destroy ==
  LET abandoned == IF phase = "waiting" THEN Members(batch) ELSE {} IN
  /\ page = "open" /\ ~Busy
  /\ page' = "destroyed" /\ queue' = <<>>
  /\ \/ /\ isSending
        /\ \E refused \in SUBSET (1..MaxEvents) :
             FlushSync(queue, refused, abandoned)
        /\ IF phase = "waiting" THEN phase' = "stuck" /\ batch' = <<>>
           ELSE UNCHANGED <<phase, batch>>
        /\ UNCHANGED hop
     \/ /\ ~isSending
        /\ batch' = Take(queue) /\ hop' = 1
        /\ phase' = IF queue = <<>> THEN "idle" ELSE "sending"
        /\ dropped' = dropped \cup Members(Rest(queue))
        /\ UNCHANGED <<faults, wireVars>>
  /\ UNCHANGED <<log, config, accepted, retryCount, waits, reply, confirmed>>

(* The page is closed: what it holds is gone, what is sent is sent.        *)
PageGone ==
  /\ page # "gone" /\ ~Busy
  /\ page' = "gone" /\ queue' = <<>>
  /\ batch' = <<>> /\ phase' = "idle" /\ hop' = 1 /\ retryCount' = 0
  /\ waits' = 0 /\ reply' = "none"
  /\ dropped' = dropped \cup Members(queue) \cup Members(batch)
  /\ UNCHANGED <<log, faults, config, accepted, wireVars, confirmed>>

-----------------------------------------------------------------------------
(* The network loses a request.                                            *)
LoseRequest(r) ==
  /\ Fault
  /\ wire' = wire \ {r}
  /\ dropped' = dropped \cup (IF r.no = waits THEN {} ELSE Members(r.events))
  /\ UNCHANGED <<log, config, page, accepted, queue, flushVars, requests, confirmed>>

(* The places of S in ascending order.                                     *)
Ascending(S) ==
  {f \in [1..Cardinality(S) -> S] :
     Members(f) = S /\ \A i, j \in DOMAIN f : i < j => f[i] < f[j]}

(* Mutant: a batch is a success when one of its events is saved.           *)
ReplyForAny(r, known) == IF r.via = "gif" \/ known # {} THEN "ok" ELSE "error"

(* saveBeaconData sends the events to Kafka one by one, whatever happens to*)
(* the others: those of appended arrive, those of known are acknowledged.  *)
(* /report answers with an error unless all are; /track.gif always answers *)
(* with the gif.                                                           *)
Reply(r, known) == IF r.via = "gif" \/ known = DOMAIN r.events THEN "ok" ELSE "error"

Receive(r) ==
  \E appended \in SUBSET DOMAIN r.events :
  \E known \in SUBSET appended, place \in Ascending(appended) :
    /\ FaultIf(known # DOMAIN r.events)
    /\ wire' = wire \ {r}
    /\ Append2Log([i \in DOMAIN place |-> r.events[place[i]]])
    /\ reply' = IF r.no = waits THEN Reply(r, known) ELSE reply
    /\ dropped' = dropped \cup
         (IF r.no = waits /\ r.via # "gif" THEN {}
          ELSE {r.events[i] : i \in DOMAIN r.events \ appended})
    /\ UNCHANGED <<config, page, accepted, queue, batch, phase, hop, retryCount, waits, requests,
                   confirmed>>

Script == Send \/ FlushTimer \/ Transmit \/ Refuse \/ Answer \/ NoAnswer \/ RetryTimer
Leaving == PageHide \/ Destroy \/ PageGone
Network == \E r \in wire : LoseRequest(r) \/ Receive(r)
SenderNext == Script \/ Leaving \/ Network

SenderStart == SenderInit /\ log = <<>> /\ faults = 0

SenderSpec ==
  /\ SenderStart
  /\ [][SenderNext]_<<log, faults, senderVars>>

(* The timers of the page run, its script goes on when a request ends, and *)
(* the receiving point serves the requests that reach it.                  *)
SenderFairness ==
  /\ WF_<<log, faults, senderVars>>(FlushTimer)
  /\ WF_<<log, faults, senderVars>>(RetryTimer)
  /\ WF_<<log, faults, senderVars>>(Transmit)
  /\ WF_<<log, faults, senderVars>>(Answer)
  /\ WF_<<log, faults, senderVars>>(NoAnswer)
  /\ WF_<<log, faults, senderVars>>(\E r \in wire : Receive(r))

FairSenderSpec == SenderSpec /\ SenderFairness

-----------------------------------------------------------------------------
(* A batch sent again goes before the events that came after it: what the  *)
(* page holds stays in the order in which it was given (queue.unshift).    *)
QueueInOrder ==
  LET held == batch \o queue IN
  \A i, j \in DOMAIN held : i < j => held[i] < held[j]

OnWire == UNION {Members(r.events) : r \in wire}

(* No event disappears between the queue, the batch flush holds, the       *)
(* requests and Kafka: it is in one of them, or has been given up for a    *)
(* reason the code knows (retries, destroy, page closed, channel refused,  *)
(* a request lost or not saved that nobody waits for).                     *)
EventsAccounted ==
  \A e \in 1..accepted :
    e \in Members(queue) \cup Members(batch) \cup OnWire \cup Members(log) \cup dropped

(* When /report answers with success, every event of the batch is in Kafka,*)
(* whatever failed before and whichever attempt was answered.              *)
ConfirmedIsLogged == confirmed \subseteq Members(log)

(* An event does not stay in the page for ever: its batch is delivered or  *)
(* given up, and the queue moves on, whatever the earlier batch met.       *)
QueueDrains ==
  \A e \in Event :
    e \in Members(queue) \cup Members(batch) ~> e \notin Members(queue) \cup Members(batch)

=============================================================================
