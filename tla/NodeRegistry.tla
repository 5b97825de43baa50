---------------------------- MODULE NodeRegistry ----------------------------
(***************************************************************************)
(* The registry of compute nodes kept by the dashboard service             *)
(* (NodeRegistryService), the streams the nodes dial in on, and the nodes  *)
(* as far as the registry can see them: what they hold and report.         *)
(*                                                                         *)
(* The registry's client, the cleaning scheduler, appears only through the *)
(* guards it applies before a dispatch and its reaction to a settlement;   *)
(* CleaningScheduler models it in full.                                    *)
(*                                                                         *)
(* Time appears as fresh[n]: FALSE once the last heartbeat is older than   *)
(* the timeout.  Node info.available is taken to be true.                  *)
(***************************************************************************)
EXTENDS Naturals, Sequences, FiniteSets

CONSTANTS
  Slice,        \* (date, session) pairs to be cleaned
  Node,         \* node ids
  RustNode,     \* those that run the Rust implementation
  Capacity,     \* task slots of each node
  MaxAttempts,  \* retries of a failed slice (2 in the code)
  MaxStream,    \* bound: streams any node opens
  Dials,        \* bound: streams each node opens
  MaxBoots,     \* bound: restarts of the service
  Beats         \* bound: heartbeats each node sends

ASSUME NodeAssumption ==
  /\ RustNode \subseteq Node
  /\ Capacity \in [Node -> Nat \ {0}]
ASSUME BoundAssumption ==
  /\ MaxAttempts \in Nat
  /\ MaxStream \in Nat
  /\ Dials \in [Node -> 0..MaxStream]
  /\ MaxBoots \in Nat
  /\ Beats \in [Node -> Nat]

(* A task id is clean:<run date>:<date>:<session>[:r<attempt>]; one run    *)
(* date is considered, so the slice and the attempt identify it.           *)
Task == [slice : Slice, attempt : 0..MaxAttempts]

NoStream == 0
Stream == 1..MaxStream

Register(ids) == [kind |-> "register", ids |-> ids]
Terminal(t, failed) == [kind |-> "terminal", task |-> t, failed |-> failed]
Frame ==
  [kind : {"register"}, ids : SUBSET Task]
    \cup [kind : {"terminal"}, task : Task, failed : BOOLEAN]

(* A result a Rust node keeps: the task and whether it failed.             *)
Result == Task \X BOOLEAN

Verdict == {"open", "done", "givenup"}

VARIABLES
  \* the registry
  session,      \* stream the record of a node is bound to, or NoStream
  known,        \* streams that registered or were detached
  fresh,        \* heard from within the heartbeat timeout
  owed,         \* active tasks whose settlement is reported to the scheduler
  restored,     \* active tasks recovered from a register frame
  finished,     \* finishedTaskIds
  lost,         \* tasks the handler that runs now has yet to settle as failed
  \* the scheduler, as the client of the registry
  outstanding,  \* dispatchedTasks
  attempts,     \* failures of a slice so far
  nextId,       \* attempt suffix the slice will be dispatched with
  verdict,      \* whether the slice still has to be cleaned
  boots,        \* restarts of the service so far
  \* the streams
  up,           \* per stream, frames on their way to the service
  down,         \* tasks on their way to the node, on the stream it has open
  \* the nodes
  conn,         \* the stream a node has open, or NoStream
  dialled,      \* streams it opened so far
  beats,        \* heartbeats it sent so far
  held,         \* tasks it accepted and has not finished
  cache,        \* Rust: terminal results kept for replay
  sent          \* Rust: results already sent on the open stream

registryVars == <<session, known, fresh, owed, restored, finished>>
clientVars == <<outstanding, attempts, nextId, verdict, boots>>
nodeVars == <<conn, dialled, beats, held, cache, sent>>
vars == <<registryVars, lost, clientVars, up, down, nodeVars>>

TypeOK ==
  /\ session \in [Node -> Stream \cup {NoStream}]
  /\ known \in [Node -> SUBSET Stream]
  /\ fresh \in [Node -> BOOLEAN]
  /\ owed \in [Node -> SUBSET Task]
  /\ restored \in [Node -> SUBSET Task]
  /\ finished \in [Node -> SUBSET Task]
  /\ lost \in SUBSET Task
  /\ outstanding \in SUBSET Task
  /\ attempts \in [Slice -> 0..MaxAttempts]
  /\ nextId \in [Slice -> 0..MaxAttempts]
  /\ verdict \in [Slice -> Verdict]
  /\ boots \in 0..MaxBoots
  /\ up \in [Node -> [Stream -> Seq(Frame)]]
  /\ down \in [Node -> Seq(Task)]
  /\ conn \in [Node -> Stream \cup {NoStream}]
  /\ dialled \in [Node -> 0..MaxStream]
  /\ beats \in [Node -> Nat]
  /\ held \in [Node -> SUBSET Task]
  /\ cache \in [Node -> SUBSET Result]
  /\ sent \in [Node -> SUBSET Result]

Init ==
  /\ session = [n \in Node |-> NoStream]
  /\ known = [n \in Node |-> {}]
  /\ fresh = [n \in Node |-> FALSE]
  /\ owed = [n \in Node |-> {}]
  /\ restored = [n \in Node |-> {}]
  /\ finished = [n \in Node |-> {}]
  /\ lost = {}
  /\ outstanding = {}
  /\ attempts = [s \in Slice |-> 0]
  /\ nextId = [s \in Slice |-> 0]
  /\ verdict = [s \in Slice |-> "open"]
  /\ boots = 0
  /\ up = [n \in Node |-> [sid \in Stream |-> <<>>]]
  /\ down = [n \in Node |-> <<>>]
  /\ conn = [n \in Node |-> NoStream]
  /\ dialled = [n \in Node |-> 0]
  /\ beats = [n \in Node |-> 0]
  /\ held = [n \in Node |-> {}]
  /\ cache = [n \in Node |-> {}]
  /\ sent = [n \in Node |-> {}]

-----------------------------------------------------------------------------
(* The registry's view of a node.                                          *)

Active(n) == owed[n] \cup restored[n]
Alive(n) == session[n] # NoStream /\ fresh[n]
HasCapacity(n) == Alive(n) /\ Cardinality(Active(n)) < Capacity[n]
HasActiveSlice(s) == \E n \in Node : \E t \in Active(n) : t.slice = s

ActiveBesides(n, t) ==
  \E m \in Node : \E u \in Active(m) : u.slice = t.slice /\ <<m, u>> # <<n, t>>

(* The service runs one handler at a time: nothing else starts while the   *)
(* running one still has settlements to report.                            *)
Quiet == lost = {}

(* A frame is taken from a stream unless the stream was replaced or closed.*)
Listening(n, sid) == sid = session[n] \/ sid \notin known[n]

Send(n, sid, frame) == up' = [up EXCEPT ![n][sid] = Append(@, frame)]
Consume(n, sid) == up' = [up EXCEPT ![n][sid] = Tail(@)]

-----------------------------------------------------------------------------
(* The scheduler's part: what it dispatches and what a settlement does.    *)

(* A settled task leaves dispatchedTasks.  After a failure the slice gets  *)
(* a new id :r<k>, at most MaxAttempts times; if the retry is refused      *)
(* because the slice is active elsewhere, a later scan reloads the slice   *)
(* under its base id.                                                      *)
ClientSettle(t, failed, activeNow) ==
  LET s == t.slice
      retry == failed /\ attempts[s] < MaxAttempts
      count == IF retry THEN attempts[s] + 1 ELSE 0
  IN /\ outstanding' = outstanding \ {t}
     /\ attempts' = [attempts EXCEPT ![s] = count]
     /\ nextId' = [nextId EXCEPT ![s] = IF activeNow THEN 0 ELSE count]
     /\ verdict' = [verdict EXCEPT ![s] = IF retry THEN @
                                          ELSE IF failed THEN "givenup" ELSE "done"]
     /\ UNCHANGED boots

(* Mistake: only the nodes are asked whether the slice is being cleaned.   *)
DispatchActiveOnly(n, s) ==
  LET t == [slice |-> s, attempt |-> nextId[s]] IN
  /\ verdict[s] = "open"
  /\ ~HasActiveSlice(s)
  /\ HasCapacity(n)
  /\ owed' = [owed EXCEPT ![n] = @ \cup {t}]
  /\ finished' = [finished EXCEPT ![n] = @ \ {t}]
  /\ outstanding' = outstanding \cup {t}
  /\ down' = IF conn[n] = session[n] THEN [down EXCEPT ![n] = Append(@, t)] ELSE down
  /\ UNCHANGED <<session, known, fresh, restored, lost, attempts, nextId, verdict,
                 boots, up, nodeVars>>

(* drain() picks a queued slice that is not in flight and not active on    *)
(* any node, and dispatchTask reserves the slot before it sends.  A task   *)
(* sent on a stream the node has already left is never received.           *)
Dispatch(n, s) ==
  LET t == [slice |-> s, attempt |-> nextId[s]] IN
  /\ verdict[s] = "open"
  /\ \A u \in outstanding : u.slice # s
  /\ ~HasActiveSlice(s)
  /\ HasCapacity(n)
  /\ owed' = [owed EXCEPT ![n] = @ \cup {t}]
  /\ finished' = [finished EXCEPT ![n] = @ \ {t}]
  /\ outstanding' = outstanding \cup {t}
  /\ down' = IF conn[n] = session[n] THEN [down EXCEPT ![n] = Append(@, t)] ELSE down
  /\ UNCHANGED <<session, known, fresh, restored, lost, attempts, nextId, verdict,
                 boots, up, nodeVars>>

(* The running handler reports the next of the tasks it took away.         *)
NotifyLost(t) ==
  /\ t \in lost
  /\ lost' = lost \ {t}
  /\ ClientSettle(t, TRUE, HasActiveSlice(t.slice))
  /\ UNCHANGED <<registryVars, up, down, nodeVars>>

-----------------------------------------------------------------------------
(* Frames and timers of the registry.                                      *)

(* A register frame is a snapshot of the node only on a new stream or when *)
(* the node had counted as dead; a heartbeat may lag behind a dispatch.    *)
Recovering(n, sid) == session[n] # sid \/ ~Alive(n)

(* Active tasks the snapshot does not list are gone.                       *)
Missing(n, sid, ids) == IF Recovering(n, sid) THEN Active(n) \ ids ELSE {}

(* applyRegister: the listed ones take their slots again, unless their     *)
(* result was seen.                                                        *)
TakenBack(n, sid, ids) ==
  IF Recovering(n, sid) THEN ids \ (Active(n) \cup finished[n]) ELSE {}

(* bindNode: the node's record belongs to this stream from now on.         *)
BindNode(n, sid) ==
  /\ session' = [session EXCEPT ![n] = sid]
  /\ known' = [known EXCEPT ![n] = @ \cup {sid}]
  /\ fresh' = [fresh EXCEPT ![n] = TRUE]

(* register: first frame of a stream and heartbeat.  The missing tasks are *)
(* all released before the first is settled as failed.                     *)
OnRegister(n, sid) ==
  /\ Quiet
  /\ up[n][sid] # <<>>
  /\ Listening(n, sid)
  /\ LET ids == Head(up[n][sid]).ids
         missing == Missing(n, sid, ids)
     IN /\ Head(up[n][sid]).kind = "register"
        /\ owed' = [owed EXCEPT ![n] = @ \ missing]
        /\ restored' = [restored EXCEPT ![n] = (@ \ missing) \cup TakenBack(n, sid, ids)]
        /\ lost' = owed[n] \cap missing
  /\ BindNode(n, sid)
  /\ Consume(n, sid)
  /\ UNCHANGED <<finished, clientVars, down, nodeVars>>

(* progress with completed or failed, for a task that is active.           *)
OnTerminal(n, sid) ==
  /\ Quiet
  /\ up[n][sid] # <<>>
  /\ sid = session[n]
  /\ LET frame == Head(up[n][sid])
         t == frame.task
     IN /\ frame.kind = "terminal"
        /\ t \in Active(n)
        /\ owed' = [owed EXCEPT ![n] = @ \ {t}]
        /\ restored' = [restored EXCEPT ![n] = @ \ {t}]
        /\ finished' = [finished EXCEPT ![n] = @ \cup {t}]
        /\ IF t \in owed[n]
           THEN ClientSettle(t, frame.failed, ActiveBesides(n, t))
           ELSE UNCHANGED clientVars
  /\ fresh' = [fresh EXCEPT ![n] = TRUE]
  /\ Consume(n, sid)
  /\ UNCHANGED <<session, known, lost, down, nodeVars>>

(* A frame of a replaced stream, and the result of a task that is not      *)
(* active (any more), change nothing.                                      *)
Ignore(n, sid) ==
  /\ Quiet
  /\ up[n][sid] # <<>>
  /\ LET frame == Head(up[n][sid])
     IN \/ ~Listening(n, sid)
        \/ frame.kind = "terminal" /\ frame.task \notin Active(n)
  /\ Consume(n, sid)
  /\ UNCHANGED <<registryVars, lost, clientVars, down, nodeVars>>

(* The service sees a stream end; what was still on it is gone.  Only the  *)
(* stream the record is bound to takes the node offline.                   *)
OnClose(n, sid) ==
  /\ Quiet
  /\ sid <= dialled[n]
  /\ Listening(n, sid)
  /\ session' = [session EXCEPT ![n] = IF @ = sid THEN NoStream ELSE @]
  /\ known' = [known EXCEPT ![n] = @ \cup {sid}]
  /\ up' = [up EXCEPT ![n][sid] = <<>>]
  /\ UNCHANGED <<fresh, owed, restored, finished, lost, clientVars, down, nodeVars>>

(* The heartbeat timeout passes without a frame of the node.               *)
Expire(n) ==
  /\ Quiet
  /\ Alive(n)
  /\ fresh' = [fresh EXCEPT ![n] = FALSE]
  /\ UNCHANGED <<session, known, owed, restored, finished, lost, clientVars, up, down,
                 nodeVars>>

(* Mistake: a node that died is forgotten without a settlement.            *)
ReconcileSilent(n) ==
  /\ Quiet
  /\ ~Alive(n)
  /\ Active(n) # {}
  /\ owed' = [owed EXCEPT ![n] = {}]
  /\ restored' = [restored EXCEPT ![n] = {}]
  /\ UNCHANGED <<session, known, fresh, finished, lost, clientVars, up, down, nodeVars>>

(* Mistake: only nodes whose stream has closed count as dead.              *)
ReconcileClosed(n) ==
  /\ Quiet
  /\ session[n] = NoStream
  /\ Active(n) # {}
  /\ lost' = owed[n]
  /\ owed' = [owed EXCEPT ![n] = {}]
  /\ restored' = [restored EXCEPT ![n] = {}]
  /\ UNCHANGED <<session, known, fresh, finished, clientVars, up, down, nodeVars>>

(* Mistake: tasks nobody waits for keep their slots.                       *)
ReconcileOwed(n) ==
  /\ Quiet
  /\ ~Alive(n)
  /\ owed[n] # {}
  /\ lost' = owed[n]
  /\ owed' = [owed EXCEPT ![n] = {}]
  /\ UNCHANGED <<session, known, fresh, restored, finished, clientVars, up, down,
                 nodeVars>>

(* The status timer finds the node dead: settleIfBusy.                     *)
Reconcile(n) ==
  /\ Quiet
  /\ ~Alive(n)
  /\ Active(n) # {}
  /\ lost' = owed[n]
  /\ owed' = [owed EXCEPT ![n] = {}]
  /\ restored' = [restored EXCEPT ![n] = {}]
  /\ UNCHANGED <<session, known, fresh, finished, clientVars, up, down, nodeVars>>

(* The service restarts.  All it knew was in memory; slices that were      *)
(* cleaned are no longer part of the backlog, given-up ones are again.     *)
Restart ==
  /\ boots < MaxBoots
  /\ boots' = boots + 1
  /\ session' = [n \in Node |-> NoStream]
  /\ known' = [n \in Node |-> 1..dialled[n]]
  /\ fresh' = [n \in Node |-> FALSE]
  /\ owed' = [n \in Node |-> {}]
  /\ restored' = [n \in Node |-> {}]
  /\ finished' = [n \in Node |-> {}]
  /\ lost' = {}
  /\ outstanding' = {}
  /\ attempts' = [s \in Slice |-> 0]
  /\ nextId' = [s \in Slice |-> 0]
  /\ verdict' = [s \in Slice |-> IF verdict[s] = "done" THEN "done" ELSE "open"]
  /\ up' = [n \in Node |-> [sid \in Stream |-> <<>>]]
  /\ down' = [n \in Node |-> <<>>]
  /\ UNCHANGED nodeVars

-----------------------------------------------------------------------------
(* The nodes.                                                              *)

(* The node dials in and reports what it holds; a Rust node also lists the *)
(* results it keeps for replay.                                            *)
Connect(n) ==
  /\ conn[n] = NoStream
  /\ dialled[n] < Dials[n]
  /\ LET sid == dialled[n] + 1
         replayed == IF n \in RustNode THEN {c[1] : c \in cache[n]} ELSE {}
     IN /\ conn' = [conn EXCEPT ![n] = sid]
        /\ dialled' = [dialled EXCEPT ![n] = sid]
        /\ Send(n, sid, Register(held[n] \cup replayed))
  /\ sent' = [sent EXCEPT ![n] = {}]
  /\ UNCHANGED <<registryVars, lost, clientVars, down, beats, held, cache>>

Heartbeat(n) ==
  /\ conn[n] # NoStream
  /\ beats[n] < Beats[n]
  /\ beats' = [beats EXCEPT ![n] = @ + 1]
  /\ Send(n, conn[n], Register(held[n]))
  /\ UNCHANGED <<registryVars, lost, clientVars, down, conn, dialled, held, cache, sent>>

(* The stream breaks for the node.  Frames already sent may still arrive.  *)
Break(n) ==
  /\ conn[n] # NoStream
  /\ conn' = [conn EXCEPT ![n] = NoStream]
  /\ down' = [down EXCEPT ![n] = <<>>]
  /\ UNCHANGED <<registryVars, lost, clientVars, up, dialled, beats, held, cache, sent>>

(* Mistake: a task beyond the capacity is dropped without an answer.       *)
ReceiveDrop(n) ==
  /\ down[n] # <<>>
  /\ down' = [down EXCEPT ![n] = Tail(@)]
  /\ LET t == Head(down[n])
         known_id == t \in held[n] \/ t \in {c[1] : c \in cache[n]}
         refused == n \in RustNode /\ Cardinality(held[n]) >= Capacity[n]
     IN held' = IF known_id \/ refused THEN held ELSE [held EXCEPT ![n] = @ \cup {t}]
  /\ UNCHANGED <<registryVars, lost, clientVars, up, conn, dialled, beats, cache, sent>>

(* A task arrives.  A TypeScript node queues whatever it gets and joins an *)
(* execution of the same id; a Rust node answers a known id from its cache *)
(* and refuses a task beyond its capacity.                                 *)
Receive(n) ==
  /\ down[n] # <<>>
  /\ down' = [down EXCEPT ![n] = Tail(@)]
  /\ LET t == Head(down[n])
         known_id == t \in held[n] \/ t \in {c[1] : c \in cache[n]}
         refused == n \in RustNode /\ Cardinality(held[n]) >= Capacity[n]
     IN IF known_id
        THEN UNCHANGED <<held, cache>>
        ELSE IF refused
        THEN /\ cache' = [cache EXCEPT ![n] = @ \cup {<<t, TRUE>>}]
             /\ UNCHANGED held
        ELSE /\ held' = [held EXCEPT ![n] = @ \cup {t}]
             /\ UNCHANGED cache
  /\ UNCHANGED <<registryVars, lost, clientVars, up, conn, dialled, beats, sent>>

(* A task ends.  A TypeScript node sends the result on the stream it has,  *)
(* if any; a Rust node keeps it and lets its connection loop send it.      *)
Finish(n, t, failed) ==
  /\ t \in held[n]
  /\ held' = [held EXCEPT ![n] = @ \ {t}]
  /\ IF n \in RustNode
     THEN /\ cache' = [cache EXCEPT ![n] = @ \cup {<<t, failed>>}]
          /\ UNCHANGED up
     ELSE /\ IF conn[n] # NoStream
             THEN Send(n, conn[n], Terminal(t, failed))
             ELSE UNCHANGED up
          /\ UNCHANGED cache
  /\ UNCHANGED <<registryVars, lost, clientVars, down, conn, dialled, beats, sent>>

(* changed_progress: only results not yet sent on this stream.             *)
SendResult(n, c) ==
  /\ conn[n] # NoStream
  /\ c \in cache[n] \ sent[n]
  /\ sent' = [sent EXCEPT ![n] = @ \cup {c}]
  /\ Send(n, conn[n], Terminal(c[1], c[2]))
  /\ UNCHANGED <<registryVars, lost, clientVars, down, conn, dialled, beats, held, cache>>

Crash(n) ==
  /\ held[n] # {} \/ cache[n] # {}
  /\ conn' = [conn EXCEPT ![n] = NoStream]
  /\ held' = [held EXCEPT ![n] = {}]
  /\ cache' = [cache EXCEPT ![n] = {}]
  /\ sent' = [sent EXCEPT ![n] = {}]
  /\ down' = [down EXCEPT ![n] = <<>>]
  /\ UNCHANGED <<registryVars, lost, clientVars, up, dialled, beats>>

-----------------------------------------------------------------------------
Next ==
  \/ \E n \in Node, s \in Slice : Dispatch(n, s)
  \/ \E t \in lost : NotifyLost(t)
  \/ \E n \in Node, sid \in Stream : OnRegister(n, sid)
  \/ \E n \in Node, sid \in Stream : OnTerminal(n, sid)
  \/ \E n \in Node, sid \in Stream : Ignore(n, sid)
  \/ \E n \in Node, sid \in Stream : OnClose(n, sid)
  \/ \E n \in Node : Expire(n)
  \/ \E n \in Node : Reconcile(n)
  \/ Restart
  \/ \E n \in Node : Connect(n)
  \/ \E n \in Node : Heartbeat(n)
  \/ \E n \in Node : Break(n)
  \/ \E n \in Node : Receive(n)
  \/ \E n \in Node : \E t \in held[n], failed \in BOOLEAN : Finish(n, t, failed)
  \/ \E n \in Node : \E c \in cache[n] : SendResult(n, c)
  \/ \E n \in Node : Crash(n)

Spec == Init /\ [][Next]_vars

-----------------------------------------------------------------------------
(* Under what the service's timers and the nodes do by themselves: frames  *)
(* and tasks on a stream are taken, the status timer runs, a node that     *)
(* works on a task ends it, and a record whose stream the node has left is *)
(* not heard from and times out.  Nothing is assumed of OnClose (a killed  *)
(* node may never close its stream), of Connect or of Heartbeat.           *)
Fairness ==
  /\ \A n \in Node :
       /\ WF_vars(Receive(n))
       /\ WF_vars(Reconcile(n))
       /\ WF_vars(session[n] # conn[n] /\ Expire(n))
       /\ WF_vars(\E c \in cache[n] : SendResult(n, c))
       /\ \A t \in Task : WF_vars(\E failed \in BOOLEAN : Finish(n, t, failed))
       /\ \A sid \in Stream :
            WF_vars(OnRegister(n, sid) \/ OnTerminal(n, sid) \/ Ignore(n, sid))
  /\ WF_vars(\E t \in lost : NotifyLost(t))

FairSpec == Spec /\ Fairness

-----------------------------------------------------------------------------
(* The tasks the registry has yet to report a settlement for.              *)
Obligations == {t \in Task : t \in lost \/ \E n \in Node : t \in owed[n]}

(* The scheduler waits for exactly the tasks the registry owes it a        *)
(* settlement for, each owed by one node: no dispatched task is forgotten  *)
(* (settleIfBusy: its slice would never be cleaned again) and none is      *)
(* settled twice, whatever streams, timeouts and restarts do.              *)
InflightHasOwner ==
  /\ outstanding = Obligations
  /\ \A m, n \in Node : m # n => owed[m] \cap owed[n] = {}
  /\ \A n \in Node : owed[n] \cap (restored[n] \cup lost) = {}

(* A task occupying a slot of a node on the stream it is bound to is on    *)
(* its way to the node, held by it, or its result is still to come; else   *)
(* the slot would stay taken for as long as the node keeps its heartbeat.  *)
Bound(n) == session[n] # NoStream /\ session[n] = conn[n]

Accounted(n, t) ==
  \/ t \in held[n]
  \/ \E i \in 1..Len(down[n]) : down[n][i] = t
  \/ \E i \in 1..Len(up[n][conn[n]]) :
       LET f == up[n][conn[n]][i] IN f.kind = "terminal" /\ f.task = t
  \/ \E c \in cache[n] \ sent[n] : c[1] = t

(* A Rust node has sent its result of t on the open stream; given t again, *)
(* it wakes its connection loop, which sends nothing twice.                *)
Silent(n, t) == \E c \in cache[n] \cap sent[n] : c[1] = t

(* An id is given out again by a service that restarted, or as the base id *)
(* of a slice whose retry was refused.                                     *)
GivenAgain(t) == boots > 0 \/ (t.attempt = 0 /\ attempts[t.slice] > 0)

(* Strict form, which the code does not keep (see rust_replay.cfg).        *)
EverySlotAccounted ==
  \A n \in Node : Bound(n) => \A t \in Active(n) : Accounted(n, t)

(* A slot stays taken with nothing under way that would free it only when  *)
(* an id was given out a second time to a node that answered it before.    *)
NoGhostSlot ==
  \A n \in Node :
    Bound(n) =>
      \A t \in Active(n) :
        Accounted(n, t) \/ (t \in owed[n] /\ Silent(n, t) /\ GivenAgain(t))

(* A slice is never held by two nodes at once: both would look for rows    *)
(* already written, find none and insert the same events.                  *)
NoSliceOnTwoNodes ==
  \A m, n \in Node : \A t \in held[m], u \in held[n] :
    t.slice = u.slice => m = n

(* A task is owed by a Rust node that was given its id again after it had  *)
(* answered it on the stream it has open.                                  *)
Muted(t) ==
  GivenAgain(t) /\ \E n \in RustNode : Bound(n) /\ t \in owed[n] /\ Silent(n, t)

(* Every dispatched task is settled in the end, or muted: that one stays   *)
(* out for as long as the stream lasts (see rust_replay.cfg), no longer.   *)
DispatchedIsSettled ==
  \A t \in Task : t \in outstanding ~> t \notin outstanding \/ Muted(t)

(* A slot taken back from a register frame is freed in the end.            *)
RestoredIsFreed ==
  \A n \in Node, t \in Task : t \in restored[n] ~> t \notin restored[n]

(* Every step is one of the ledger's: the registry accepts a task of a     *)
(* slice only while none is owed, and settles what it owes one at a time.  *)
Ledger == INSTANCE SliceLedger WITH outstanding <- Obligations
ImplementsLedger == Ledger!Spec
=============================================================================
