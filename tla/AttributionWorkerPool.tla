------------------------ MODULE AttributionWorkerPool ------------------------
(***************************************************************************)
(* The pool of worker threads that compute the attributions of the sessions*)
(* a TypeScript cleaning node works on (AttributionWorkerPool), with the   *)
(* threads (attribution-worker.ts).                                        *)
(*                                                                         *)
(* The pool runs on the main thread, where a handler runs to its end.  Its *)
(* loop dispatch() is one step per pass; while it runs (dispatching) no    *)
(* other step of the main thread is possible, only threads go on.  A thread*)
(* and the pool exchange messages that arrive in order and late; a thread  *)
(* may die at any time, also with messages of its under way.               *)
(***************************************************************************)
EXTENDS Naturals, Sequences, FiniteSets

CONSTANTS
  Concurrency,
  MaxTasks,    \* bound: computations
  Total,       \* progress messages of a computation
  MaxFaults    \* bound: deaths, failed computations, failed callbacks

ASSUME PoolAssumption ==
  /\ Concurrency \in Nat \ {0} /\ Total \in Nat \ {0}
  /\ MaxTasks \in Nat /\ MaxFaults \in Nat

Task == 1..MaxTasks

(* A thread is created for a computation, so there are never more of them. *)
Worker == 1..MaxTasks

VARIABLES
  \* the pool
  asked,        \* nextTaskId - 1: the computations asked for are 1..asked
  queue,
  workers,      \* the slots in use; a slot once used and not in it is disposed
  created,      \* the slots ever created are 1..created
  current,      \* per slot, its computation; 0: none
  dispatching,
  closed,
  processed,    \* per computation, what has been reported of it
  failed,       \* computations whose callback has thrown
  outcome,      \* of the promise of a computation
  \* the threads
  alive,
  job,          \* per thread, the computation and how much of it is done
  mail,         \* messages and events that are under way to the pool
  \* history
  computed,     \* the computations a thread has done to the end
  faults

pool == <<asked, queue, workers, created, current, dispatching, closed, processed, failed, outcome>>
threads == <<alive, job, mail, computed>>
vars == <<pool, threads, faults>>

NoJob == [task |-> 0, done |-> 0]
Message == [type : {"progress", "result", "error", "exit"}, task : 0..MaxTasks, processed : 0..Total]
Outcome == {"none", "resolved", "rejected"}

TypeOK ==
  /\ asked \in 0..MaxTasks /\ queue \in Seq(Task)
  /\ created \in 0..asked /\ workers \in SUBSET (1..created)
  /\ current \in [Worker -> 0..MaxTasks]
  /\ dispatching \in BOOLEAN /\ closed \in BOOLEAN
  /\ processed \in [Task -> 0..Total] /\ failed \subseteq Task
  /\ outcome \in [Task -> Outcome]
  /\ alive \subseteq 1..created
  /\ job \in [Worker -> [task : 0..MaxTasks, done : 0..Total]]
  /\ mail \in [Worker -> Seq(Message)]
  /\ computed \subseteq Task
  /\ faults \in 0..MaxFaults

Init ==
  /\ asked = 0 /\ queue = <<>> /\ workers = {} /\ created = 0
  /\ current = [w \in Worker |-> 0]
  /\ dispatching = FALSE /\ closed = FALSE
  /\ processed = [t \in Task |-> 0] /\ failed = {}
  /\ outcome = [t \in Task |-> "none"]
  /\ alive = {} /\ job = [w \in Worker |-> NoJob] /\ mail = [w \in Worker |-> <<>>]
  /\ computed = {} /\ faults = 0

Fault == faults < MaxFaults /\ faults' = faults + 1

-----------------------------------------------------------------------------
Idle == {w \in workers : current[w] = 0}
Full == Cardinality(workers) >= Concurrency

(* The slot of the next pass: the oldest one that is free, or a new one.   *)
Oldest(S) == CHOOSE w \in S : \A v \in S : w <= v
NextSlot == IF Idle # {} THEN Oldest(Idle) ELSE created + 1

(* compute: a closed pool throws, an open one takes the computation.       *)
Compute ==
  /\ ~dispatching /\ asked < MaxTasks
  /\ asked' = asked + 1
  /\ IF closed
     THEN /\ outcome' = [outcome EXCEPT ![asked + 1] = "rejected"]
          /\ UNCHANGED <<queue, dispatching>>
     ELSE /\ queue' = Append(queue, asked + 1) /\ dispatching' = TRUE
          /\ UNCHANGED outcome
  /\ UNCHANGED <<workers, created, current, closed, processed, failed, threads, faults>>

(* dispatch: the loop ends.                                                *)
DispatchEnds ==
  /\ dispatching
  /\ queue = <<>> \/ (Idle = {} /\ Full)
  /\ dispatching' = FALSE
  /\ UNCHANGED <<asked, queue, workers, created, current, closed, processed, failed, outcome,
                 threads, faults>>

(* A pass: the head of the queue is posted to a thread.                    *)
DispatchOne ==
  LET w == NextSlot
      t == Head(queue) IN
  /\ dispatching /\ queue # <<>> /\ ~(Idle = {} /\ Full)
  /\ queue' = Tail(queue)
  /\ workers' = workers \cup {w} /\ current' = [current EXCEPT ![w] = t]
  /\ IF w > created
     THEN created' = w /\ alive' = alive \cup {w} ELSE UNCHANGED <<created, alive>>
  /\ job' = IF w \in alive' THEN [job EXCEPT ![w] = [task |-> t, done |-> 0]] ELSE job
  /\ UNCHANGED <<asked, dispatching, closed, processed, failed, outcome, mail, computed, faults>>

(* A pass that fails: no thread can be created, or the new one is disposed *)
(* of for a listener that is refused, or either kind for a post that is.   *)
DispatchFails ==
  LET w == NextSlot
      t == Head(queue) IN
  /\ dispatching /\ queue # <<>> /\ ~(Idle = {} /\ Full)
  /\ Fault
  /\ queue' = Tail(queue)
  /\ outcome' = [outcome EXCEPT ![t] = "rejected"]
  /\ \/ Idle = {} /\ UNCHANGED <<workers, created, alive>>
     \/ /\ workers' = workers \ {w}
        /\ IF w > created
           THEN created' = w /\ alive' = alive \cup {w} ELSE UNCHANGED <<created, alive>>
  /\ UNCHANGED <<asked, current, dispatching, closed, processed, failed, job, mail, computed>>

-----------------------------------------------------------------------------
(* Mutant: what the callback has thrown is forgotten.                      *)
FinishAnyway(t, threw) == [outcome EXCEPT ![t] = "resolved"]

(* finishComputation without an error: rejected all the same when the      *)
(* callback has thrown, now or before.                                     *)
Finish(t, threw) ==
  [outcome EXCEPT ![t] = IF t \in failed \/ threw THEN "rejected" ELSE "resolved"]

(* reportProgress: the callback hears of more progress only, and not after *)
(* it has thrown once.                                                     *)
Report(t, n, threw) ==
  IF t \in failed \/ closed \/ n <= processed[t]
  THEN ~threw /\ UNCHANGED <<processed, failed>>
  ELSE /\ processed' = [processed EXCEPT ![t] = n]
       /\ failed' = IF threw THEN failed \cup {t} ELSE failed

(* A thread's answer to what its slot is not, or no longer, working on.    *)
Stale(w, m) == w \notin workers \/ current[w] = 0 \/ m.task # current[w]

Received(w) == mail' = [mail EXCEPT ![w] = Tail(@)]

OnStale(w) ==
  /\ ~dispatching /\ mail[w] # <<>>
  /\ IF Head(mail[w]).type = "exit" THEN w \notin workers ELSE Stale(w, Head(mail[w]))
  /\ Received(w)
  /\ UNCHANGED <<pool, alive, job, computed, faults>>

OnProgress(w) ==
  \E threw \in BOOLEAN :
    /\ ~dispatching /\ mail[w] # <<>> /\ Head(mail[w]).type = "progress"
    /\ ~Stale(w, Head(mail[w]))
    /\ IF threw THEN Fault ELSE UNCHANGED faults
    /\ Report(current[w], Head(mail[w]).processed, threw)
    /\ Received(w)
    /\ UNCHANGED <<asked, queue, workers, created, current, dispatching, closed, outcome, alive, job,
                   computed>>

(* The result: the slot is free again, what is missing of the progress is  *)
(* reported, the promise is settled, and the next computation dispatched.  *)
OnResult(w) ==
  \E threw \in BOOLEAN :
    /\ ~dispatching /\ mail[w] # <<>> /\ Head(mail[w]).type = "result"
    /\ ~Stale(w, Head(mail[w]))
    /\ IF threw THEN Fault ELSE UNCHANGED faults
    /\ current' = [current EXCEPT ![w] = 0]
    /\ Report(current[w], Total, threw)
    /\ outcome' = Finish(current[w], threw)
    /\ dispatching' = TRUE
    /\ Received(w)
    /\ UNCHANGED <<asked, queue, workers, created, closed, alive, job, computed>>

(* Mutants: the computation of a failed thread is not settled; the whole   *)
(* queue is.                                                               *)
FailUnsettled(w) ==
  /\ current' = [current EXCEPT ![w] = 0] /\ workers' = workers \ {w}
  /\ dispatching' = TRUE
  /\ UNCHANGED <<outcome, queue>>

FailAll(w) ==
  /\ current' = [current EXCEPT ![w] = 0] /\ workers' = workers \ {w}
  /\ outcome' = [t \in Task |-> IF t \in {current[w]} \cup {queue[i] : i \in DOMAIN queue}
                                THEN "rejected" ELSE outcome[t]]
  /\ queue' = <<>> /\ dispatching' = TRUE

(* onWorkerFailure: the slot is disposed of and its computation rejected.  *)
Fail(w) ==
  /\ current' = [current EXCEPT ![w] = 0] /\ workers' = workers \ {w}
  /\ outcome' = IF current[w] = 0 THEN outcome ELSE [outcome EXCEPT ![current[w]] = "rejected"]
  /\ dispatching' = TRUE
  /\ UNCHANGED queue

(* The computation has failed in the thread, or the thread is gone.        *)
OnFailure(w) ==
  /\ ~dispatching /\ mail[w] # <<>>
  /\ \/ Head(mail[w]).type = "error" /\ ~Stale(w, Head(mail[w]))
     \/ Head(mail[w]).type = "exit" /\ w \in workers
  /\ Fail(w)
  /\ Received(w)
  /\ UNCHANGED <<asked, created, closed, processed, failed, alive, job, computed, faults>>

(* onModuleDestroy: all that is not settled is rejected.                   *)
Destroy ==
  /\ ~dispatching /\ ~closed
  /\ closed' = TRUE
  /\ queue' = <<>> /\ workers' = {}
  /\ current' = [w \in Worker |-> 0]
  /\ outcome' = [t \in Task |->
                   IF (\E i \in DOMAIN queue : queue[i] = t) \/ (\E w \in workers : current[w] = t)
                   THEN "rejected" ELSE outcome[t]]
  /\ UNCHANGED <<asked, created, dispatching, processed, failed, threads, faults>>

-----------------------------------------------------------------------------
(* A thread computes, and reports: progress in portions, and the result.   *)
Send(w, type, n) ==
  mail' = [mail EXCEPT ![w] = Append(@, [type |-> type, task |-> job[w].task, processed |-> n])]

ThreadProgress(w) ==
  /\ w \in alive /\ job[w].task # 0 /\ job[w].done < Total
  /\ job' = [job EXCEPT ![w].done = @ + 1]
  /\ Send(w, "progress", job[w].done + 1)
  /\ UNCHANGED <<pool, alive, computed, faults>>

ThreadResult(w) ==
  /\ w \in alive /\ job[w].task # 0 /\ job[w].done = Total
  /\ job' = [job EXCEPT ![w] = NoJob]
  /\ Send(w, "result", Total)
  /\ computed' = computed \cup {job[w].task}
  /\ UNCHANGED <<pool, alive, faults>>

ThreadError(w) ==
  /\ w \in alive /\ job[w].task # 0 /\ Fault
  /\ job' = [job EXCEPT ![w] = NoJob]
  /\ Send(w, "error", 0)
  /\ UNCHANGED <<pool, alive, computed>>

(* A thread dies; what it has sent arrives before the event that tells.    *)
ThreadDies(w) ==
  /\ w \in alive /\ Fault
  /\ alive' = alive \ {w}
  /\ job' = [job EXCEPT ![w] = NoJob]
  /\ mail' = [mail EXCEPT ![w] = Append(@, [type |-> "exit", task |-> 0, processed |-> 0])]
  /\ UNCHANGED <<pool, computed>>

(* terminate() of a disposed slot takes effect.                            *)
Terminated(w) ==
  /\ w \in alive \ workers
  /\ alive' = alive \ {w}
  /\ job' = [job EXCEPT ![w] = NoJob]
  /\ UNCHANGED <<pool, mail, computed, faults>>

Dispatch == DispatchEnds \/ DispatchOne \/ DispatchFails
Deliver(w) == OnStale(w) \/ OnProgress(w) \/ OnResult(w) \/ OnFailure(w)
Thread(w) == ThreadProgress(w) \/ ThreadResult(w) \/ ThreadError(w)
Next ==
  \/ Compute \/ Dispatch \/ Destroy
  \/ \E w \in Worker : Deliver(w) \/ Thread(w) \/ ThreadDies(w) \/ Terminated(w)

Spec == Init /\ [][Next]_vars

(* The main thread goes on, messages arrive, and a thread goes on.         *)
Fairness ==
  /\ WF_vars(Dispatch)
  /\ \A w \in Worker : WF_vars(Deliver(w)) /\ WF_vars(Thread(w))

FairSpec == Spec /\ Fairness

-----------------------------------------------------------------------------
Settled(t) == outcome[t] # "none"
Places(t) == {i \in DOMAIN queue : queue[i] = t}
Holders(t) == {w \in workers : current[w] = t}

(* A computation whose promise is not settled waits in the queue or is on  *)
(* the slot of a live worker, once; a settled one is nowhere.  So a closed *)
(* pool, which has neither, has settled all.                               *)
NothingForgotten ==
  /\ \A t \in 1..asked :
       IF Settled(t) THEN Places(t) = {} /\ Holders(t) = {}
       ELSE \/ Holders(t) = {} /\ \E i \in DOMAIN queue : Places(t) = {i}
            \/ Places(t) = {} /\ \E w \in workers : Holders(t) = {w}
  /\ closed => queue = <<>> /\ workers = {}

(* What is resolved was computed to the end by a thread, and its callback  *)
(* has heard of all of it and has not thrown.                              *)
ResolvedIsComputed ==
  \A t \in Task :
    outcome[t] = "resolved" => t \in computed /\ processed[t] = Total /\ t \notin failed

(* A failure rejects one session and no other.                             *)
OneFaultOneRejection ==
  ~closed => Cardinality({t \in Task : outcome[t] = "rejected"}) <= faults

(* Every promise is settled in the end.                                    *)
EverySessionSettles == \A t \in Task : asked >= t ~> Settled(t)
=============================================================================
