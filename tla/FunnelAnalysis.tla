--------------------------- MODULE FunnelAnalysis ---------------------------
(***************************************************************************)
(* The funnel query (generateFunnelAnalysisSql) in its loose mode: how many*)
(* users, sessions or visits go through the steps in order within a window.*)
(***************************************************************************)
EXTENDS EventLog, Folds

CONSTANTS
  Funnels,        \* bound: sequences of steps, each the set of kinds it takes
  FunnelWindows,  \* bound: window periods
  FunnelRange     \* bound: the range of days, a pair

ASSUME FunnelAssumption ==
  /\ Funnels \subseteq Seq(SUBSET Kind) /\ FunnelWindows \subseteq Nat
  /\ FunnelRange \in Nat \X Nat

FunnelType == {"USER", "SESSION", "COUNT"}

(* The entity a row belongs to.                                            *)
FunnelEntity(type, i) ==
  CASE type = "USER" -> <<log[i].uid>>
    [] type = "SESSION" -> <<log[i].session>>
    [] OTHER -> <<log[i].uid, log[i].session>>

(* The step of each row is the first that takes it, 0 if none does.        *)
StepOf(steps) ==
  [i \in DOMAIN log |->
     LET taking == {s \in DOMAIN steps : log[i].kind \in steps[s]} IN
     IF taking = {} THEN 0 ELSE CHOOSE s \in taking : \A t \in taking : s <= t]

(* The order of the rows: by time, then by step.                           *)
Earlier(step, i, j) ==
  \/ log[i].at < log[j].at
  \/ log[i].at = log[j].at /\ step[i] < step[j]
  \/ log[i].at = log[j].at /\ step[i] = step[j] /\ i < j

(* Of each step b has the start of the chain that has last come to it,     *)
(* counted from 1, with 0 for none; what it is after row i.                *)
Advance(step, window, i, b) ==
  LET t == log[i].at + 1 IN
  CASE step[i] = 1 -> [b EXCEPT ![1] = t]
    [] step[i] > 1 /\ b[step[i] - 1] > 0 /\ t <= b[step[i] - 1] + window ->
         [b EXCEPT ![step[i]] = b[step[i] - 1]]
    [] OTHER -> b

(* windowFunnel: how far the rows come, taken in their order.              *)
WindowFunnel(step, depth, window, rows) ==
  LET last(is) == CHOOSE i \in is : \A j \in is \ {i} : Earlier(step, j, i)
      started == MapThenFoldSet(LAMBDA i, b : Advance(step, window, i, b), [s \in 1..depth |-> 0],
                                LAMBDA i : i, last, rows)
      reached == {s \in 1..depth : started[s] > 0}
  IN IF reached = {} THEN 0 ELSE CHOOSE s \in reached : \A t \in reached : t <= s

(* entity_funnel: the level each entity with a row of some step comes to.  *)
Levels(type, steps, window) ==
  LET step == StepOf(steps)
      staged == {i \in Between(FunnelRange[1], FunnelRange[2]) : step[i] > 0}
  IN [x \in {FunnelEntity(type, i) : i \in staged} |->
        WindowFunnel(step, Len(steps), window, {i \in staged : FunnelEntity(type, i) = x})]

(* Mutant: each step counts those that stopped there.                      *)
FunnelStoppedAt(level, n) == Cardinality({x \in DOMAIN level : level[x] = n})

(* countIf(level >= n): those that came to the step or beyond.             *)
FunnelCount(level, n) == Cardinality({x \in DOMAIN level : level[x] >= n})

-----------------------------------------------------------------------------
(* What the page says: those with events of the first n steps, in order of *)
(* time, the last within the window of the first.                          *)
HasChain(type, steps, window, n, entity) ==
  LET rows == {i \in Between(FunnelRange[1], FunnelRange[2]) : FunnelEntity(type, i) = entity}
      fits == [s \in 1..n |-> {i \in rows : log[i].kind \in steps[s]}]
  IN
  /\ \A s \in 1..n : fits[s] # {}
  /\ \E c \in [1..n -> rows] :
    /\ \A s \in 1..n : c[s] \in fits[s]
    /\ \A s \in 1..(n - 1) : log[c[s]].at <= log[c[s + 1]].at
    /\ log[c[n]].at <= log[c[1]].at + window

(* No row fits two steps.                                                  *)
StepsDiffer(steps) == \A s, t \in DOMAIN steps : s # t => steps[s] \cap steps[t] = {}

(* Each step of a funnel counts exactly the users, sessions or visits that *)
(* have come that far, though one start is remembered per step; and where  *)
(* a row fits two steps, of which it is given to one only, none that have  *)
(* not.                                                                    *)
FunnelCountsChains ==
  \A steps \in Funnels, window \in FunnelWindows, type \in FunnelType :
    LET level == Levels(type, steps, window)
        entities == {FunnelEntity(type, i) : i \in DOMAIN log}
    IN \A n \in DOMAIN steps :
         LET chained == Cardinality({x \in entities : HasChain(type, steps, window, n, x)}) IN
         /\ FunnelCount(level, n) <= chained
         /\ StepsDiffer(steps) => FunnelCount(level, n) = chained
=============================================================================
