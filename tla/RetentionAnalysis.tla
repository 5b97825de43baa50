-------------------------- MODULE RetentionAnalysis --------------------------
(***************************************************************************)
(* The retention query (generateRetentionAnalysisSql): of those with a     *)
(* start event in a period, how many have a return event n periods later.  *)
(***************************************************************************)
EXTENDS EventLog

CONSTANTS
  Horizon,           \* bound: periods of a calendar
  Granularities,     \* calendars: the first day of each period
  RetentionWindows,  \* bound: the windows asked for
  RetentionRanges    \* bound: ranges of days, pairs

(* Periods follow each other and need not be equally long: months are not. *)
(* Of the windows asked for, those of 1 to 365 periods are kept.  The      *)
(* calendar covers the log, and each range extended by a window.           *)
ASSUME RetentionAssumption ==
  /\ Horizon \in Nat \ {0}
  /\ Granularities \subseteq [0..Horizon -> Nat]
  /\ \A g \in Granularities :
       /\ g[0] = 0 /\ LastTime < g[Horizon]
       /\ \A p, q \in 0..Horizon : p < q => g[p] < g[q]
  /\ RetentionWindows \subseteq 1..365
  /\ RetentionRanges \subseteq Nat \X Nat
  /\ \A g \in Granularities, n \in RetentionWindows, range \in RetentionRanges :
       n <= Horizon /\ range[1] < g[Horizon - n] /\ range[2] < g[Horizon - n]

StartKind == {"landing", "view"}
ReturnKind == {"buy", "view"}

Period(g, t) == CHOOSE c \in 0..(Horizon - 1) : g[c] <= t /\ t < g[c + 1]

(* The same day n periods later, or the last of a period that has no such  *)
(* day: a month after January 31 is the end of February, and a month after *)
(* April 30 is May 30.                                                     *)
AddPeriods(g, t, n) ==
  LET first == Period(g, t)
      day == g[first + n] + (t - g[first])
  IN IF day < g[first + n + 1] THEN day ELSE g[first + n + 1] - 1

(* The user, or without one the device.                                    *)
Person(i) ==
  IF log[i].uid = 0 THEN <<"d", log[i].device>> ELSE <<"u", log[i].uid>>

CohortUsers(g, range, c) ==
  {Person(i) : i \in {j \in Between(range[1], range[2]) :
                        log[j].kind \in StartKind /\ Period(g, log[j].at) = c}}

MaxWindow == CHOOSE w \in RetentionWindows : \A v \in RetentionWindows : v <= w

(* Mutant: returns are looked for in the range asked for.                  *)
ReturnsInRange(g, range) == Between(range[1], range[2])

(* The range, extended by the largest window.                              *)
ReturnRange(g, range) == Between(range[1], AddPeriods(g, range[2], MaxWindow))

ReturnEvents(g, range) ==
  {<<Person(i), Period(g, log[i].at)>> :
     i \in {j \in ReturnRange(g, range) : log[j].kind \in ReturnKind}}

RetentionUsers(g, range, c, n) ==
  {x \in CohortUsers(g, range, c) : <<x, c + n>> \in ReturnEvents(g, range)}

-----------------------------------------------------------------------------
(* What the query is asked for: those of the cohort with a return event in *)
(* the n-th period after, anywhere in the log.                             *)
Returned(g, range, c, n) ==
  {x \in CohortUsers(g, range, c) :
     \E i \in DOMAIN log : /\ Person(i) = x /\ log[i].kind \in ReturnKind
                           /\ Period(g, log[i].at) = c + n}

(* The period is the last that is searched and the search ends before it   *)
(* does: a range that ends within a week, or with a month shorter than that*)
(* a window later.                                                         *)
CutShort(g, range, p) ==
  /\ p = Period(g, range[2]) + MaxWindow
  /\ AddPeriods(g, range[2], MaxWindow) + 1 < g[p + 1]

(* The users retained n periods after a period of the range are exactly    *)
(* those that returned in that period; never more, and fewer only in a     *)
(* period the search ends in the middle of.                                *)
RetentionCountsReturns ==
  \A g \in Granularities, n \in RetentionWindows, range \in RetentionRanges :
    \A c \in Period(g, range[1])..Period(g, range[2]) :
      LET counted == RetentionUsers(g, range, c, n)
          returned == Returned(g, range, c, n)
      IN /\ counted \subseteq returned
         /\ counted = returned \/ CutShort(g, range, c + n)
=============================================================================
