------------------------- MODULE AttributionAnalysis -------------------------
(***************************************************************************)
(* The attribution query (generateAttributionAnalysisSql): each conversion *)
(* is credited to the touches before it in its session, by a model of      *)
(* weights.  A weight of 1 is Whole, a number that the shares of the models*)
(* divide.  The model of time decay is left out: its weights are powers of *)
(* fractions.                                                              *)
(***************************************************************************)
EXTENDS EventLog, Functions

CONSTANTS
  Whole,         \* a weight of 1
  CreditRange,   \* bound: the range of days, a pair
  Conversions    \* bound: kinds that count as conversions, a set of sets

(* Of n touches a share is an n-th of the whole, or of a fifth of it; of   *)
(* two it is a half.  A session is of one browser: its id is made there and*)
(* kept in its storage.                                                    *)
ASSUME CreditAssumption ==
  /\ Whole \in Nat \ {0} /\ Whole % 2 = 0 /\ \A n \in 1..MaxRows : Whole % (5 * n) = 0
  /\ CreditRange \in Nat \X Nat
  /\ \A v, w \in Visits : v.session = w.session /\ v.session # 0 => v.device = w.device

AttributionModel == {"FIRST_TOUCH", "LAST_TOUCH", "LINEAR", "POSITION"}
TouchNames == {"page_view"}

InCreditRange == Between(CreditRange[1], CreditRange[2])

(* Mutant: rows without a session are taken for one session.               *)
SessionOrNone(i) == TRUE

HasSession(i) == log[i].session # 0

(* conv and hop_rows: conversions, and touches, that have a session.       *)
Conv(kinds) == {i \in InCreditRange : HasSession(i) /\ log[i].kind \in kinds}
HopRows ==
  {i \in InCreditRange :
     HasSession(i) /\ log[i].kind = "landing" /\ EventName[log[i].kind] \in TouchNames}

(* linked: the touches of a conversion, and the place of one among them.   *)
Prefix(c) == {h \in HopRows : log[h].session = log[c].session /\ log[h].at <= log[c].at}
HopIndex(c, h) ==
  Cardinality({i \in Prefix(c) : log[i].at < log[h].at \/ (log[i].at = log[h].at /\ i <= h)})

(* buildAttributionWeightLogic: the share of touch i of n.                 *)
Weight(model, i, n) ==
  CASE model = "FIRST_TOUCH" -> IF i = 1 THEN Whole ELSE 0
    [] model = "LAST_TOUCH" -> IF i = n THEN Whole ELSE 0
    [] model = "LINEAR" -> Whole \div n
    [] OTHER -> IF n = 1 THEN Whole
                ELSE IF n = 2 THEN Whole \div 2
                ELSE IF i \in {1, n} THEN (2 * Whole) \div 5 ELSE Whole \div (5 * (n - 2))

Credit(model, c, h) == Weight(model, HopIndex(c, h), Cardinality(Prefix(c)))

(* conv_agg: the credit of a name, over all conversions.                   *)
ConvAgg(model, kinds, name) ==
  SumFunction([c \in Conv(kinds) |->
    SumFunction([h \in {i \in Prefix(c) : EventName[log[i].kind] = name} |-> Credit(model, c, h)])])

(* event_stats: the names with a row of their own in the result.           *)
EventStats == {EventName[log[i].kind] : i \in {j \in InCreditRange : EventName[log[j].kind] \in TouchNames}}

Attributed(model, kinds) == SumFunction([name \in EventStats |-> ConvAgg(model, kinds, name)])

-----------------------------------------------------------------------------
(* A touch of a conversion: a landing in its session, on the same device.  *)
(* The user may have changed in between, by a login.                       *)
OwnTouch(c, h) ==
  /\ log[h].device = log[c].device /\ log[h].session = log[c].session
  /\ log[h].kind = "landing" /\ log[h].at <= log[c].at /\ h \in InCreditRange

(* Whatever the model, every conversion that has a touch is handed out once*)
(* and in full over the rows of the result, and a conversion without one   *)
(* not at all: credits add up to the conversions that have a touch.  None  *)
(* goes to the touch of another visitor.                                   *)
CreditsAddUp ==
  \A model \in AttributionModel, kinds \in Conversions :
    /\ Attributed(model, kinds)
         = Whole * Cardinality({c \in InCreditRange :
                                  log[c].kind \in kinds /\ log[c].session # 0
                                  /\ \E h \in DOMAIN log : OwnTouch(c, h)})
    /\ \A c \in Conv(kinds) : \A h \in Prefix(c) : OwnTouch(c, h)
=============================================================================
