----------------------------- MODULE MCAnalysis -----------------------------
(***************************************************************************)
(* The analysis queries over every log of up to MaxRows rows, and the edges*)
(* of user paths over every list of up to MaxEdges edges.  The two do not  *)
(* touch, and are explored one beside the other.                           *)
(***************************************************************************)
EXTENDS FunnelAnalysis, RetentionAnalysis, AttributionAnalysis, UserPath
CONSTANTS a, b, c, origin

(* A session in which the visitor logs in, so that it has rows of no user  *)
(* and of one, and an anonymous visitor on another device, without session.*)
MCVisits == {[uid |-> 0, device |-> 1, session |-> 1], [uid |-> 1, device |-> 1, session |-> 1],
             [uid |-> 0, device |-> 2, session |-> 0]}
MCFunnels == {<<{"landing"}, {"view"}, {"buy"}>>, <<{"view", "buy"}, {"landing"}>>,
              <<{"landing", "view"}, {"view"}>>}
MCFunnelRange == <<0, 2>>
(* Days; weeks of two days; and months of one, two and one day in turn.    *)
MCGranularities == {[p \in 0..4 |-> p], [p \in 0..4 |-> 2 * p],
                    [p \in 0..4 |-> <<0, 1, 3, 4, 5>>[p + 1]]}
MCRetentionRanges == {<<0, 1>>, <<1, 2>>, <<0, 0>>}
MCCreditRange == <<0, 2>>
MCConversions == {{"buy"}, {"landing", "view"}}

Init == LogInit /\ PathInit
Next ==
  \/ edgeList = <<>> /\ LogNext /\ UNCHANGED pathVars
  \/ Split /\ UNCHANGED log
Spec == Init /\ [][Next]_<<log, pathVars>>
=============================================================================
