--------------------------- MODULE MCNodeRegistry ---------------------------
(* Instances of NodeRegistry. *)
EXTENDS NodeRegistry
CONSTANTS n1, n2
MCCapacity == [n \in Node |-> 1]
(* n1 may redial and beat, n2 dials once. *)
MCDials == [n \in Node |-> IF n = n1 THEN 2 ELSE 1]
MCBeats == [n \in Node |-> IF n = n1 THEN 1 ELSE 0]
(* Either may redial and beat. *)
LiveDials == [n \in Node |-> 2]
LiveBeats == [n \in Node |-> 1]
(* Bound of a behaviour: a heartbeat, or a second dial-in or retry. *)
BeatOrMore ==
  \A n \in Node : beats[n] = 0 \/ (dialled[n] < 2 /\ \A s \in Slice : attempts[s] < 2)
(* Bound of a behaviour: one of the nodes never dials in. *)
OneDialsIn == \E n \in Node : dialled[n] = 0
=============================================================================
