------------------------------ MODULE UserPath ------------------------------
(***************************************************************************)
(* processCycleData: the page of user paths draws a Sankey diagram, which  *)
(* must not hold a cycle.  The edges of the query, which may, are copied   *)
(* one by one, with numbered copies of the events for nodes.               *)
(***************************************************************************)
EXTENDS Naturals, Sequences

CONSTANTS
  Events,    \* the events of the query
  Origin,    \* the node for a path that begins
  MaxEdges   \* bound: edges of the query

ASSUME UserPathAssumption == Origin \notin Events /\ MaxEdges \in Nat

Node == Events \cup {Origin}
Edge == [source : Node, target : Events]

VARIABLES
  edgeList,  \* originalEdgeList, by falling value; each pair once
  done,      \* edges dealt with
  counter,   \* nodeStepCounter
  split      \* splitEdgeList: pairs of numbered nodes

pathVars == <<edgeList, done, counter, split>>

EdgeLists ==
  {l \in UNION {[1..n -> Edge] : n \in 0..MaxEdges} :
     \A i, j \in DOMAIN l : i # j => l[i] # l[j]}

PathTypeOK ==
  /\ edgeList \in EdgeLists /\ done \in 0..Len(edgeList)
  /\ counter \in [Node -> Nat]
  /\ split \in Seq((Node \X Nat) \X (Events \X Nat)) /\ Len(split) = done

PathInit ==
  /\ edgeList \in EdgeLists
  /\ done = 0 /\ counter = [n \in Node |-> 1] /\ split = <<>>

(* checkReverseCycle                                                       *)
ReverseCycle(e) ==
  \E i \in DOMAIN edgeList : edgeList[i].source = e.target /\ edgeList[i].target = e.source

(* Mutant: the source of an edge is not counted on.                        *)
SplitTargetsOnly ==
  LET e == edgeList[done + 1]
      into == IF e.source = e.target \/ ReverseCycle(e) THEN counter[e.target] + 1
              ELSE counter[e.target]
  IN
  /\ done < Len(edgeList)
  /\ split' = Append(split, <<<<e.source, counter[e.source]>>, <<e.target, into>>>>)
  /\ counter' = [counter EXCEPT ![e.target] = into]
  /\ done' = done + 1 /\ UNCHANGED edgeList

(* One edge: an edge that closes a loop of one or two goes to a new copy of*)
(* its target, and the next edge out of the source leaves from a new copy. *)
Split ==
  LET e == edgeList[done + 1]
      self == e.source = e.target
      into == IF self \/ ReverseCycle(e) THEN counter[e.target] + 1 ELSE counter[e.target]
  IN
  /\ done < Len(edgeList)
  /\ split' = Append(split, <<<<e.source, counter[e.source]>>, <<e.target, into>>>>)
  /\ counter' = [n \in Node |-> IF n = e.target THEN into
                                  ELSE IF n = e.source THEN counter[n] + 1 ELSE counter[n]]
  /\ done' = done + 1 /\ UNCHANGED edgeList

PathSpec == PathInit /\ [][Split]_pathVars

-----------------------------------------------------------------------------
SplitNodes == {split[i][1] : i \in DOMAIN split} \cup {split[i][2] : i \in DOMAIN split}

(* However the edges of the query run and in whatever order they come, also*)
(* in cycles longer than the two the code looks for, the edges drawn hold  *)
(* no cycle: of any nodes one is entered from none of them.                *)
SplitIsAcyclic ==
  \A s \in SUBSET SplitNodes :
    s # {} => \E n \in s : \A i \in DOMAIN split : split[i][1] \in s => split[i][2] # n
=============================================================================
