------------------------ MODULE MCCleaningScheduler ------------------------
(* Instances of CleaningScheduler: three slices, a of the first day whose  *)
(* rows lie around those of b, c of the second day.                        *)
EXTENDS CleaningScheduler
CONSTANTS a, b, c, ts, rust
MCDate == [s \in Slice |-> IF s = c THEN 2 ELSE 1]
MCRows == SelectSeq(<<a, b, a, c>>, LAMBDA s : s \in Slice)
MCSlots == [n \in Node |-> 1]
MCSlots2 == [n \in Node |-> 2]

(* Two restarts, faults and requests at most, of any kinds together.       *)
FewTroubles == boots + faults + asks <= 2
=============================================================================
