--------------------------- MODULE MCUtmStatistics ---------------------------
(***************************************************************************)
(* Two runs at a time, two values over three days, values written one at a *)
(* time, one run somebody asks for, one edit, one fault.                   *)
(***************************************************************************)
EXTENDS UtmStatistics
=============================================================================
