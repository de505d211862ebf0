----------------------------- MODULE MCKmaReports -----------------------------
(***************************************************************************)
(* KmaReports with interchangeable requesters.                             *)
(***************************************************************************)
EXTENDS KmaReports, TLC

Symmetry == Permutations(Requesters)
=============================================================================
