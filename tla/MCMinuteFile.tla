---------------------------- MODULE MCMinuteFile ----------------------------
(* MinuteFile with years of three months, two of the same length as January *)
(* and December are, and files that are named alike every other year.       *)
EXTENDS MinuteFile

ThreeMonths == <<3, 2, 3>>
=============================================================================
