---------------------------- MODULE MCModbusMaster ----------------------------
(***************************************************************************)
(* ModbusMaster with two tasks and up to three requests, of a write, of one*)
(* register and of two.  The tasks are interchangeable; a behaviour stops  *)
(* with its last request, so the runs do not check for deadlock.           *)
(***************************************************************************)
EXTENDS ModbusMaster, TLC

TaskSymmetry == Permutations(Tasks)
=============================================================================
