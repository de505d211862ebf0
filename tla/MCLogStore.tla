------------------------------ MODULE MCLogStore ------------------------------
(***************************************************************************)
(* LogStore with a file and a flash of four slots each: two sectors and two *)
(* pages of two.                                                           *)
(***************************************************************************)
EXTENDS LogStore
=============================================================================
