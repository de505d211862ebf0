--------------------------- MODULE MCRainArchive ---------------------------
(* RainArchive with a year of two months of two days of two hours, and two   *)
(* file names.  In MCRainArchive.cfg an hour has two minutes and the "ten     *)
(* minutes" one, and the clock runs from before an hour ends that no day ends *)
(* with, at the end of the third year, into the fourth, whose name is that of *)
(* the second: on a card in use its file holds the records of that year.  The *)
(* other configurations check claims of the repository that do not hold, with *)
(* hours of four minutes and "ten minutes" of two.                            *)
EXTENDS RainArchive
=============================================================================
