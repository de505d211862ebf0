---------------------------- MODULE MCSdJournal ----------------------------
(* SdJournal on cards of two sectors, written one by one or in one run.     *)
EXTENDS SdJournal

SingleSectors == {{1}, {2}}
OneOrBoth == {{1}, {2}, {1, 2}}
=============================================================================
