---------------------------- MODULE MCCellularLink ----------------------------
(***************************************************************************)
(* CellularLink with two servers, and either two faults or one message.    *)
(***************************************************************************)
EXTENDS CellularLink

MCCallers == {Cell, Sms, Console}
MCFrames == {"605", "603", "602", "ADDR", "SENT", "NOTSENT", "34", "CMTI", "BIN",
             "CMGR", "PROMPT", "45", "CNUM", "OK"}
MCBudgets == {[sms |-> 1, all |-> 1], [sms |-> 0, all |-> 2]}
MCSubscribed == {"605", "34"}
=============================================================================
