----------------------------- MODULE RainLedger -----------------------------
(***************************************************************************)
(* What the rain path promises: accepted rain is counted at most once, and  *)
(* none is counted or lost that was not accepted.                           *)
(***************************************************************************)
EXTENDS Naturals

VARIABLES accepted, counted, lost

books == <<accepted, counted, lost>>

Init == accepted = 0 /\ counted = 0 /\ lost = 0

\* The gauge tips; the tip may be refused at once.
Accept == /\ accepted' > accepted
          /\ lost' \in {lost, lost + (accepted' - accepted)}
          /\ UNCHANGED counted

\* Some open rain reaches the accumulators, some is dropped.
Settle == /\ counted' >= counted /\ lost' >= lost
          /\ counted' + lost' <= accepted
          /\ UNCHANGED accepted

Next == Accept \/ Settle

Spec == Init /\ [][Next]_books
=============================================================================
