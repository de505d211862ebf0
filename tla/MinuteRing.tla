----------------------------- MODULE MinuteRing -----------------------------
(***************************************************************************)
(* What the month files promise: they are a ring of Span minutes.  A       *)
(* record takes the place of the one Span minutes before it and of no      *)
(* other, a minute without a record leaves every place as it is, and a     *)
(* minute that is asked for yields what its place holds.                   *)
(***************************************************************************)
EXTENDS Integers

CONSTANTS Span, Nothing

VARIABLES
    now,
    kept,   \* kept[t % Span]: the last of these minutes recorded, or Nothing
    got     \* the last minute asked for and what was found, or <<>>: no promise

vars == <<now, got, kept>>

Init ==
    /\ now \in Nat
    /\ kept = [k \in 0 .. Span - 1 |-> Nothing]
    /\ got = <<>>

Store ==
    /\ now' = now + 1
    /\ kept' = [kept EXCEPT ![(now + 1) % Span] = now + 1]
    /\ UNCHANGED got

Miss ==
    /\ now' = now + 1
    /\ UNCHANGED <<kept, got>>

Fetch ==
    /\ \E t \in 1 .. now : got' = <<t, kept[t % Span]>>
    /\ UNCHANGED <<now, kept>>

\* The caller asked for a minute that nothing is promised about.
Disclaim ==
    /\ got' = <<>>
    /\ UNCHANGED <<now, kept>>

Next == Store \/ Miss \/ Fetch \/ Disclaim

Spec == Init /\ [][Next]_vars
=============================================================================
