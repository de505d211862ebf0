------------------------------- MODULE AtCalls -------------------------------
(***************************************************************************)
(* What a task that issues a synchronous AT command is promised: calls are *)
(* made one at a time, a call takes at most one of the modem's frames, one *)
(* of those it named, and what it has taken no other call takes again.     *)
(***************************************************************************)
CONSTANTS Callers, Frames, NoOne, NoFrame

VARIABLES
  inCall,   \* who is in a call, or NoOne
  want,     \* the frames that answer it; none named means any frame does
  answer    \* the frame it has taken, or NoFrame

vars == <<inCall, want, answer>>

Answers(f, list) == list = {} \/ f \in list

Init ==
  /\ inCall = NoOne
  /\ want = {}
  /\ answer = NoFrame

Begin ==
  /\ inCall = NoOne
  /\ inCall' \in Callers
  /\ want' \in SUBSET Frames
  /\ answer' = NoFrame

Answer(f) ==
  /\ inCall # NoOne
  /\ answer = NoFrame
  /\ Answers(f, want)
  /\ answer' = f
  /\ UNCHANGED <<inCall, want>>

End ==
  /\ inCall # NoOne
  /\ inCall' = NoOne
  /\ want' = {}
  /\ answer' = NoFrame

Next == Begin \/ End \/ \E f \in Frames : Answer(f)

Spec == Init /\ [][Next]_vars
=============================================================================
