----------------------------- MODULE MCRainPulse -----------------------------
(* RainPulse with the values of its constants for TLC in MCRainPulse.cfg:   *)
(* queues, counters and the tick are so small that they fill and wrap.       *)
EXTENDS RainPulse
=============================================================================
