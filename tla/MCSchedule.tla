----------------------------- MODULE MCSchedule -----------------------------
(* Schedule with a year of two months of two days of two hours of two       *)
(* minutes of three seconds, started shortly before a year ends.             *)
EXTENDS Schedule

\* DATE_TIME_BUF copied byte by byte: every point at which a copy can stop.
Bytes == <<{"year"}, {"month"}, {"day"}, {"hour"}, {"min"}, {"sec"}>>

\* Copied by half-words, which its alignment of two allows.
HalfWords == <<{"year"}, {"month", "day"}, {"hour", "min"}, {"sec"}>>
=============================================================================
