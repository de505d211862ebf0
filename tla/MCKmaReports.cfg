CONSTANTS
  Requesters = {r1, r2, r3}
  Polled = TRUE
  MaxMinute = 6
SYMMETRY Symmetry
SPECIFICATION KmaSpec
INVARIANTS KmaTypeOK AnswersRecent
