CONSTANTS
  Requesters = {r1}
  Polled = FALSE
  MaxMinute = 3
SPECIFICATION KmaSpec
INVARIANTS AnswersLatest
