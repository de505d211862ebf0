CONSTANTS
  Cell = cell
  Sms = smsWorker
  Console = console
  Callers <- MCCallers
  Frames <- MCFrames
  Subscribed <- MCSubscribed
  NoOne = noOne
  NoFrame = noFrame
  Servers = {s1, s2}
  NoServer = noServer
  FirstServer = s1
  Budgets <- MCBudgets
SPECIFICATION Spec
INVARIANTS TypeOK SlotOwned NoLostWakeup
PROPERTIES OneCallAtATime LinkComesUp RightServer RetargetTried
