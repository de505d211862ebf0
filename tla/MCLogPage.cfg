CONSTANTS
  LogMax = 4
  SectorSlots = 2
  AlarmMax = 4
  PageSlots = 2
  BufferSlots = 1
  ByteValues = 2
  MenuCounts = {1}
  QueueSize = 1
  MaxCount = 5
SPECIFICATION Spec
INVARIANTS AlarmKept
