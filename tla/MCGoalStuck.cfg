SPECIFICATION MCSpec
CONSTANTS
  Nothing = Nothing
  Focus = {"goal"}
  u1 = u1  u2 = u2
  Sessions = {s1}
  Units = {u1, u2}
  Task = Task
  TaskUnit = TaskUnit
  NoUnit = NoUnit
  NoLock = NoLock
  NoState = NoState
  NoEvent = NoEvent
  NoRecord = NoRecord
  MaxEvents = 2
  MaxFaults = 0
  MaxCrashes = 1
SYMMETRY Symmetry
INVARIANT InterruptedIsRecoverable
CHECK_DEADLOCK FALSE
