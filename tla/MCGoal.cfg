SPECIFICATION MCSpec
CONSTANTS
  Nothing = Nothing
  Focus = {"goal", "receipt", "tree", "crowd", "client", "preparing", "finishing"}
  u1 = u1  u2 = u2
  Sessions = {s1}
  Units = {u1, u2}
  Task = Task
  TaskUnit = TaskUnit
  NoUnit = NoUnit
  NoLock = NoLock
  NoState = NoState
  NoEvent = NoEvent
  NoRecord = NoRecord
  MaxEvents = 3
  MaxFaults = 1
  MaxCrashes = 2
SYMMETRY Symmetry
INVARIANTS TransitionIsWhole MirrorFollows WorkIsBound
PROPERTIES InterruptedIsFrozen LedgerSpec
CHECK_DEADLOCK FALSE
