\* A cancel between the insert of a task and the start of its coroutine.
CONSTANTS
  MaxIds = 1
  MaxRuns = 1
  OldStatuses = {}
  Creators = {c1}
  Copiers = {}
  Cancellers = {x1}
  Resetters = {}
  Streams = {}
  QueueSize = 2
  TickLevels = {3}
  MaxFaults = 0
  MaxCrashes = 0
SPECIFICATION Spec
INVARIANTS CancelledStays
