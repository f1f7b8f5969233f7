\* Fair scheduling: one task, a cancel, a stream with a queue of two and one I/O error.
CONSTANTS
  MaxIds = 1
  MaxRuns = 1
  OldStatuses = {}
  Creators = {c1}
  Copiers = {}
  Cancellers = {x1}
  Resetters = {}
  Streams = {s1}
  QueueSize = 2
  TickLevels = {3}
  MaxFaults = 1
  MaxCrashes = 0
SPECIFICATION Spec
INVARIANT StreamTellsEnd
PROPERTIES TaskSettles StreamEnds
