\* A finished, cancelled or interrupted task of an earlier process, a retry or
\* refinement of it, two cancels and a reset, one I/O error, one crash.
CONSTANTS
  MaxIds = 2
  MaxRuns = 1
  OldStatuses = {"done", "cancelled", "running"}
  Creators = {}
  Copiers = {p1}
  Cancellers = {x1, x2}
  Resetters = {z1}
  Streams = {}
  QueueSize = 2
  TickLevels = {3}
  MaxFaults = 1
  MaxCrashes = 1
SPECIFICATION Spec
SYMMETRY Symmetry
INVARIANTS NotAbandoned CancelHonoured EveryAnswerBilled
PROPERTIES ImplementsTaskLife
