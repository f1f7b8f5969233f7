\* A compilation and a test case, cancelled at most twice (as two overlapping
\* rejudges do it), at any await.
CONSTANTS
  MaxRuns = 2
  MaxCancels = 2
SPECIFICATION Spec
INVARIANTS WorkdirOutlivesWorker WorkdirRemoved
PROPERTIES VerdictsEarned CancelledEnds GroupsReaped
