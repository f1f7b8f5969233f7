\* A submission, possibly left over by an older version, a create, a rejudge and
\* a reset under fair scheduling, one I/O error, one crash.
CONSTANTS
  MaxSubs = 1
  MaxTasks = 4
  MaxCases = 1
  CaseVerdicts <- MCVerdicts
  LegacyRuns <- MCLegacyRuns
  Creators = {c1}
  Rejudgers = {r1}
  Resetters = {z1}
  MaxFaults = 1
  MaxCrashes = 1
SPECIFICATION Spec
INVARIANTS TypeOK PendingHasOwner CurrentTaskRegistered ResultsAgree
PROPERTIES PendingSettles RequestsAnswered
