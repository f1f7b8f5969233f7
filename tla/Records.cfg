\* Budgets instead of one large bound: the actors that meet in one scenario
\* move freely, those of the others stand still.
CONSTANTS
  Submitters = {s1, s2, s3, s4}
  Viewers = {v1, v2}
  Limit = 2
  Window = 1
  PageSize = 1
  OldSubs = 1
  OldAudit = 2
  Bounds <- Budgets
SPECIFICATION RecordsSpec
SYMMETRY Symmetry
INVARIANTS LimiterWindow DetailsNotOlder DetailsNeedConsent AuditTellsAnswer PagesMissNothing NotStranded
CHECK_DEADLOCK FALSE
