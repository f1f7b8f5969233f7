\* The instance of Migration.cfg against the promise of problem_migration.py.
CONSTANTS
  Numbers <- MCNumbers
  Names <- MCNames
  Unsafe = {"x!", "y?"}
  Stems = {"1001", "a", "x!", "y?"}
  MaxStarts = 2
SPECIFICATION MigrationSpec
INVARIANT OnlyUnsafeRepaired
CHECK_DEADLOCK FALSE
