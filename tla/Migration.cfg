\* Every way to fill four files, two of them with unsafe names, every set of
\* references, two further starts.
CONSTANTS
  Numbers <- MCNumbers
  Names <- MCNames
  Unsafe = {"x!", "y?"}
  Stems = {"1001", "a", "x!", "y?"}
  MaxStarts = 2
SPECIFICATION MigrationSpec
INVARIANTS NothingLost ReferencesFollow RepairedOnce
CHECK_DEADLOCK FALSE
