\* Two calls of any kind against a stored problem, a link and a free id, with a
\* reset, a full disk and a crash at any point; the configuration calls too.
CONSTANTS
  MaxId = 2
  Handlers = {h1, h2}
  Ops = {"create", "saveas", "edit", "switch", "delete", "get", "judge", "list"}
  Seeds = {0}
  Links = {1}
  MaxFaults = 1
  MaxCrashes = 1
  MaxResets = 1
SPECIFICATION StorageSpec
SYMMETRY Symmetry
INVARIANT ConfigUsable
PROPERTIES ImplementsCatalogue
CHECK_DEADLOCK FALSE
