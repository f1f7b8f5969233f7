\* Three requests of any kind, sessions of an administrator and of a user at the
\* start; one session expires, one crash.
CONSTANTS
  Handlers = {h1, h2, h3}
  Ops = {"role", "rename", "register", "addadmin", "login", "logout", "reset", "language"}
  NewRoles = {"admin", "banned"}
  MaxCrashes = 1
  MaxExpired = 1
SPECIFICATION Spec
SYMMETRY Symmetry
INVARIANTS AuthorisedAtOnce NamesUnique LogExplainsRoles SessionBelongs DefaultsRestored
CHECK_DEADLOCK FALSE
