\* Two tabs of one browser, a login of each of two users, and any two of
\* outages, reloads, ends of a session, role changes and wrong passwords.
CONSTANTS
  Tabs = {tab1, tab2}
  s1 = s1
  s2 = s2
  u1 = u1
  u2 = u2
  Tokens = {s1, s2}
  Users = {u1, u2}
  Owner <- MCOwner
  MaxEvents = 2
SPECIFICATION WebSpec
INVARIANTS ClearedOnlyWhenTold LoginSurvives LogoutEnds
PROPERTIES SavingEnds
CHECK_DEADLOCK FALSE
