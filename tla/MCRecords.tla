------------------------------ MODULE MCRecords ------------------------------
EXTENDS Records, TLC

Symmetry == Permutations(Submitters) \cup Permutations(Viewers)

None == [submits |-> 0, views |-> 0, ticks |-> 0, results |-> 0, changes |-> 0,
         turns |-> 0, deletes |-> 0, crashes |-> 0]

\* Submissions around the limit while a user walks the list; readers of logs
\* beside results, rejudges and changes of the policy; readers beside the
\* administrators who walk and delete the audit records.
Budgets == {
  [None EXCEPT !.submits = 4, !.ticks = 3, !.turns = 2, !.crashes = 1],
  [None EXCEPT !.views = 2, !.results = 2, !.changes = 2, !.crashes = 1],
  [None EXCEPT !.views = 1, !.turns = 3, !.deletes = 2]}
=============================================================================
