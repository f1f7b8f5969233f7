------------------------------- MODULE Catalogue -------------------------------
(***************************************************************************)
(* What the problem store promises its callers: a map from problem ids to  *)
(* entries on which every call takes effect and is answered in one step.   *)
(* Three things weaken it.  A reset removes the entries one by one, and a  *)
(* call it overlaps (shaken) may fail or act on an entry already gone.  A  *)
(* full disk fails a call, a crash loses it, and either can leave the      *)
(* entry it was creating torn, but never one that was there before.        *)
(***************************************************************************)
EXTENDS Naturals

CONSTANTS MaxId, Handlers

VARIABLES
  entries, \* what is stored under each id
  req,     \* a call per handler: its job while pending, then its answer
  shaken,  \* handlers whose call a reset overlaps
  wiping,  \* a reset is removing entries
  faults   \* disk errors so far

vars == <<entries, req, shaken, wiping, faults>>

Ids == 0 .. MaxId
Absent == [kind |-> "absent"]
Link   == [kind |-> "link"]
Torn   == [kind |-> "torn"]
Wholes == [kind : {"whole"}, by : Handlers \cup {"seed"}, public : BOOLEAN, limited : BOOLEAN]
Idle   == [at |-> "idle"]
Lost   == [at |-> "lost"]

Pending(h) == req[h].at = "pending"
Answer(c, e, s) == [at |-> "done", code |-> c, entry |-> e, ids |-> s]
Reply(h, c, e, s) == req' = [req EXCEPT ![h] = Answer(c, e, s)]
Fails(h, c) == Reply(h, c, Absent, {})
Put(id, e)  == entries' = [entries EXCEPT ![id] = e]
Keep == UNCHANGED entries

\* the ids a call that may choose its id tries, in this order
Candidate(id, n) == (id + n) % (MaxId + 1)
Created(h, j) == [kind |-> "whole", by |-> h, public |-> j.public = "yes", limited |-> j.limited]
\* an edit that does not mention the visibility keeps it; a switch keeps the rest
Edited(h, j, e) == [kind |-> "whole", by |-> h, limited |-> j.limited,
                    public |-> IF j.public = "unset" THEN e.public ELSE j.public = "yes"]
Switched(j, e) == [e EXCEPT !.public = j.public = "yes"]
\* a reader is shown default limits, the judge learns that there are none
Shown(j, e) == IF j.op = "get" THEN [e EXCEPT !.limited = TRUE] ELSE e

-----------------------------------------------------------------------------

Init ==
  /\ entries \in [Ids -> {Absent, Link} \cup [kind : {"whole"}, by : {"seed"}, public : BOOLEAN, limited : BOOLEAN]]
  /\ req = [h \in Handlers |-> Idle]
  /\ shaken = {} /\ wiping = FALSE /\ faults = 0

Call(h) ==
  /\ req[h] = Idle
  /\ req'[h].at = "pending" \/ req'[h] = Answer(403, Absent, {})
  /\ req' = [req EXCEPT ![h] = req'[h]]
  /\ shaken' = IF wiping /\ req'[h].at = "pending" THEN shaken \cup {h} ELSE shaken
  /\ UNCHANGED <<entries, wiping, faults>>

Create(h, j) ==
  LET e == entries[j.id] IN
  \/ e = Absent /\ Put(j.id, Created(h, j)) /\ Reply(h, 200, Absent, {j.id})
  \/ e # Absent /\ Fails(h, IF e = Link THEN 400 ELSE 409) /\ Keep

SaveAs(h, j) == \E n \in Ids :
  LET c == Candidate(j.id, n) IN
  /\ entries[c] = Absent
  /\ \A m \in 0 .. n - 1 : entries[Candidate(j.id, m)] # Absent
  /\ Put(c, Created(h, j)) /\ Reply(h, 200, Absent, {c})

\* every other call is about a problem that should exist
Refused(h, e) ==
  /\ \/ e = Link /\ Fails(h, 400)
     \/ e = Absent /\ Fails(h, 404)
     \/ e = Torn /\ Fails(h, 500)
  /\ Keep

Use(h, j) ==
  LET e == entries[j.id] IN
  \/ Refused(h, e) /\ ~(e = Torn /\ j.op = "delete")
  \/ j.op = "delete" /\ e \notin {Absent, Link} /\ Put(j.id, Absent) /\ Reply(h, 200, Absent, {})
  \/ /\ e.kind = "whole"
     /\ \/ j.op = "edit" /\ Put(j.id, Edited(h, j, e)) /\ Reply(h, 200, Absent, {})
        \/ j.op = "switch" /\ Put(j.id, Switched(j, e)) /\ Reply(h, 200, Absent, {})
        \/ j.op \in {"get", "judge"} /\ Keep /\ Reply(h, 200, Shown(j, e), {})

List(h) == Keep /\ Reply(h, 200, Absent, {i \in Ids : entries[i].kind = "whole"})

\* what a reset can do to a call under way
Shaken(h, j) ==
  /\ h \in shaken
  /\ \/ Keep /\ Fails(h, 500)
     \/ j.op = "create" /\ Keep /\ Reply(h, 200, Absent, {j.id})
     \/ j.op = "saveas" /\ \E c \in Ids : /\ Reply(h, 200, Absent, {c})
                                          /\ Keep \/ (entries[c] = Absent /\ Put(c, Created(h, j)))
     \/ j.op \in {"edit", "switch"} /\ (\E e \in Wholes : Put(j.id, e)) /\ Reply(h, 200, Absent, {})
     \/ j.op = "list" /\ Keep /\ \E s \in SUBSET Ids : Reply(h, 200, Absent, s)

Perform(h) ==
  /\ Pending(h)
  /\ LET j == req[h] IN
     \/ j.op = "create" /\ Create(h, j)
     \/ j.op = "saveas" /\ SaveAs(h, j)
     \/ j.op = "list" /\ List(h)
     \/ j.op \notin {"create", "saveas", "list"} /\ Use(h, j)
     \/ Shaken(h, j)
  /\ UNCHANGED <<shaken, wiping, faults>>

\* the entry a pending creation may leave torn
MayTear(h, id) == Pending(h) /\ req[h].op \in {"create", "saveas"} /\ entries[id] = Absent

DiskFull(h) ==
  /\ Pending(h) /\ Fails(h, 500) /\ faults' = faults + 1
  /\ Keep \/ \E id \in Ids : (MayTear(h, id) /\ Put(id, Torn))
  /\ UNCHANGED <<shaken, wiping>>

Crash ==
  /\ Keep \/ \E h \in Handlers, id \in Ids : (MayTear(h, id) /\ Put(id, Torn))
  /\ req' = [h \in Handlers |-> IF Pending(h) THEN Lost ELSE req[h]]
  /\ wiping' = FALSE
  /\ UNCHANGED <<shaken, faults>>

WipeBegin ==
  /\ ~wiping /\ wiping' = TRUE
  /\ shaken' = shaken \cup {h \in Handlers : Pending(h)}
  /\ UNCHANGED <<entries, req, faults>>

Wipe == wiping /\ (\E id \in Ids : Put(id, Absent)) /\ UNCHANGED <<req, shaken, wiping, faults>>

WipeEnd == wiping /\ wiping' = FALSE /\ UNCHANGED <<entries, req, shaken, faults>>

Next ==
  \/ \E h \in Handlers : Call(h) \/ Perform(h) \/ DiskFull(h)
  \/ Crash \/ WipeBegin \/ Wipe \/ WipeEnd

Spec == Init /\ [][Next]_vars
=============================================================================
