----------------------------- MODULE ProblemStore -----------------------------
(***************************************************************************)
(* The problem files: ProblemStore (app/services/problem_store.py), the    *)
(* handlers of app/routers/problems.py and the forms of app.py that call   *)
(* it, and the part of POST /api/reset/ that removes the directory.        *)
(*                                                                         *)
(* One file per problem.  An operation runs in a thread and holds the      *)
(* store's lock from Enter to its answer; the reset does not take the lock *)
(* and a crash respects nothing.  A file is absent, a symbolic link, torn  *)
(* (created, its content not written) or whole: by names the call that     *)
(* wrote its content, limited says that it sets its own limits.            *)
(***************************************************************************)
EXTENDS Naturals

CONSTANTS
  MaxId,     \* bound: problem ids are 0 .. MaxId (10^18 - 1 in the code)
  Handlers,  \* calls
  Ops,       \* operations they choose from
  Seeds,     \* ids stored at the start
  Links,     \* ids occupied by a symbolic link to a readable file
  MaxFaults, MaxCrashes, MaxResets \* bounds

ASSUME StoreAssumption ==
  /\ MaxId \in Nat /\ {"seed", "nobody", "none", "torn"} \cap Handlers = {}
  /\ Seeds \subseteq 0 .. MaxId /\ Links \subseteq (0 .. MaxId) \ Seeds
  /\ {MaxFaults, MaxCrashes, MaxResets} \subseteq Nat

VARIABLES
  files,   \* [Ids -> file]
  dir,     \* the directory exists
  req,     \* [Handlers -> idle, a pending job, or its answer]
  pc,      \* the step of the call that holds the lock
  holder,  \* that call, or "nobody"
  tried,   \* candidates its create found occupied
  seen,    \* the file its update has read
  left, listed, \* files its listing has still to read, ids it has found
  shaken,  \* calls a reset overlaps
  wipe, victims, \* the reset's step; the files its scan has found
  faults, crashes

cs == <<pc, holder, tried, seen, left, listed>>
resetVars == <<wipe, victims>>
vars == <<files, dir, req, cs, shaken, resetVars, faults, crashes>>

Wiping == wipe \in {"unlink", "mkdir"}

Job == req[holder]
File == files[Job.id]

\* the file a create tries next
Target == (Job.id + tried) % (MaxId + 1)

\* The catalogue these files stand for: the one being written is not in it.
Entries == [id \in 0 .. MaxId |->
              IF pc = "write" /\ id = Target /\ files[id].kind = "torn"
              THEN [kind |-> "absent"] ELSE files[id]]

C == INSTANCE Catalogue WITH entries <- Entries, wiping <- Wiping

Ids == C!Ids
Absent == C!Absent
Torn == C!Torn

-----------------------------------------------------------------------------
(* The handlers *)

\* The edit form and the saving of a generated problem send a body without
\* public_cases (the form always with both limits); only a switch, or a body
\* written by hand, mentions it.
Bodies ==
       [op : {"create", "saveas"}, id : Ids, public : {"unset", "yes"}, limited : BOOLEAN]
  \cup [op : {"edit"}, id : Ids, public : {"unset", "yes", "no"}, limited : {TRUE}]
  \cup [op : {"switch"}, id : Ids, public : {"yes", "no"}, limited : {FALSE}]
  \cup [op : {"delete", "get", "judge"}, id : Ids, public : {"unset"}, limited : {FALSE}]
  \cup [op : {"list"}, id : {0}, public : {"unset"}, limited : {FALSE}]

\* edits, switches and deletions are for administrators, and so is a new
\* problem whose test cases are public
AdminOnly(j) == j.op \in {"edit", "switch", "delete"} \/ (j.op \in {"create", "saveas"} /\ j.public = "yes")

Pend(j) == [at |-> "pending", op |-> j.op, id |-> j.id, public |-> j.public, limited |-> j.limited]

Call(h) ==
  /\ req[h] = C!Idle
  /\ \E j \in Bodies, admin \in BOOLEAN :
       /\ j.op \in Ops
       /\ req' = [req EXCEPT ![h] = IF AdminOnly(j) /\ ~admin THEN C!Answer(403, Absent, {}) ELSE Pend(j)]
       /\ shaken' = IF Wiping /\ req'[h].at = "pending" THEN shaken \cup {h} ELSE shaken
  /\ UNCHANGED <<files, dir, cs, resetVars, faults, crashes>>

-----------------------------------------------------------------------------
(* The operations, under the lock *)

\* create and list make sure that the directory exists
Enter(h) ==
  /\ holder = "nobody" /\ req[h].at = "pending"
  /\ holder' = h /\ pc' = "check"
  /\ dir' = (dir \/ req[h].op \in {"create", "saveas", "list"})
  /\ UNCHANGED <<files, req, tried, seen, left, listed, shaken, resetVars, faults, crashes>>

At(p, ops) == pc = p /\ Job.op \in ops
Goto(p) == pc' = p /\ UNCHANGED <<holder, req>>

\* the answer releases the lock
Done(c, e, s) ==
  /\ req' = [req EXCEPT ![holder] = C!Answer(c, e, s)]
  /\ pc' = "out" /\ holder' = "nobody"
  /\ tried' = 0 /\ seen' = Absent /\ left' = {} /\ listed' = {}
Error(c) == Done(c, Absent, {})
Store(id, e) == files' = [files EXCEPT ![id] = e]
Rest == UNCHANGED <<shaken, resetVars, crashes>>

\* _dumps: limits that were not set are not written
Content(public) == [kind |-> "whole", by |-> holder, public |-> public, limited |-> Job.limited]

\* open(path, "x"): the file exists from here on, still empty
Open ==
  /\ At("check", {"create", "saveas"}) /\ files[Target] = Absent
  /\ \/ dir /\ Store(Target, Torn) /\ Goto("write") /\ UNCHANGED <<tried, seen, left, listed>>
     \/ ~dir /\ Error(500) /\ UNCHANGED files
  /\ UNCHANGED <<dir, faults>> /\ Rest

Occupied ==
  /\ At("check", {"create", "saveas"}) /\ files[Target] # Absent
  /\ \/ Job.op = "create" /\ Error(IF File = C!Link THEN 400 ELSE 409)
     \/ Job.op = "saveas" /\ tried' = (tried + 1) % (MaxId + 1) /\ Goto("check") /\ UNCHANGED <<seen, left, listed>>
  /\ UNCHANGED <<files, dir, faults>> /\ Rest

\* a reset may have unlinked the open file: its content is then nowhere
Write ==
  /\ At("write", {"create", "saveas"})
  /\ files' = IF files[Target] = Torn THEN [files EXCEPT ![Target] = Content(Job.public = "yes")] ELSE files
  /\ Done(200, Absent, {Target})
  /\ UNCHANGED <<dir, faults>> /\ Rest

\* is_file(), for every operation on a problem that should exist
Check ==
  /\ At("check", {"edit", "switch", "delete", "get", "judge"})
  /\ \/ File = C!Link /\ Error(400)
     \/ File = Absent /\ Error(404)
     \/ File \notin {C!Link, Absent} /\ Goto("act") /\ UNCHANGED <<tried, seen, left, listed>>
  /\ UNCHANGED <<files, dir, faults>> /\ Rest

Get ==
  /\ At("act", {"get", "judge"})
  /\ IF File.kind = "whole"
     THEN Done(200, [File EXCEPT !.limited = Job.op = "get" \/ @], {})
     ELSE Error(500)
  /\ UNCHANGED <<files, dir, faults>> /\ Rest

Delete ==
  /\ At("act", {"delete"})
  /\ Error(IF File = Absent THEN 500 ELSE 200)
  /\ Store(Job.id, Absent)
  /\ UNCHANGED <<dir, faults>> /\ Rest

ReadForUpdate ==
  /\ At("act", {"edit", "switch"})
  /\ \/ File.kind = "whole" /\ seen' = File /\ Goto("replace") /\ UNCHANGED <<tried, left, listed>>
     \/ File.kind # "whole" /\ Error(500)
  /\ UNCHANGED <<files, dir, faults>> /\ Rest

\* mutant: an edit writes the visibility of its body, private if unset
Updated_Resets == Content(Job.public = "yes")

\* an edit that does not mention the visibility keeps it
Updated ==
  IF Job.op = "switch" THEN [seen EXCEPT !.public = Job.public = "yes"]
  ELSE Content(IF Job.public = "unset" THEN seen.public ELSE Job.public = "yes")

\* _replace: a temporary file, then os.replace; a reset may take either the
\* directory or the temporary file away
Replace ==
  /\ At("replace", {"edit", "switch"})
  /\ \/ dir /\ Store(Job.id, Updated) /\ Error(200)
     \/ holder \in shaken /\ Error(500) /\ UNCHANGED files
  /\ UNCHANGED <<dir, faults>> /\ Rest

DiskFull ==
  /\ pc \in {"write", "replace"} /\ faults < MaxFaults
  /\ faults' = faults + 1 /\ Error(500)
  /\ UNCHANGED <<files, dir>> /\ Rest

Glob ==
  /\ At("check", {"list"})
  /\ left' = {id \in Ids : files[id] # Absent} /\ Goto("read")
  /\ UNCHANGED <<files, dir, tried, seen, listed, faults>> /\ Rest

\* torn files and links are skipped; a file that has vanished is an error
ReadNext ==
  /\ At("read", {"list"}) /\ left # {}
  /\ LET id == CHOOSE i \in left : \A k \in left : i <= k IN
     IF files[id] = Absent THEN Error(500)
     ELSE /\ left' = left \ {id} /\ Goto("read")
          /\ listed' = IF files[id].kind = "whole" THEN listed \cup {id} ELSE listed
          /\ UNCHANGED <<tried, seen>>
  /\ UNCHANGED <<files, dir, faults>> /\ Rest

ListDone ==
  /\ At("read", {"list"}) /\ left = {}
  /\ Done(200, Absent, listed)
  /\ UNCHANGED <<files, dir, faults>> /\ Rest

Operation == Open \/ Occupied \/ Write \/ Check \/ Get \/ Delete \/ ReadForUpdate \/ Replace
             \/ Glob \/ ReadNext \/ ListDone

-----------------------------------------------------------------------------
(* The reset (shutil.rmtree, then mkdir) and the crash *)

WipeScan ==
  /\ wipe = "off" /\ MaxResets > 0
  /\ wipe' = "unlink" /\ victims' = {id \in Ids : files[id] # Absent}
  /\ shaken' = shaken \cup {h \in Handlers : req[h].at = "pending"}
  /\ UNCHANGED <<files, dir, req, cs, faults, crashes>>

WipeUnlink ==
  /\ wipe = "unlink"
  /\ \E id \in victims : victims' = victims \ {id} /\ Store(id, Absent)
  /\ UNCHANGED <<dir, req, cs, shaken, wipe, faults, crashes>>

\* rmdir fails, silently, on a directory with a new or a temporary file
WipeRmdir ==
  /\ wipe = "unlink" /\ victims = {} /\ wipe' = "mkdir"
  /\ \/ dir' = \E id \in Ids : files[id] # Absent
     \/ pc = "replace" /\ dir' = TRUE
  /\ UNCHANGED <<files, req, cs, shaken, victims, faults, crashes>>

WipeMkdir ==
  /\ wipe = "mkdir" /\ wipe' = "done" /\ dir' = TRUE
  /\ UNCHANGED <<files, req, cs, shaken, victims, faults, crashes>>

\* the next start makes the directory again
Crash ==
  /\ crashes < MaxCrashes /\ crashes' = crashes + 1
  /\ req' = [h \in Handlers |-> IF req[h].at = "pending" THEN C!Lost ELSE req[h]]
  /\ pc' = "out" /\ holder' = "nobody"
  /\ tried' = 0 /\ seen' = Absent /\ left' = {} /\ listed' = {}
  /\ dir' = TRUE /\ victims' = {} /\ wipe' = IF Wiping THEN "done" ELSE wipe
  /\ UNCHANGED <<files, shaken, faults>>

-----------------------------------------------------------------------------

Init ==
  /\ \E p \in [Seeds -> BOOLEAN], l \in BOOLEAN :
       files = [id \in Ids |-> IF id \in Links THEN C!Link ELSE IF id \notin Seeds THEN Absent
                ELSE [kind |-> "whole", by |-> "seed", public |-> p[id], limited |-> l]]
  /\ dir = TRUE /\ req = [h \in Handlers |-> C!Idle]
  /\ pc = "out" /\ holder = "nobody" /\ tried = 0 /\ seen = Absent /\ left = {} /\ listed = {}
  /\ shaken = {} /\ wipe = "off" /\ victims = {} /\ faults = 0 /\ crashes = 0

Next ==
  \/ \E h \in Handlers : Call(h) \/ Enter(h)
  \/ Operation \/ DiskFull
  \/ WipeScan \/ WipeUnlink \/ WipeRmdir \/ WipeMkdir \/ Crash

Spec == Init /\ [][Next]_vars

=============================================================================
