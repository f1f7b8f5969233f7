----------------------------- MODULE StorageProofs -----------------------------
(***************************************************************************)
(* The files under data/, for any number of ids, calls, disk errors and    *)
(* crashes.  First the problem store: its files behave like the catalogue  *)
(* - the invariant that a call under the lock needs, then one step of      *)
(* Storage at a time mapped to a step of Catalogue or to none.  Then the   *)
(* model configuration and its key: what is stored can be decrypted, and   *)
(* without a reset or a crash no call fails.                               *)
(***************************************************************************)
EXTENDS Storage, TLAPS, WellFoundedInduction

Creates == {"create", "saveas"}
Changes == {"edit", "switch"}
Reads == {"get", "judge"}

Contents == {Absent, C!Link, Torn} \cup C!Wholes
Jobs == [at : {"pending"}, op : Creates \cup Changes \cup Reads \cup {"delete", "list"},
         id : Ids, public : {"unset", "yes", "no"}, limited : BOOLEAN]
Replies == {C!Idle, C!Lost}
           \cup [at : {"done"}, code : {200, 400, 403, 404, 409, 500},
                 entry : Contents, ids : SUBSET Ids]

\* Every variable keeps its kind.
Kinds ==
  /\ files \in [Ids -> Contents] /\ dir \in BOOLEAN
  /\ req \in [Handlers -> Jobs \cup Replies]
  /\ pc \in {"out", "check", "write", "act", "replace", "read"}
  /\ holder \in Handlers \cup {"nobody"}
  /\ tried \in Ids /\ seen \in {Absent} \cup C!Wholes
  /\ left \subseteq Ids /\ listed \subseteq Ids
  /\ shaken \subseteq Handlers /\ victims \subseteq Ids
  /\ wipe \in {"off", "unlink", "mkdir", "done"}

Holds(p, ops) == pc = p => req[holder].op \in ops

\* The lock is held by a call that waits for its answer, at a step of its kind;
\* only a saving under a new id goes on to another candidate, and each call begins
\* with no candidate tried and nothing listed.
LockHeld ==
  /\ holder = "nobody" <=> pc = "out"
  /\ holder # "nobody" => req[holder] \in Jobs
  /\ Holds("write", Creates) /\ Holds("replace", Changes) /\ Holds("read", {"list"})
  /\ Holds("act", Changes \cup Reads \cup {"delete"})
  /\ holder # "nobody" /\ Job.op = "create" => tried = 0
  /\ pc = "out" => tried = 0
  /\ pc # "read" => listed = {}

\* While the reset is under way every call that waits is marked as shaken, and
\* only then can the directory be missing.
ShakenByReset ==
  /\ Wiping => \A h \in Handlers : req[h].at = "pending" => h \in shaken
  /\ ~dir => wipe = "mkdir"

\* What the call under the lock has seen of the files is still so, unless a
\* reset shakes it.
NotStale ==
  /\ pc = "write" => files[Target] \in {Torn, Absent}
  /\ pc = "act" => File # C!Link
  /\ pc = "replace" => seen \in C!Wholes
  /\ holder # "nobody" /\ holder \notin shaken =>
       /\ pc = "write" => files[Target] = Torn
       /\ pc = "act" => File # Absent
       /\ pc = "replace" => File = seen
       /\ Job.op = "saveas" =>
            \A m \in 0 .. tried - 1 : Entries[C!Candidate(Job.id, m)] # Absent
       /\ pc = "read" => \A i \in Ids :
            /\ i \in left => files[i] # Absent
            /\ i \in listed <=> files[i].kind = "whole" /\ i \notin left

RInv == Kinds /\ LockHeld /\ ShakenByReset /\ NotStale

-----------------------------------------------------------------------------
(* Arithmetic of the candidates *)

LEMMA CandidateIsId == ASSUME NEW i \in Nat, NEW n \in Nat PROVE C!Candidate(i, n) \in Ids
BY StoreAssumption DEF C!Candidate, Ids, C!Ids

LEMMA FirstCandidate == ASSUME NEW i \in Ids PROVE C!Candidate(i, 0) = i
BY StoreAssumption DEF C!Candidate, Ids, C!Ids

\* After the last candidate the search begins again.
LEMMA NextCandidate ==
  ASSUME NEW n \in Ids
  PROVE  (n + 1) % (MaxId + 1) \in Ids /\ (n + 1) % (MaxId + 1) \in {0, n + 1}
BY StoreAssumption DEF Ids, C!Ids

LEMMA LeastOf ==
  ASSUME NEW T, T \subseteq Nat, T # {}
  PROVE  \E i \in T : \A k \in T : i <= k
<1> DEFINE R == OpToRel(<, Nat)
<1>1. \E x \in T : \A y \in T : ~ (<<y, x>> \in R)
  BY NatLessThanWellFounded, WFMin
<1>2. \A x, y \in Nat : y < x => <<y, x>> \in R
  BY DEF OpToRel
<1>3. \E x \in T : \A y \in T : ~ (y < x)
  <2> HIDE DEF R
  <2>1. PICK x \in T : \A y \in T : ~ (<<y, x>> \in R)
    BY <1>1, Zenon
  <2>2. \A y \in T : ~ (y < x)
    BY <1>2, <2>1, Zenon
  <2> QED BY <2>2
<1>4. \A x, y \in Nat : ~ (y < x) => x <= y
  OBVIOUS
<1> QED BY <1>3, <1>4

-----------------------------------------------------------------------------
(* The invariant *)

LEMMA Holder ==
  ASSUME RInv, holder # "nobody"
  PROVE  /\ holder \in Handlers /\ Job \in Jobs
         /\ Target \in Ids /\ Target = C!Candidate(Job.id, tried)
         /\ Job.op = "create" => Target = Job.id
<1>1. holder \in Handlers /\ Job \in Jobs
  BY DEF RInv, Kinds, LockHeld, Job
<1>2. Job.id \in Ids /\ Job.id \in Nat /\ tried \in Nat
  BY <1>1 DEF Jobs, RInv, Kinds, Ids, C!Ids
<1>3. Target = C!Candidate(Job.id, tried)
  BY DEF Target, C!Candidate
<1>4. Target \in Ids
  BY <1>2, <1>3, CandidateIsId
<1>5. Job.op = "create" => Target = Job.id
  BY <1>2, <1>3, FirstCandidate DEF RInv, LockHeld
<1> QED BY <1>1, <1>3, <1>4, <1>5

LEMMA JobsAreNoReplies == \A r \in Jobs \cup Replies : r \in Jobs <=> r.at = "pending"
BY DEF Jobs, Replies, C!Idle, C!Lost

\* An answer, whatever was done to the files, leaves nothing to be stale.
LEMMA Ends ==
  ASSUME RInv, holder # "nobody",
         NEW c \in {200, 400, 404, 409, 500}, NEW e \in Contents, NEW s \in SUBSET Ids,
         Done(c, e, s), files' \in [Ids -> Contents], UNCHANGED <<dir, shaken, wipe, victims>>
  PROVE  RInv'
<1> DEFINE a == C!Answer(c, e, s)
<1>1. a \in Replies /\ a.at = "done"
  BY DEF C!Answer, Replies
<1>2. holder \in Handlers /\ req' = [req EXCEPT ![holder] = a]
  BY Holder DEF Done
<1> HIDE DEF a
<1>3. req' \in [Handlers -> Jobs \cup Replies]
  BY <1>1, <1>2 DEF RInv, Kinds
<1>4. \A h \in Handlers : req'[h].at = "pending" => req[h].at = "pending"
  BY <1>1, <1>2 DEF RInv, Kinds
<1>5. pc' = "out" /\ holder' = "nobody" /\ tried' = 0 /\ seen' = Absent /\ left' = {} /\ listed' = {}
  BY DEF Done
<1>6. 0 \in Ids
  BY StoreAssumption DEF Ids, C!Ids
<1>7. Kinds'
  BY <1>3, <1>5, <1>6 DEF RInv, Kinds
<1>8. LockHeld'
  BY <1>5 DEF LockHeld, Holds
<1>9. ShakenByReset'
  BY <1>4 DEF RInv, ShakenByReset, Wiping
<1>10. NotStale'
  BY <1>5 DEF NotStale
<1> QED BY <1>7, <1>8, <1>9, <1>10 DEF RInv

LEMMA EndsInError ==
  ASSUME RInv, holder # "nobody", NEW c \in {200, 400, 404, 409, 500}, Error(c),
         files' \in [Ids -> Contents], UNCHANGED <<dir, shaken, wipe, victims>>
  PROVE  RInv'
<1>1. Absent \in Contents /\ {} \in SUBSET Ids
  BY DEF Contents
<1>2. Done(c, Absent, {})
  BY DEF Error
<1> QED BY <1>1, <1>2, Ends

\* A step of the call that does not answer and leaves the files alone.
LEMMA GoesOn ==
  ASSUME RInv, holder # "nobody", UNCHANGED <<files, dir, holder, req, shaken, wipe, victims>>,
         pc' \in {"check", "act", "replace", "read"},
         tried' \in Ids, Job.op = "create" => tried' = 0,
         seen' \in {Absent} \cup C!Wholes, left' \subseteq Ids, listed' \subseteq Ids,
         pc' # "read" => listed' = {},
         Holds("replace", Changes)', Holds("read", {"list"})',
         Holds("act", Changes \cup Reads \cup {"delete"})', NotStale'
  PROVE  RInv'
<1>1. Kinds'
  BY DEF RInv, Kinds
<1>2. LockHeld'
  BY DEF RInv, LockHeld, Holds, Job
<1>3. ShakenByReset'
  BY DEF RInv, ShakenByReset, Wiping
<1> QED BY <1>1, <1>2, <1>3 DEF RInv

\* A new call is not the one under the lock, so the catalogue stays what it is.
LEMMA CallEnters ==
  ASSUME RInv, NEW h \in Handlers, Call(h)
  PROVE  /\ holder # h /\ (holder # "nobody" => Job' = Job) /\ Entries' = Entries
         /\ \E r \in Jobs \cup Replies :
              /\ req' = [req EXCEPT ![h] = r]
              /\ r.at = "pending" \/ r = C!Answer(403, Absent, {})
         /\ shaken' = IF Wiping /\ req'[h].at = "pending" THEN shaken \cup {h} ELSE shaken
<1> PICK j \in Bodies, admin \in BOOLEAN :
      /\ req' = [req EXCEPT ![h] = IF AdminOnly(j) /\ ~admin THEN C!Answer(403, Absent, {}) ELSE Pend(j)]
      /\ shaken' = IF Wiping /\ req'[h].at = "pending" THEN shaken \cup {h} ELSE shaken
  BY DEF Call
<1> DEFINE r == IF AdminOnly(j) /\ ~admin THEN C!Answer(403, Absent, {}) ELSE Pend(j)
<1>1. UNCHANGED <<files, pc, holder, tried>>
  BY DEF Call, cs
<1>2. r \in Jobs \cup Replies /\ (r.at = "pending" \/ r = C!Answer(403, Absent, {}))
  <2>1. j.op \in Creates \cup Changes \cup Reads \cup {"delete", "list"} /\ j.id \in Ids
        /\ j.public \in {"unset", "yes", "no"} /\ j.limited \in BOOLEAN
    <3>1. 0 \in Ids
      BY StoreAssumption DEF Ids, C!Ids
    <3> QED BY <3>1 DEF Bodies, Creates, Changes, Reads
  <2>2. Pend(j) \in Jobs /\ Pend(j).at = "pending"
    BY <2>1 DEF Pend, Jobs
  <2>3. C!Answer(403, Absent, {}) \in Replies
    BY DEF C!Answer, Replies, Contents
  <2> QED BY <2>2, <2>3
<1>3. req' = [req EXCEPT ![h] = r]
  OBVIOUS
<1> HIDE DEF r
<1>4. holder # h /\ (holder # "nobody" => Job' = Job)
  <2>1. holder # "nobody" => holder \in Handlers /\ req[holder] \in Jobs
    BY Holder DEF Job
  <2>2. req[h].at = "idle"
    BY DEF Call, C!Idle
  <2>3. holder # h
    BY <2>1, <2>2, StoreAssumption DEF Jobs
  <2> QED BY <1>1, <1>3, <2>1, <2>3 DEF RInv, Kinds, Job
<1>5. Entries' = Entries
  <2>1. holder = "nobody" => pc # "write"
    BY DEF RInv, LockHeld
  <2>2. holder # "nobody" => Target' = Target
    BY <1>1, <1>4 DEF Target
  <2> QED BY <1>1, <2>1, <2>2 DEF Entries
<1> QED BY <1>2, <1>3, <1>4, <1>5

LEMMA CallKeeps == ASSUME RInv, NEW h \in Handlers, Call(h) PROVE RInv'
<1> PICK r \in Jobs \cup Replies : req' = [req EXCEPT ![h] = r]
  BY CallEnters
<1>1. UNCHANGED <<files, dir, pc, holder, tried, seen, left, listed, wipe, victims>>
      /\ shaken' = IF Wiping /\ req'[h].at = "pending" THEN shaken \cup {h} ELSE shaken
  BY CallEnters DEF Call, cs, resetVars
<1>2. holder # h /\ (holder # "nobody" => Job' = Job) /\ Entries' = Entries
  BY CallEnters
<1>3. Kinds'
  BY <1>1 DEF RInv, Kinds
<1>4. LockHeld'
  BY <1>1, <1>2 DEF RInv, LockHeld, Holds, Job
<1>5. ShakenByReset'
  BY <1>1 DEF RInv, Kinds, ShakenByReset, Wiping
<1>6. NotStale'
  <2> USE <1>1, <1>2 DEF RInv, NotStale
  <2>1. CASE holder = "nobody"
    BY <2>1 DEF LockHeld
  <2>2. CASE holder # "nobody"
    <3>1. Target' = Target /\ File' = File /\ (holder \notin shaken' => holder \notin shaken)
      BY <2>2 DEF Target, File
    <3> QED BY <2>2, <3>1
  <2> QED BY <2>1, <2>2
<1> QED BY <1>3, <1>4, <1>5, <1>6 DEF RInv

LEMMA EnterKeeps == ASSUME RInv, NEW h \in Handlers, Enter(h) PROVE RInv'
<1>1. /\ holder = "nobody" /\ holder' = h /\ pc = "out" /\ pc' = "check" /\ tried = 0 /\ dir' \in BOOLEAN
      /\ UNCHANGED <<files, req, tried, seen, left, listed, shaken, wipe, victims>>
      /\ dir => dir'
  BY DEF Enter, RInv, Kinds, LockHeld, resetVars
<1>2. req[h] \in Jobs
  BY JobsAreNoReplies DEF Enter, RInv, Kinds
<1>3. Kinds'
  BY <1>1 DEF RInv, Kinds
<1>4. LockHeld'
  BY <1>1, <1>2, StoreAssumption DEF RInv, LockHeld, Holds
<1>5. ShakenByReset'
  BY <1>1 DEF RInv, ShakenByReset, Wiping
<1>6. NotStale'
  BY <1>1 DEF NotStale
<1> QED BY <1>3, <1>4, <1>5, <1>6 DEF RInv

LEMMA OpenKeeps == ASSUME RInv, Open PROVE RInv'
<1>1. holder # "nobody" /\ holder \in Handlers /\ Job \in Jobs /\ Target \in Ids /\ Job.op \in Creates
  BY Holder DEF RInv, LockHeld, Open, At, Creates
<1>2. UNCHANGED <<dir, shaken, wipe, victims>>
  BY DEF Open, Rest, resetVars
<1>3. CASE Error(500) /\ UNCHANGED files
  BY <1>1, <1>2, <1>3, EndsInError DEF RInv, Kinds
<1>4. CASE dir /\ Store(Target, Torn) /\ Goto("write") /\ UNCHANGED <<tried, seen, left, listed>>
  <2>1. files' = [files EXCEPT ![Target] = Torn] /\ pc' = "write" /\ pc = "check"
        /\ UNCHANGED <<holder, req, tried, seen, left, listed>> /\ files[Target] = Absent
    BY <1>4 DEF Store, Goto, Open, At
  <2>2. Kinds'
    BY <1>1, <1>2, <2>1 DEF RInv, Kinds, Contents
  <2>3. LockHeld'
    BY <1>1, <2>1 DEF RInv, LockHeld, Holds, Job
  <2>4. ShakenByReset'
    BY <1>2, <2>1 DEF RInv, ShakenByReset, Wiping
  <2>5. Target' = Target /\ Job' = Job /\ files'[Target] = Torn
    BY <1>1, <2>1 DEF Target, Job, RInv, Kinds
  <2>6. Entries' = Entries
    <3>1. files[Target] = Absent => files[Target] = [kind |-> "absent"] /\ Torn.kind = "torn"
      BY DEF Absent, C!Absent, Torn, C!Torn
    <3> QED BY <1>1, <2>1, <2>5, <3>1 DEF Entries, RInv, Kinds, Ids, C!Ids
  <2>7. NotStale'
    BY <1>2, <2>1, <2>5, <2>6 DEF RInv, NotStale
  <2> QED BY <2>2, <2>3, <2>4, <2>7 DEF RInv
<1> QED BY <1>3, <1>4 DEF Open
LEMMA OccupiedKeeps == ASSUME RInv, Occupied PROVE RInv'
<1>1. holder # "nobody" /\ holder \in Handlers /\ Job \in Jobs /\ Target \in Ids /\ pc = "check"
  BY Holder DEF RInv, LockHeld, Occupied, At
<1>2. UNCHANGED <<files, dir, shaken, wipe, victims>>
  BY DEF Occupied, Rest, resetVars
<1>3. CASE \E c \in {400, 409} : Error(c)
  BY <1>1, <1>2, <1>3, EndsInError DEF RInv, Kinds
<1>4. CASE Job.op = "saveas" /\ tried' = (tried + 1) % (MaxId + 1) /\ Goto("check") /\ UNCHANGED <<seen, left, listed>>
  <2>1. pc' = "check" /\ UNCHANGED <<holder, req, seen, left, listed>> /\ Job' = Job
    BY <1>1, <1>4 DEF Goto, Job
  <2>2. tried' \in Ids /\ tried' \in {0, tried + 1}
    BY <1>4, NextCandidate DEF RInv, Kinds
  <2>3. Entries = files /\ Entries' = files
    BY <1>1, <1>2, <2>1 DEF Entries, RInv, Kinds, Ids, C!Ids
  <2>4. NotStale'
    <3> SUFFICES ASSUME holder \notin shaken, NEW m \in 0 .. tried' - 1
                 PROVE  files[C!Candidate(Job.id, m)] # Absent
      BY <1>1, <1>2, <2>1, <2>3 DEF NotStale
    <3>1. m \in 0 .. tried - 1 \/ m = tried
      <4>1. tried \in Nat
        BY StoreAssumption DEF RInv, Kinds, Ids, C!Ids
      <4>2. m \in 0 .. (0 - 1) \/ m \in 0 .. (tried + 1) - 1
        BY <2>2
      <4> QED BY <4>1, <4>2
    <3>2. CASE m = tried
      BY <1>1, <3>2, Holder DEF Occupied
    <3>3. CASE m \in 0 .. tried - 1
      BY <1>1, <1>4, <2>3, <3>3 DEF RInv, NotStale
    <3> QED BY <3>1, <3>2, <3>3
  <2> QED BY <1>1, <1>2, <1>4, <2>1, <2>2, <2>4, GoesOn DEF RInv, Kinds, LockHeld, Holds
<1> QED BY <1>3, <1>4 DEF Occupied

LEMMA WriteKeeps == ASSUME RInv, Write PROVE RInv'
<1>1. holder # "nobody" /\ holder \in Handlers /\ Job \in Jobs /\ Target \in Ids
  BY Holder DEF RInv, LockHeld, Write, At
<1>2. Content(Job.public = "yes") \in Contents
  BY <1>1 DEF Content, Contents, C!Wholes, Jobs
<1>3. files' \in [Ids -> Contents] /\ UNCHANGED <<dir, shaken, wipe, victims>>
  BY <1>1, <1>2 DEF Write, Rest, resetVars, RInv, Kinds
<1>4. Done(200, Absent, {Target}) /\ Absent \in Contents /\ {Target} \in SUBSET Ids
  BY <1>1 DEF Write, Contents
<1> QED BY <1>1, <1>3, <1>4, Ends

LEMMA CheckKeeps == ASSUME RInv, Check PROVE RInv'
<1>1. holder # "nobody" /\ Job \in Jobs /\ pc = "check" /\ Job.op \in Changes \cup Reads \cup {"delete"}
  BY Holder DEF RInv, LockHeld, Check, At, Changes, Reads
<1>2. UNCHANGED <<files, dir, shaken, wipe, victims>>
  BY DEF Check, Rest, resetVars
<1>3. CASE \E c \in {400, 404} : Error(c)
  BY <1>1, <1>2, <1>3, EndsInError DEF RInv, Kinds
<1>4. CASE File \notin {C!Link, Absent} /\ Goto("act") /\ UNCHANGED <<tried, seen, left, listed>>
  <2>1. pc' = "act" /\ UNCHANGED <<holder, req, tried, seen, left, listed>> /\ Job' = Job /\ File' = File
    BY <1>2, <1>4 DEF Goto, Job, File
  <2>2. NotStale'
    BY <1>1, <1>4, <2>1 DEF NotStale, Changes, Reads
  <2>3. Holds("replace", Changes)' /\ Holds("read", {"list"})' /\ Holds("act", Changes \cup Reads \cup {"delete"})'
    BY <1>1, <2>1 DEF Holds, Job
  <2> QED BY <1>1, <1>2, <2>1, <2>2, <2>3, GoesOn DEF RInv, Kinds, LockHeld
<1> QED BY <1>3, <1>4 DEF Check

LEMMA ActKeeps == ASSUME RInv, Get \/ Delete \/ Replace \/ DiskFull \/ ListDone PROVE RInv'
<1>1. holder # "nobody" /\ holder \in Handlers /\ Job \in Jobs /\ Job.id \in Ids
  BY Holder DEF RInv, LockHeld, Get, Delete, Replace, DiskFull, ListDone, At, Jobs
<1>2. UNCHANGED <<dir, shaken, wipe, victims>>
  BY DEF Get, Delete, Replace, DiskFull, ListDone, Rest, resetVars
<1>3. Absent \in Contents /\ {} \in SUBSET Ids /\ files \in [Ids -> Contents] /\ File \in Contents
  BY <1>1 DEF Contents, RInv, Kinds, File
<1>4. CASE Get
  <2>1. CASE Error(500)
    BY <1>1, <1>2, <1>3, <1>4, <2>1, EndsInError DEF Get
  <2>2. CASE File.kind = "whole" /\ Done(200, [File EXCEPT !.limited = Job.op = "get" \/ @], {})
    <3>1. File \in C!Wholes
      BY <1>3, <2>2 DEF Contents, Absent, C!Absent, Torn, C!Torn, C!Link
    <3>2. [File EXCEPT !.limited = Job.op = "get" \/ @] \in Contents
      BY <3>1 DEF C!Wholes, Contents
    <3> QED BY <1>1, <1>2, <1>3, <1>4, <2>2, <3>2, Ends DEF Get
  <2> QED BY <1>4, <2>1, <2>2 DEF Get
<1>5. CASE Delete
  <2>1. files' \in [Ids -> Contents]
    BY <1>1, <1>3, <1>5 DEF Delete, Store
  <2>2. \E c \in {200, 500} : Error(c)
    BY <1>5 DEF Delete
  <2> QED BY <1>1, <1>2, <2>1, <2>2, EndsInError
<1>6. CASE Replace
  <2>1. CASE Error(500) /\ UNCHANGED files
    BY <1>1, <1>2, <1>3, <2>1, EndsInError
  <2>2. CASE Store(Job.id, Updated) /\ Error(200)
    <3>1. seen \in C!Wholes /\ Job.op \in Changes
      BY <1>6 DEF Replace, At, RInv, NotStale, Changes
    <3>2. Updated \in C!Wholes
      BY <1>1, <3>1 DEF Updated, Content, C!Wholes, Jobs
    <3>3. files' \in [Ids -> Contents]
      BY <1>1, <1>3, <2>2, <3>2 DEF Store, Contents
    <3> QED BY <1>1, <1>2, <2>2, <3>3, EndsInError
  <2> QED BY <1>6, <2>1, <2>2 DEF Replace
<1>7. CASE DiskFull
  BY <1>1, <1>2, <1>3, <1>7, EndsInError DEF DiskFull
<1>8. CASE ListDone
  BY <1>1, <1>2, <1>3, <1>8, Ends DEF ListDone, RInv, Kinds
<1> QED BY <1>4, <1>5, <1>6, <1>7, <1>8
LEMMA ReadForUpdateKeeps == ASSUME RInv, ReadForUpdate PROVE RInv'
<1>1. holder # "nobody" /\ holder \in Handlers /\ Job.id \in Ids /\ Job.op \in Changes
  BY Holder DEF RInv, LockHeld, ReadForUpdate, At, Jobs, Changes
<1>2. UNCHANGED <<files, dir, shaken, wipe, victims>>
  BY DEF ReadForUpdate, Rest, resetVars
<1>3. CASE Error(500)
  BY <1>1, <1>2, <1>3, EndsInError DEF RInv, Kinds
<1>4. CASE File.kind = "whole" /\ seen' = File /\ Goto("replace") /\ UNCHANGED <<tried, left, listed>>
  <2>1. pc = "act" /\ pc' = "replace" /\ UNCHANGED <<holder, req, tried, left, listed>> /\ Job' = Job /\ File' = File
    BY <1>2, <1>4 DEF ReadForUpdate, At, Goto, Job, File
  <2>2. File \in C!Wholes
    BY <1>1, <1>4 DEF File, RInv, Kinds, Contents, Absent, C!Absent, Torn, C!Torn, C!Link
  <2>3. NotStale'
    BY <1>1, <1>4, <2>1, <2>2 DEF NotStale, Changes
  <2>4. Holds("replace", Changes)' /\ Holds("read", {"list"})' /\ Holds("act", Changes \cup Reads \cup {"delete"})'
    BY <1>1, <2>1 DEF Holds, Job
  <2>5. tried' \in Ids /\ (Job.op = "create" => tried' = 0) /\ seen' \in {Absent} \cup C!Wholes
        /\ left' \subseteq Ids /\ listed' \subseteq Ids /\ listed' = {}
    BY <1>1, <1>4, <2>1, <2>2 DEF RInv, Kinds, LockHeld
  <2> QED BY <1>1, <1>2, <2>1, <2>3, <2>4, <2>5, GoesOn
<1> QED BY <1>3, <1>4 DEF ReadForUpdate

LEMMA GlobKeeps == ASSUME RInv, Glob PROVE RInv'
<1>1. holder # "nobody" /\ Job.op = "list" /\ pc = "check" /\ pc' = "read" /\ listed = {}
      /\ left' = {id \in Ids : files[id] # Absent}
      /\ UNCHANGED <<files, dir, holder, req, tried, seen, listed, shaken, wipe, victims>>
  BY DEF RInv, LockHeld, Glob, At, Goto, Rest, resetVars
<1>2. Job' = Job
  BY <1>1 DEF Job
<1>3. \A i \in Ids : files[i].kind = "whole" => files[i] # Absent
  BY DEF Absent, C!Absent
<1>4. NotStale'
  BY <1>1, <1>2, <1>3 DEF NotStale
<1>5. Holds("replace", Changes)' /\ Holds("read", {"list"})' /\ Holds("act", Changes \cup Reads \cup {"delete"})'
  BY <1>1 DEF Holds, Job
<1> QED BY <1>1, <1>4, <1>5, GoesOn DEF RInv, Kinds, LockHeld

LEMMA LeastLeft ==
  ASSUME RInv, left # {}
  PROVE  (CHOOSE i \in left : \A k \in left : i <= k) \in left
<1>1. left \subseteq Nat
  BY StoreAssumption DEF RInv, Kinds, Ids, C!Ids
<1> QED BY <1>1, LeastOf

LEMMA ReadNextKeeps == ASSUME RInv, ReadNext PROVE RInv'
<1> DEFINE id == CHOOSE i \in left : \A k \in left : i <= k
<1>1. holder # "nobody" /\ Job.op = "list" /\ pc = "read"
      /\ UNCHANGED <<files, dir, shaken, wipe, victims>>
  BY DEF RInv, LockHeld, ReadNext, At, Rest, resetVars
<1>2. id \in left
  BY LeastLeft DEF ReadNext
<1> HIDE DEF id
<1>3. CASE Error(500)
  BY <1>1, <1>3, EndsInError DEF RInv, Kinds
<1>4. CASE /\ left' = left \ {id} /\ Goto("read")
           /\ listed' = IF files[id].kind = "whole" THEN listed \cup {id} ELSE listed
           /\ UNCHANGED <<tried, seen>>
  <2>1. pc' = "read" /\ UNCHANGED <<holder, req, tried, seen>> /\ Job' = Job
    BY <1>1, <1>4 DEF Goto, Job
  <2>2. left' \subseteq Ids /\ listed' \subseteq Ids
    BY <1>2, <1>4 DEF RInv, Kinds
  <2>3. NotStale'
    <3> SUFFICES ASSUME holder \notin shaken, NEW i \in Ids
                 PROVE  /\ i \in left' => files[i] # Absent
                        /\ i \in listed' <=> files[i].kind = "whole" /\ i \notin left'
      BY <1>1, <2>1 DEF NotStale
    <3>1. /\ i \in left => files[i] # Absent
          /\ i \in listed <=> files[i].kind = "whole" /\ i \notin left
      BY <1>1 DEF RInv, NotStale
    <3> QED BY <1>2, <1>4, <3>1
  <2>4. Holds("replace", Changes)' /\ Holds("read", {"list"})' /\ Holds("act", Changes \cup Reads \cup {"delete"})'
    BY <1>1, <2>1 DEF Holds, Job
  <2> QED BY <1>1, <2>1, <2>2, <2>3, <2>4, GoesOn DEF RInv, Kinds, LockHeld
<1> QED BY <1>3, <1>4 DEF ReadNext, id

LEMMA WipeKeeps == ASSUME RInv, WipeScan \/ WipeUnlink \/ WipeRmdir \/ WipeMkdir PROVE RInv'
<1>1. UNCHANGED <<req, pc, holder, tried, seen, left, listed>> /\ Job' = Job /\ Target' = Target
  BY DEF WipeScan, WipeUnlink, WipeRmdir, WipeMkdir, cs, Job, Target
<1>2. LockHeld'
  BY <1>1 DEF RInv, LockHeld, Holds
<1>3. CASE WipeScan
  <2>1. UNCHANGED <<files, dir>> /\ wipe' = "unlink" /\ victims' \subseteq Ids
        /\ shaken' = shaken \cup {h \in Handlers : req[h].at = "pending"}
        /\ wipe = "off"
    BY <1>3 DEF WipeScan
  <2>2. Kinds' /\ ShakenByReset'
    BY <1>1, <2>1 DEF RInv, Kinds, ShakenByReset, Wiping
  <2>3. File' = File /\ Entries' = Entries
    BY <1>1, <2>1 DEF File, Entries
  <2>4. NotStale'
    BY <1>1, <2>1, <2>3 DEF RInv, NotStale
  <2> QED BY <1>2, <2>2, <2>4 DEF RInv
<1>4. CASE WipeUnlink
  <2> PICK id \in victims : victims' = victims \ {id} /\ files' = [files EXCEPT ![id] = Absent]
    BY <1>4 DEF WipeUnlink, Store
  <2>1. UNCHANGED <<dir, shaken, wipe>> /\ wipe = "unlink"
    BY <1>4 DEF WipeUnlink
  <2>2. Kinds'
    BY <1>1, <2>1 DEF RInv, Kinds, Contents
  <2>3. ShakenByReset'
    BY <1>1, <2>1 DEF RInv, ShakenByReset, Wiping
  <2>4. holder # "nobody" => holder \in shaken /\ Target \in Ids /\ Job.id \in Ids
    BY <2>1, Holder DEF RInv, ShakenByReset, Wiping, Jobs, Job
  <2>5. holder # "nobody" => /\ files'[Target] \in {Absent, files[Target]}
                             /\ File' \in {Absent, File}
    BY <1>1, <2>4 DEF RInv, Kinds, File
  <2>6. Absent # C!Link
    BY DEF Absent, C!Absent, C!Link
  <2>7. NotStale'
    BY <1>1, <2>1, <2>4, <2>5, <2>6 DEF RInv, LockHeld, NotStale
  <2> QED BY <1>2, <2>2, <2>3, <2>7 DEF RInv
<1>5. CASE WipeRmdir \/ WipeMkdir
  <2>1. UNCHANGED <<files, shaken, victims>> /\ dir' \in BOOLEAN
        /\ (~dir' => wipe' = "mkdir") /\ wipe' \in {"mkdir", "done"} /\ (wipe' = "mkdir" => wipe = "unlink")
    BY <1>5 DEF WipeRmdir, WipeMkdir
  <2>2. Kinds' /\ ShakenByReset'
    BY <1>1, <2>1 DEF RInv, Kinds, ShakenByReset, Wiping
  <2>3. File' = File /\ Entries' = Entries
    BY <1>1, <2>1 DEF File, Entries
  <2>4. NotStale'
    BY <1>1, <2>1, <2>3 DEF RInv, NotStale
  <2> QED BY <1>2, <2>2, <2>4 DEF RInv
<1> QED BY <1>3, <1>4, <1>5

LEMMA CrashKeeps == ASSUME RInv, Crash PROVE RInv'
<1>1. pc' = "out" /\ holder' = "nobody" /\ tried' = 0 /\ seen' = Absent /\ left' = {} /\ listed' = {}
      /\ dir' = TRUE /\ victims' = {} /\ wipe' = (IF Wiping THEN "done" ELSE wipe) /\ UNCHANGED <<files, shaken>>
  BY DEF Crash
<1>2. req' = [h \in Handlers |-> IF req[h].at = "pending" THEN C!Lost ELSE req[h]]
  BY DEF Crash
<1>3. \A h \in Handlers : req'[h] \in Jobs \cup Replies
  BY <1>2 DEF RInv, Kinds, Replies
<1>4. 0 \in Ids
  BY StoreAssumption DEF Ids, C!Ids
<1>5. Kinds'
  BY <1>1, <1>2, <1>3, <1>4 DEF RInv, Kinds, Wiping
<1>6. LockHeld' /\ NotStale'
  BY <1>1 DEF LockHeld, NotStale, Holds
<1>7. ShakenByReset'
  BY <1>1 DEF RInv, Kinds, ShakenByReset, Wiping
<1> QED BY <1>5, <1>6, <1>7 DEF RInv

LEMMA OthersKeep == ASSUME RInv, UNCHANGED vars PROVE RInv'
<1>1. UNCHANGED <<files, dir, req, pc, holder, tried, seen, left, listed, shaken, wipe, victims>>
      /\ Job' = Job /\ File' = File /\ Target' = Target /\ Entries' = Entries
  BY DEF vars, cs, resetVars, Job, File, Target, Entries
<1> QED BY <1>1 DEF RInv, Kinds, LockHeld, Holds, ShakenByReset, Wiping, NotStale

LEMMA RInvInductive == RInv /\ [StorageNext]_allVars => RInv'
<1> SUFFICES ASSUME RInv, [StorageNext]_allVars PROVE RInv'
  OBVIOUS
<1>1. CASE \E h \in Handlers : Call(h) \/ Enter(h)
  BY <1>1, CallKeeps, EnterKeeps
<1>2. CASE Operation \/ DiskFull
  BY <1>2, OpenKeeps, OccupiedKeeps, WriteKeeps, CheckKeeps, ActKeeps, ReadForUpdateKeeps, GlobKeeps, ReadNextKeeps
     DEF Operation
<1>3. CASE ResetProblems
  BY <1>3, WipeKeeps DEF ResetProblems
<1>4. CASE Crash
  BY <1>4, CrashKeeps
<1>5. CASE UNCHANGED vars
  BY <1>5, OthersKeep
<1> QED BY <1>1, <1>2, <1>3, <1>4, <1>5
    DEF StorageNext, CallProblems, CallConfig, Problems, Config, ResetConfig, CrashAll, allVars

LEMMA RInvInitially == StorageInit => RInv
<1> SUFFICES ASSUME StorageInit PROVE RInv
  OBVIOUS
<1> PICK p \in [Seeds -> BOOLEAN], l \in BOOLEAN :
      files = [id \in Ids |-> IF id \in Links THEN C!Link ELSE IF id \notin Seeds THEN Absent
               ELSE [kind |-> "whole", by |-> "seed", public |-> p[id], limited |-> l]]
  BY DEF StorageInit, Init
<1>1. files \in [Ids -> Contents]
  BY DEF Contents, C!Wholes
<1>2. 0 \in Ids
  BY StoreAssumption DEF Ids, C!Ids
<1>3. req \in [Handlers -> Jobs \cup Replies]
  BY DEF StorageInit, Init, Replies
<1>4. Kinds
  BY <1>1, <1>2, <1>3 DEF StorageInit, Init, Kinds
<1> QED BY <1>4 DEF StorageInit, Init, RInv, LockHeld, Holds, ShakenByReset, Wiping, NotStale
-----------------------------------------------------------------------------
(* The refinement *)

LEMMA EntriesAreFiles == ASSUME RInv, pc # "write" PROVE Entries = files
BY DEF Entries, RInv, Kinds, Ids, C!Ids

\* The file that is being written is not in the catalogue.
LEMMA Hidden ==
  ASSUME RInv, pc = "write"
  PROVE  /\ holder \in Handlers /\ Target \in Ids /\ Entries = [files EXCEPT ![Target] = Absent]
         /\ C!MayTear(holder, Target)
<1>1. holder # "nobody" /\ holder \in Handlers /\ Job \in Jobs /\ Target \in Ids /\ Job.op \in Creates
  BY Holder DEF RInv, LockHeld, Holds, Job
<1>2. files[Target] \in {Torn, Absent}
  BY DEF RInv, NotStale
<1>3. Torn.kind = "torn" /\ Absent = [kind |-> "absent"]
  BY DEF Torn, C!Torn, Absent, C!Absent
<1>4. Entries = [files EXCEPT ![Target] = Absent]
  <2>1. files \in [Ids -> Contents] /\ Target \in Ids
    BY <1>1 DEF RInv, Kinds
  <2>2. Entries = [id \in Ids |-> IF id = Target /\ files[id].kind = "torn" THEN Absent ELSE files[id]]
    BY <1>3 DEF Entries, Ids, C!Ids
  <2> QED BY <1>2, <1>3, <2>1, <2>2
<1>5. Entries[Target] = Absent
  BY <1>1, <1>4 DEF RInv, Kinds
<1>6. C!MayTear(holder, Target)
  BY <1>1, <1>5 DEF C!MayTear, C!Pending, Job, Jobs, Creates, Absent
<1> QED BY <1>1, <1>4, <1>6

LEMMA FilesNext == ASSUME RInv', pc' # "write" PROVE Entries' = files'
<1>1. files' = [id \in Ids |-> files'[id]]
  BY DEF RInv, Kinds
<1> QED BY <1>1 DEF Entries, Ids, C!Ids

LEMMA InitMaps == StorageInit => C!Init
<1> SUFFICES ASSUME StorageInit PROVE C!Init
  OBVIOUS
<1> PICK p \in [Seeds -> BOOLEAN], l \in BOOLEAN :
      files = [id \in Ids |-> IF id \in Links THEN C!Link ELSE IF id \notin Seeds THEN Absent
               ELSE [kind |-> "whole", by |-> "seed", public |-> p[id], limited |-> l]]
  BY DEF StorageInit, Init
<1>1. Entries = files
  BY RInvInitially, EntriesAreFiles DEF StorageInit, Init
<1>2. Entries \in [C!Ids -> {C!Absent, C!Link}
                          \cup [kind : {"whole"}, by : {"seed"}, public : BOOLEAN, limited : BOOLEAN]]
  BY <1>1 DEF Ids, Absent
<1> QED BY <1>2 DEF StorageInit, Init, C!Init, Wiping

LEMMA CallMaps == ASSUME RInv, NEW h \in Handlers, Call(h) PROVE C!Call(h)
<1> PICK r \in Jobs \cup Replies : /\ req' = [req EXCEPT ![h] = r]
                                   /\ r.at = "pending" \/ r = C!Answer(403, Absent, {})
  BY CallEnters
<1>1. req'[h] = r /\ req[h] = C!Idle
  BY DEF Call, RInv, Kinds
<1>2. UNCHANGED <<Entries, Wiping, faults>>
  BY CallEnters DEF Call, Wiping, resetVars
<1> QED BY <1>1, <1>2, CallEnters DEF C!Call, Absent

\* An answer under the lock is an answer of the catalogue to the same call, and
\* afterwards the catalogue is what the files are.
LEMMA AnswerMaps ==
  ASSUME RInv, RInv', holder # "nobody", NEW c, NEW e, NEW s, Done(c, e, s)
  PROVE  C!Pending(holder) /\ C!Reply(holder, c, e, s) /\ Entries' = files'
<1>1. C!Pending(holder)
  BY Holder DEF Jobs, Job, C!Pending
<1>2. C!Reply(holder, c, e, s) /\ pc' = "out"
  BY DEF Done, C!Reply
<1>3. files' = [id \in Ids |-> files'[id]]
  BY DEF RInv, Kinds
<1>4. Entries' = files'
  BY <1>2, <1>3 DEF Entries, Ids, C!Ids
<1> QED BY <1>1, <1>2, <1>4

LEMMA ErrorMaps ==
  ASSUME RInv, RInv', holder # "nobody", NEW c, Error(c)
  PROVE  C!Pending(holder) /\ C!Fails(holder, c) /\ Entries' = files'
BY AnswerMaps DEF Error, C!Fails, Absent
\* A shaken call may fail at any moment.
LEMMA ShakenFails ==
  ASSUME RInv, RInv', holder \in shaken, holder # "nobody", Error(500), UNCHANGED Entries,
         UNCHANGED <<shaken, Wiping, faults>>
  PROVE  C!Perform(holder)
BY ErrorMaps DEF C!Perform, C!Shaken, C!Keep

LEMMA OpenMaps == ASSUME RInv, RInv', Open PROVE C!Perform(holder) \/ UNCHANGED C!vars
<1>1. holder # "nobody" /\ holder \in Handlers /\ Job \in Jobs /\ Target \in Ids
  BY Holder DEF RInv, LockHeld, Open, At
<1>2. UNCHANGED <<shaken, Wiping, faults>> /\ pc = "check" /\ Entries = files
  BY EntriesAreFiles DEF Open, At, Rest, resetVars, Wiping
<1>3. CASE ~dir /\ Error(500) /\ UNCHANGED files
  <2>1. holder \in shaken
    BY <1>1, <1>3 DEF RInv, ShakenByReset, Wiping, Jobs, Job
  <2> QED BY <1>1, <1>2, <1>3, <2>1, ErrorMaps, ShakenFails
<1>4. CASE Store(Target, Torn) /\ Goto("write") /\ UNCHANGED <<tried, seen, left, listed>>
  <2>1. UNCHANGED req /\ pc' = "write" /\ Target' = Target /\ files' = [files EXCEPT ![Target] = Torn]
    BY <1>4 DEF Goto, Target, Job, Store
  <2>2. Torn.kind = "torn" /\ files[Target] = [kind |-> "absent"]
    BY DEF Open, Torn, C!Torn, Absent, C!Absent
  <2>3. Entries' = Entries
    BY <1>1, <1>2, <2>1, <2>2 DEF Entries, RInv, Kinds, Ids, C!Ids
  <2> QED BY <1>2, <2>1, <2>3 DEF C!vars
<1> QED BY <1>3, <1>4 DEF Open

LEMMA OccupiedMaps == ASSUME RInv, RInv', Occupied PROVE C!Perform(holder) \/ UNCHANGED C!vars
<1>1. holder # "nobody" /\ Job.op = "create" => Target = Job.id
  BY Holder DEF RInv, LockHeld, Occupied, At
<1>2. UNCHANGED <<shaken, Wiping, faults, files>> /\ pc = "check" /\ Entries = files
  BY EntriesAreFiles DEF Occupied, At, Rest, resetVars, Wiping
<1>3. holder # "nobody"
  BY <1>2 DEF RInv, LockHeld
<1>4. CASE Job.op = "create" /\ Error(IF File = C!Link THEN 400 ELSE 409)
  <2>1. C!Pending(holder) /\ C!Fails(holder, IF File = C!Link THEN 400 ELSE 409) /\ C!Keep
    BY <1>2, <1>3, <1>4, ErrorMaps DEF C!Keep
  <2>2. File = Entries[Job.id] /\ File # Absent
    BY <1>1, <1>2, <1>3, <1>4 DEF File, Occupied
  <2> QED BY <1>2, <1>4, <2>1, <2>2 DEF C!Perform, C!Create, Job, Absent
<1>5. CASE Goto("check")
  <2>1. UNCHANGED req /\ pc' = "check"
    BY <1>5 DEF Goto
  <2> QED BY <1>2, <2>1, EntriesAreFiles DEF C!vars, Entries, RInv, Kinds, Ids, C!Ids
<1> QED BY <1>4, <1>5 DEF Occupied

LEMMA WriteMaps == ASSUME RInv, RInv', Write PROVE C!Perform(holder)
<1>1. holder # "nobody" /\ holder \in Handlers /\ Job \in Jobs /\ Target \in Ids /\ pc = "write"
      /\ Target = C!Candidate(Job.id, tried) /\ (Job.op = "create" => Target = Job.id)
  BY Holder DEF RInv, LockHeld, Write, At
<1>2. UNCHANGED <<shaken, Wiping, faults>> /\ Job.op \in Creates
  BY DEF Write, At, Rest, resetVars, Wiping, Creates
<1>3. C!Pending(holder) /\ C!Reply(holder, 200, Absent, {Target}) /\ Entries' = files'
  BY <1>1, AnswerMaps DEF Write
<1>4. files[Target] \in {Torn, Absent} /\ (files[Target] # Torn => holder \in shaken)
  BY <1>1 DEF RInv, NotStale
<1>5. Entries = [files EXCEPT ![Target] = Absent]
  BY <1>1, Hidden
<1>6. CASE files[Target] = Torn
  <2>1. C!Put(Target, C!Created(holder, Job)) /\ Entries[Target] = Absent
    <3>1. files' = [files EXCEPT ![Target] = C!Created(holder, Job)]
      BY <1>6 DEF Write, Content, C!Created
    <3> QED BY <1>1, <1>3, <1>5, <3>1 DEF C!Put, RInv, Kinds
  <2>2. CASE Job.op = "create"
    BY <1>1, <1>2, <1>3, <2>1, <2>2 DEF C!Perform, C!Create, Job, Absent
  <2>3. CASE Job.op = "saveas"
    <3>1. CASE holder \in shaken
      BY <1>1, <1>2, <1>3, <2>1, <2>3, <3>1 DEF C!Perform, C!Shaken, Job, Absent, Ids
    <3>2. CASE holder \notin shaken
      <4>1. \A m \in 0 .. tried - 1 : Entries[C!Candidate(Job.id, m)] # Absent
        BY <1>1, <2>3, <3>2 DEF RInv, NotStale
      <4>2. tried \in Ids
        BY DEF RInv, Kinds
      <4>3. C!SaveAs(holder, Job)
        BY <1>1, <1>3, <2>1, <4>1, <4>2 DEF C!SaveAs, Absent, Ids
      <4> QED BY <1>2, <1>3, <2>3, <4>3 DEF C!Perform, Job
    <3> QED BY <3>1, <3>2
  <2> QED BY <1>2, <2>2, <2>3 DEF Creates
<1>7. CASE files[Target] # Torn
  <2>1. files' = files /\ Entries = files
    BY <1>1, <1>4, <1>5, <1>7 DEF Write, RInv, Kinds
  <2>2. C!Keep /\ holder \in shaken
    BY <1>3, <1>4, <1>7, <2>1 DEF C!Keep
  <2> QED BY <1>1, <1>2, <1>3, <2>2 DEF C!Perform, C!Shaken, Job, Creates, Absent, Ids
<1> QED BY <1>6, <1>7
\* The calls on a problem that should exist end with Use, unless shaken.
LEMMA UseMaps ==
  ASSUME C!Pending(holder), Job.op \in Changes \cup Reads \cup {"delete"}, C!Use(holder, Job),
         UNCHANGED <<shaken, Wiping, faults>>
  PROVE  C!Perform(holder)
BY DEF C!Perform, Changes, Reads, Job

LEMMA CheckMaps == ASSUME RInv, RInv', Check PROVE C!Perform(holder) \/ UNCHANGED C!vars
<1>1. holder # "nobody" /\ Job.op \in Changes \cup Reads \cup {"delete"} /\ pc = "check"
  BY DEF RInv, LockHeld, Check, At, Changes, Reads
<1>2. UNCHANGED <<shaken, Wiping, faults, files>> /\ Entries = files
  BY <1>1, EntriesAreFiles DEF Check, Rest, resetVars, Wiping
<1>3. File = Entries[Job.id] /\ Absent # Torn /\ C!Link # C!Torn
  BY <1>2 DEF File, Absent, C!Absent, Torn, C!Torn, C!Link
<1>4. CASE File = C!Link /\ Error(400)
  <2>1. C!Pending(holder) /\ C!Fails(holder, 400) /\ C!Keep
    BY <1>1, <1>2, <1>4, ErrorMaps DEF C!Keep
  <2>2. C!Use(holder, Job)
    BY <1>3, <1>4, <2>1 DEF C!Use, C!Refused
  <2> QED BY <1>1, <1>2, <2>1, <2>2, UseMaps
<1>5. CASE File = Absent /\ Error(404)
  <2>1. C!Pending(holder) /\ C!Fails(holder, 404) /\ C!Keep
    BY <1>1, <1>2, <1>5, ErrorMaps DEF C!Keep
  <2>2. C!Use(holder, Job)
    BY <1>3, <1>5, <2>1 DEF C!Use, C!Refused, Absent, Torn
  <2> QED BY <1>1, <1>2, <2>1, <2>2, UseMaps
<1>6. CASE Goto("act")
  <2>1. UNCHANGED req /\ pc' = "act"
    BY <1>6 DEF Goto
  <2> QED BY <1>2, <2>1, EntriesAreFiles DEF C!vars, Entries, RInv, Kinds, Ids, C!Ids
<1> QED BY <1>4, <1>5, <1>6 DEF Check

LEMMA GetMaps == ASSUME RInv, RInv', Get PROVE C!Perform(holder)
<1>1. holder # "nobody" /\ holder \in Handlers /\ Job \in Jobs /\ Job.op \in Reads /\ pc = "act" /\ Job.id \in Ids
  BY Holder DEF RInv, LockHeld, Get, At, Reads, Jobs
<1>2. UNCHANGED <<shaken, Wiping, faults, files>> /\ Entries = files
  BY <1>1, EntriesAreFiles DEF Get, Rest, resetVars, Wiping
<1>3. File = Entries[Job.id] /\ File \in Contents
  BY <1>1, <1>2 DEF File, RInv, Kinds
<1>4. CASE File.kind = "whole"
  <2> DEFINE e == [File EXCEPT !.limited = Job.op = "get" \/ @]
  <2>1. C!Pending(holder) /\ C!Reply(holder, 200, e, {}) /\ C!Keep
    BY <1>1, <1>2, <1>4, AnswerMaps DEF Get, C!Keep
  <2>2. File \in C!Wholes
    BY <1>3, <1>4 DEF Contents, Absent, C!Absent, Torn, C!Torn, C!Link
  <2>3. e = C!Shown(Job, File)
    <3>1. CASE Job.op = "get"
      BY <2>2, <3>1 DEF C!Shown, C!Wholes
    <3>2. CASE Job.op # "get"
      <4>1. (Job.op = "get" \/ File.limited) = File.limited
        BY <2>2, <3>2 DEF C!Wholes
      <4>2. [File EXCEPT !.limited = File.limited] = File
        BY <2>2 DEF C!Wholes
      <4> QED BY <3>2, <4>1, <4>2 DEF C!Shown
    <3> QED BY <3>1, <3>2
  <2> HIDE DEF e
  <2>4. C!Use(holder, Job)
    BY <1>1, <1>3, <1>4, <2>1, <2>3 DEF C!Use, Reads
  <2> QED BY <1>1, <1>2, <2>1, <2>4, UseMaps
<1>5. CASE File.kind # "whole"
  <2>1. Error(500) /\ C!Pending(holder) /\ C!Fails(holder, 500) /\ C!Keep
    BY <1>1, <1>2, <1>5, ErrorMaps DEF Get, C!Keep
  <2>2. CASE File = Torn
    <3>1. C!Use(holder, Job)
      BY <1>1, <1>3, <2>1, <2>2 DEF C!Use, C!Refused, Torn, Reads
    <3> QED BY <1>1, <1>2, <2>1, <3>1, UseMaps
  <2>3. CASE holder \in shaken
    BY <1>1, <1>2, <2>1, <2>3, ShakenFails DEF C!Keep
  <2>4. File \in {Torn, Absent} /\ (File = Absent => holder \in shaken)
    BY <1>1, <1>3, <1>5 DEF Contents, C!Wholes, RInv, NotStale
  <2> QED BY <2>2, <2>3, <2>4
<1> QED BY <1>4, <1>5

LEMMA DeleteMaps == ASSUME RInv, RInv', Delete PROVE C!Perform(holder)
<1>1. holder # "nobody" /\ holder \in Handlers /\ Job \in Jobs /\ Job.op = "delete" /\ pc = "act" /\ Job.id \in Ids
  BY Holder DEF RInv, LockHeld, Delete, At, Jobs
<1>2. UNCHANGED <<shaken, Wiping, faults>> /\ Entries = files
  BY <1>1, EntriesAreFiles DEF Delete, Rest, resetVars, Wiping
<1>3. File = Entries[Job.id] /\ File # C!Link /\ files' = [files EXCEPT ![Job.id] = Absent]
  BY <1>1, <1>2 DEF File, RInv, NotStale, Delete, Store
<1>4. CASE File = Absent
  <2>1. files' = files /\ holder \in shaken
    BY <1>1, <1>2, <1>3, <1>4 DEF RInv, Kinds, NotStale
  <2>2. Error(500) /\ Entries' = Entries
    BY <1>1, <1>2, <1>4, <2>1, ErrorMaps DEF Delete
  <2> QED BY <1>1, <1>2, <2>1, <2>2, ShakenFails
<1>5. CASE File # Absent
  <2>1. C!Pending(holder) /\ C!Reply(holder, 200, Absent, {}) /\ C!Put(Job.id, Absent)
    BY <1>1, <1>2, <1>3, <1>5, ErrorMaps DEF Delete, C!Put, C!Fails, Absent
  <2>2. C!Use(holder, Job)
    BY <1>1, <1>3, <1>5, <2>1 DEF C!Use, Absent
  <2> QED BY <1>1, <1>2, <2>1, <2>2, UseMaps
<1> QED BY <1>4, <1>5
LEMMA ReadForUpdateMaps == ASSUME RInv, RInv', ReadForUpdate PROVE C!Perform(holder) \/ UNCHANGED C!vars
<1>1. holder # "nobody" /\ holder \in Handlers /\ Job.op \in Changes /\ pc = "act" /\ Job.id \in Ids
  BY Holder DEF RInv, LockHeld, ReadForUpdate, At, Jobs, Changes
<1>2. UNCHANGED <<shaken, Wiping, faults, files>> /\ Entries = files
  BY <1>1, EntriesAreFiles DEF ReadForUpdate, Rest, resetVars, Wiping
<1>3. File = Entries[Job.id] /\ File \in Contents
  BY <1>1, <1>2 DEF File, RInv, Kinds
<1>4. CASE File.kind # "whole" /\ Error(500)
  <2>1. C!Pending(holder) /\ C!Fails(holder, 500) /\ C!Keep
    BY <1>1, <1>2, <1>4, ErrorMaps DEF C!Keep
  <2>2. CASE File = Torn
    <3>1. C!Use(holder, Job)
      BY <1>1, <1>3, <2>1, <2>2 DEF C!Use, C!Refused, Torn, Changes
    <3> QED BY <1>1, <1>2, <2>1, <3>1, UseMaps
  <2>3. CASE holder \in shaken
    BY <1>1, <1>2, <1>4, <2>1, <2>3, ShakenFails DEF C!Keep
  <2>4. File \in {Torn, Absent} /\ (File = Absent => holder \in shaken)
    BY <1>1, <1>3, <1>4 DEF Contents, C!Wholes, RInv, NotStale
  <2> QED BY <2>2, <2>3, <2>4
<1>5. CASE Goto("replace")
  <2>1. UNCHANGED req /\ pc' = "replace"
    BY <1>5 DEF Goto
  <2> QED BY <1>2, <2>1, EntriesAreFiles DEF C!vars, Entries, RInv, Kinds, Ids, C!Ids
<1> QED BY <1>4, <1>5 DEF ReadForUpdate

LEMMA ReplaceMaps == ASSUME RInv, RInv', Replace PROVE C!Perform(holder)
<1>1. holder # "nobody" /\ holder \in Handlers /\ Job \in Jobs /\ Job.op \in Changes /\ pc = "replace" /\ Job.id \in Ids
  BY Holder DEF RInv, LockHeld, Replace, At, Jobs, Changes
<1>2. UNCHANGED <<shaken, Wiping, faults>> /\ Entries = files /\ File = Entries[Job.id] /\ seen \in C!Wholes
  BY <1>1, EntriesAreFiles DEF Replace, Rest, resetVars, Wiping, File, RInv, NotStale
<1>3. CASE holder \in shaken /\ Error(500) /\ UNCHANGED files
  BY <1>1, <1>2, <1>3, ErrorMaps, ShakenFails
<1>4. CASE Store(Job.id, Updated) /\ Error(200)
  <2>1. C!Pending(holder) /\ C!Reply(holder, 200, Absent, {}) /\ C!Put(Job.id, Updated)
    BY <1>1, <1>2, <1>4, ErrorMaps DEF C!Put, C!Fails, Absent, Store
  <2>2. CASE holder \in shaken
    <3>1. Updated \in C!Wholes
      BY <1>1, <1>2 DEF Updated, Content, C!Wholes, Jobs
    <3> QED BY <1>1, <1>2, <2>1, <2>2, <3>1 DEF C!Perform, C!Shaken, Job, Changes, Absent
  <2>3. CASE holder \notin shaken
    <3>1. seen = Entries[Job.id] /\ seen.kind = "whole"
      BY <1>1, <1>2, <2>3 DEF RInv, NotStale, C!Wholes
    <3>2. CASE Job.op = "switch"
      <4>1. Updated = C!Switched(Job, seen)
        BY <3>2 DEF Updated, C!Switched
      <4>2. C!Use(holder, Job)
        BY <2>1, <3>1, <3>2, <4>1 DEF C!Use, Absent
      <4> QED BY <1>1, <1>2, <2>1, <4>2, UseMaps
    <3>3. CASE Job.op = "edit"
      <4>1. Updated = C!Edited(holder, Job, seen)
        BY <1>1, <1>2, <3>3 DEF Updated, Content, C!Edited
      <4>2. C!Use(holder, Job)
        BY <2>1, <3>1, <3>3, <4>1 DEF C!Use, Absent
      <4> QED BY <1>1, <1>2, <2>1, <4>2, UseMaps
    <3> QED BY <1>1, <3>2, <3>3 DEF Changes
  <2> QED BY <2>2, <2>3
<1> QED BY <1>3, <1>4 DEF Replace

LEMMA DiskFullMaps == ASSUME RInv, RInv', DiskFull PROVE C!DiskFull(holder)
<1>1. holder # "nobody" /\ holder \in Handlers /\ Job \in Jobs /\ Target \in Ids
  BY Holder DEF RInv, LockHeld, DiskFull
<1>2. UNCHANGED <<shaken, Wiping, files>> /\ faults' = faults + 1
  BY DEF DiskFull, Rest, resetVars, Wiping
<1>3. C!Pending(holder) /\ C!Fails(holder, 500) /\ Entries' = files
  BY <1>1, <1>2, ErrorMaps DEF DiskFull
<1>4. CASE pc = "replace"
  BY <1>2, <1>3, <1>4, EntriesAreFiles DEF C!DiskFull, C!Keep
<1>5. CASE pc = "write"
  <2>1. files[Target] \in {Torn, Absent}
    BY <1>5 DEF RInv, NotStale
  <2>2. Entries = [files EXCEPT ![Target] = Absent] /\ C!MayTear(holder, Target)
    BY <1>5, Hidden
  <2>3. CASE files[Target] = Absent
    <3>1. Entries' = Entries
      BY <1>1, <1>3, <2>2, <2>3 DEF RInv, Kinds
    <3> QED BY <1>2, <1>3, <3>1 DEF C!DiskFull, C!Keep
  <2>4. CASE files[Target] = Torn
    <3>1. C!Put(Target, C!Torn)
      BY <1>1, <1>3, <2>2, <2>4 DEF C!Put, Torn, RInv, Kinds
    <3> QED BY <1>1, <1>2, <1>3, <2>2, <3>1 DEF C!DiskFull, Ids
  <2> QED BY <2>1, <2>3, <2>4
<1> QED BY <1>4, <1>5 DEF DiskFull

LEMMA ListMaps == ASSUME RInv, RInv', Glob \/ ReadNext \/ ListDone PROVE C!Perform(holder) \/ UNCHANGED C!vars
<1>1. holder # "nobody" /\ holder \in Handlers /\ Job \in Jobs /\ Job.op = "list" /\ pc # "write"
  BY Holder DEF RInv, LockHeld, Glob, ReadNext, ListDone, At
<1>2. UNCHANGED <<shaken, Wiping, faults, files>> /\ Entries = files
  BY <1>1, EntriesAreFiles DEF Glob, ReadNext, ListDone, Rest, resetVars, Wiping
<1>3. CASE Goto("read")
  <2>1. UNCHANGED req /\ pc' = "read"
    BY <1>3 DEF Goto
  <2> QED BY <1>2, <2>1, EntriesAreFiles DEF C!vars, Entries, RInv, Kinds, Ids, C!Ids
<1>4. CASE ReadNext
  <2> DEFINE id == CHOOSE i \in left : \A k \in left : i <= k
  <2>1. id \in left /\ pc = "read"
    BY <1>4, LeastLeft DEF ReadNext, At
  <2>2. CASE files[id] = Absent
    <3>1. holder \in shaken
      BY <1>1, <2>1, <2>2 DEF RInv, Kinds, NotStale
    <3>2. Error(500)
      BY <1>4, <2>2 DEF ReadNext
    <3> QED BY <1>1, <1>2, <3>1, <3>2, ErrorMaps, ShakenFails
  <2>3. CASE files[id] # Absent
    BY <1>3, <1>4, <2>3 DEF ReadNext
  <2> QED BY <2>2, <2>3
<1>5. CASE ListDone
  <2>1. C!Pending(holder) /\ C!Reply(holder, 200, Absent, listed) /\ C!Keep
    BY <1>1, <1>2, <1>5, AnswerMaps DEF ListDone, C!Keep
  <2>2. CASE holder \in shaken
    BY <1>1, <1>2, <2>1, <2>2 DEF C!Perform, C!Shaken, Job, Absent, Ids, RInv, Kinds
  <2>3. CASE holder \notin shaken
    <3>1. listed = {i \in Ids : Entries[i].kind = "whole"}
      BY <1>1, <1>2, <1>5, <2>3 DEF ListDone, At, RInv, Kinds, NotStale
    <3> QED BY <1>1, <1>2, <2>1, <3>1 DEF C!Perform, C!List, Job, Absent, Ids
  <2> QED BY <2>2, <2>3
<1> QED BY <1>3, <1>4, <1>5 DEF Glob
LEMMA WipeMaps ==
  ASSUME RInv, RInv', ResetProblems
  PROVE  C!WipeBegin \/ C!Wipe \/ C!WipeEnd \/ UNCHANGED C!vars
<1>1. UNCHANGED <<req, pc, faults, Target>>
  BY DEF ResetProblems, WipeScan, WipeUnlink, WipeRmdir, WipeMkdir, cs, Target, Job
<1>2. CASE WipeScan
  <2>1. UNCHANGED Entries
    BY <1>1, <1>2 DEF WipeScan, Entries
  <2>2. ~Wiping /\ Wiping'
    BY <1>2 DEF WipeScan, Wiping
  <2>3. shaken' = shaken \cup {h \in Handlers : C!Pending(h)}
    BY <1>2 DEF WipeScan, C!Pending
  <2> QED BY <1>1, <2>1, <2>2, <2>3 DEF C!WipeBegin
<1>3. CASE WipeUnlink
  <2> PICK id \in victims : files' = [files EXCEPT ![id] = Absent]
    BY <1>3 DEF WipeUnlink, Store
  <2>1. id \in Ids /\ files \in [Ids -> Contents]
    BY DEF RInv, Kinds
  <2>2. Wiping /\ UNCHANGED <<shaken, Wiping>>
    BY <1>3 DEF WipeUnlink, Wiping
  <2>3. Entries' = [Entries EXCEPT ![id] = Absent]
    <3>1. CASE pc = "write"
      <4>1. Target \in Ids /\ Entries = [files EXCEPT ![Target] = Absent] /\ Entries' = [files' EXCEPT ![Target] = Absent]
        <5>1. files'[Target] \in {Torn, Absent} /\ files' \in [Ids -> Contents] /\ pc' = "write"
          BY <1>1, <3>1 DEF RInv, NotStale, Kinds
        <5>2. Torn.kind = "torn" /\ Absent = [kind |-> "absent"]
          BY DEF Torn, C!Torn, Absent, C!Absent
        <5>3. Entries' = [files' EXCEPT ![Target] = Absent]
          BY <1>1, <5>1, <5>2 DEF Entries, Ids, C!Ids
        <5> QED BY <3>1, <5>3, Hidden
      <4> QED BY <2>1, <4>1
    <3>2. CASE pc # "write"
      BY <1>1, <2>1, <3>2, EntriesAreFiles, FilesNext
    <3> QED BY <3>1, <3>2
  <2> QED BY <1>1, <2>1, <2>2, <2>3 DEF C!Wipe, C!Put, Absent, Ids
<1>4. CASE WipeRmdir
  <2>1. UNCHANGED <<Entries, shaken, Wiping>>
    BY <1>1, <1>4 DEF WipeRmdir, Entries, Wiping
  <2> QED BY <1>1, <2>1 DEF C!vars
<1>5. CASE WipeMkdir
  <2>1. UNCHANGED <<Entries, shaken>> /\ Wiping /\ ~Wiping'
    BY <1>1, <1>5 DEF WipeMkdir, Entries, Wiping
  <2> QED BY <1>1, <2>1 DEF C!WipeEnd
<1> QED BY <1>2, <1>3, <1>4, <1>5 DEF ResetProblems

LEMMA CrashMaps == ASSUME RInv, RInv', Crash PROVE C!Crash
<1>1. req' = [h \in Handlers |-> IF C!Pending(h) THEN C!Lost ELSE req[h]]
  BY DEF Crash, C!Pending
<1>2. UNCHANGED <<files, shaken, faults>> /\ ~Wiping' /\ pc' = "out"
  BY DEF Crash, Wiping
<1>3. Entries' = files
  BY <1>2, FilesNext
<1>4. C!Keep \/ \E h \in Handlers, id \in C!Ids : C!MayTear(h, id) /\ C!Put(id, C!Torn)
  <2>1. CASE pc = "write"
    <3>1. files[Target] \in {Torn, Absent} /\ files \in [Ids -> Contents] /\ Target \in Ids
          /\ Entries = [files EXCEPT ![Target] = Absent]
      BY <2>1, Hidden DEF RInv, NotStale, Kinds
    <3>2. CASE files[Target] = Absent
      BY <1>3, <3>1, <3>2 DEF C!Keep
    <3>3. CASE files[Target] = Torn
      <4>1. C!Put(Target, C!Torn)
        BY <1>3, <3>1, <3>3 DEF C!Put, Torn
      <4> QED BY <2>1, <4>1, Hidden DEF Ids
    <3> QED BY <3>1, <3>2, <3>3
  <2>2. CASE pc # "write"
    BY <1>3, <2>2, EntriesAreFiles DEF C!Keep
  <2> QED BY <2>1, <2>2
<1> QED BY <1>1, <1>2, <1>4 DEF C!Crash

\* Every step is a step of the catalogue or leaves it alone.
LEMMA StepMaps == RInv /\ RInv' /\ [StorageNext]_allVars => [C!Next]_C!vars
<1> SUFFICES ASSUME RInv, RInv', [StorageNext]_allVars PROVE C!Next \/ UNCHANGED C!vars
  OBVIOUS
<1>1. CASE \E h \in Handlers : Call(h)
  BY <1>1, CallMaps DEF C!Next
<1>2. CASE \E h \in Handlers : Enter(h)
  <2>1. UNCHANGED <<files, req, shaken, Wiping, faults>> /\ pc = "out" /\ pc' = "check"
    BY <1>2 DEF Enter, resetVars, Wiping, RInv, LockHeld
  <2> QED BY <2>1, EntriesAreFiles, FilesNext DEF C!vars
<1>3. CASE Operation
  <2>1. holder \in Handlers
    BY <1>3, Holder DEF Operation, RInv, LockHeld, At, Open, Occupied, Write, Check, Get, Delete,
                        ReadForUpdate, Replace, Glob, ReadNext, ListDone
  <2>2. C!Perform(holder) \/ UNCHANGED C!vars
    BY <1>3, OpenMaps, OccupiedMaps, WriteMaps, CheckMaps, GetMaps, DeleteMaps, ReadForUpdateMaps, ReplaceMaps, ListMaps
       DEF Operation
  <2> QED BY <2>1, <2>2 DEF C!Next
<1>4. CASE DiskFull
  <2>1. holder \in Handlers
    BY <1>4, Holder DEF DiskFull, RInv, LockHeld
  <2> QED BY <1>4, <2>1, DiskFullMaps DEF C!Next
<1>5. CASE ResetProblems
  BY <1>5, WipeMaps DEF C!Next
<1>6. CASE Crash
  BY <1>6, CrashMaps DEF C!Next
<1>7. CASE UNCHANGED vars
  BY <1>7 DEF vars, cs, resetVars, C!vars, Entries, Target, Job, Wiping
<1> QED BY <1>1, <1>2, <1>3, <1>4, <1>5, <1>6, <1>7
    DEF StorageNext, CallProblems, CallConfig, Problems, Config, ResetConfig, CrashAll, allVars

\* Every answer of the problem store is the answer of the catalogue at one moment
\* of the call, and no reset, disk error or crash does more to the files than the
\* catalogue allows: for any number of ids, calls, disk errors and crashes.
THEOREM StoreIsCatalogue == StorageSpec => ImplementsCatalogue
<1>1. StorageSpec => []RInv
  BY RInvInitially, RInvInductive, PTL DEF StorageSpec
<1>2. StorageInit => C!Init
  BY InitMaps
<1>3. RInv /\ RInv' /\ [StorageNext]_allVars => [C!Next]_C!vars
  BY StepMaps
<1> QED BY <1>1, <1>2, <1>3, PTL DEF StorageSpec, ImplementsCatalogue, C!Spec

-----------------------------------------------------------------------------
(* The model configuration and its key *)

Keys == Handlers \cup {"none", "torn"}
Configs == [by : Handlers \cup {"nobody"}, key : Keys]
Calls == {[at |-> "idle"], [at |-> "lost"], [at |-> "failed"]}
         \cup [at : {"pending"}, op : {"save", "load"}]
         \cup [at : {"done"}, code : {200, 500}, value : Configs]
Stages == {"config", "read", "key", "readkey", "write", "crypt", "chmod"}

\* Every variable keeps its kind.
ConfigKinds ==
  /\ config \in Configs /\ key \in Keys
  /\ call \in [Handlers -> Calls]
  /\ step \in Stages \cup {"out"} /\ owner \in Handlers \cup {"nobody"}
  /\ inHand \in [config : Configs, key : Keys]
  /\ clear \in {"off", "config", "done"} /\ raced \in BOOLEAN
  /\ crashes \in Nat

\* The lock is held by a call that waits for its answer, at a step of its kind.
ConfigLock ==
  /\ owner = "nobody" <=> step = "out"
  /\ owner # "nobody" =>
       /\ call[owner].at = "pending"
       /\ step \in {"config", "read"} => call[owner].op = "load"
       /\ step = "chmod" => call[owner].op = "save"

\* The reset comes to the configuration only when it has left the problems, and
\* nothing is raced before it does.
ResetOrder ==
  /\ wipe \in {"off", "unlink", "mkdir", "done"}
  /\ clear # "off" => wipe = "done"
  /\ raced => clear # "off"

\* What is stored fits together, and so does what a save has in hand; while the
\* reset stands between the two files no save is under way.
Fits ==
  ~raced =>
    /\ config # A!None => config.key \in Handlers /\ key = config.key
    /\ clear = "config" => config = A!None /\ \A h \in Handlers : ~A!Saving(h)
    /\ owner # "nobody" /\ call[owner].op = "save" =>
         /\ step = "write" => key = "torn"
         /\ step = "readkey" => key # "none"
         /\ step = "crypt" => inHand.key # "none" /\ key = inHand.key

\* Whoever may have left the key half written.
HalfWritten == key = "torn" => step = "write" \/ crashes > 0 \/ \E h \in Handlers : call[h].at = "failed"

\* In the first life of the process, before the reset, a call holds what is
\* stored, and calls fail only on a key that nobody is going to write.
FirstLife ==
  clear = "off" /\ crashes = 0 =>
    /\ step = "write" => key = "torn"
    /\ step = "readkey" => key # "none"
    /\ step = "crypt" => key = inHand.key
    /\ step \in {"read", "chmod"} => config # A!None
    /\ owner # "nobody" /\ call[owner].op = "load" /\ step \in {"key", "readkey", "write", "crypt"} =>
         config # A!None /\ inHand.config = config
    /\ \A h \in Handlers : call[h].at = "done" /\ call[h].code = 500 => key = "torn" /\ step # "write"

ConfigInv == ConfigKinds /\ ConfigLock /\ ResetOrder /\ Fits /\ HalfWritten /\ FirstLife

-----------------------------------------------------------------------------

\* A step on the configuration: a call, the reset or the crash.
ConfigStep ==
  \/ \E h \in Handlers : A!Begin(h)
  \/ \E h \in Handlers : A!Lock(h)
  \/ A!Serve
  \/ A!DiskError
  \/ wipe = "done" /\ (A!ClearConfig \/ A!ClearKey)

LEMMA NoneIsConfig == A!None \in Configs
BY DEF A!None, Configs, Keys

LEMMA OwnerCalls == ConfigKinds /\ ConfigLock /\ step # "out" => owner \in Handlers
BY DEF ConfigKinds, ConfigLock

LEMMA KindsStep == ConfigInv /\ ((ConfigStep /\ UNCHANGED vars) \/ CrashAll) => ConfigKinds'
<1> SUFFICES ASSUME ConfigInv, (ConfigStep /\ UNCHANGED vars) \/ CrashAll PROVE ConfigKinds'
  OBVIOUS
<1> USE StoreAssumption, NoneIsConfig, OwnerCalls DEF ConfigInv, ConfigKinds, ConfigLock, Configs, Keys, Calls, Stages
<1>1. CASE (\E h \in Handlers : A!Begin(h)) /\ UNCHANGED vars
  BY <1>1 DEF A!Begin, A!Idle, A!Resetting, A!inCall, vars, resetVars, cs
<1>2. CASE (\E h \in Handlers : A!Lock(h)) /\ UNCHANGED vars
  BY <1>2 DEF A!Lock, A!Waits, vars, resetVars, cs
<1>3. CASE A!FindConfig /\ UNCHANGED vars
  BY <1>3 DEF A!FindConfig, A!Answer, A!Leave, A!Go, A!None, A!NoKey, vars, resetVars, cs
<1>4. CASE A!ReadConfig /\ UNCHANGED vars
  BY <1>4 DEF A!ReadConfig, A!Answer, A!Leave, A!Go, A!None, A!NoKey, vars, resetVars, cs
<1>5. CASE A!FindKey /\ UNCHANGED vars
  BY <1>5 DEF A!FindKey, A!Go, A!NoKey, A!TornKey, vars, resetVars, cs
<1>6. CASE A!ReadKey /\ UNCHANGED vars
  BY <1>6 DEF A!ReadKey, A!Answer, A!Leave, A!Go, A!None, A!NoKey, vars, resetVars, cs
<1>7. CASE A!WriteKey /\ UNCHANGED vars
  BY <1>7 DEF A!WriteKey, A!Go, A!TornKey, vars, resetVars, cs
<1>8. CASE A!Decrypt /\ UNCHANGED vars
  BY <1>8 DEF A!Decrypt, A!Answer, A!Leave, A!Op, A!None, A!NoKey, vars, resetVars, cs
<1>9. CASE A!Save /\ UNCHANGED vars
  BY <1>9 DEF A!Save, A!Answer, A!Leave, A!Go, A!Op, A!None, A!NoKey, A!TornKey, vars, resetVars, cs
<1>10. CASE A!Chmod /\ UNCHANGED vars
  BY <1>10 DEF A!Chmod, A!Answer, A!Leave, A!None, A!NoKey, vars, resetVars, cs
<1>11. CASE wipe = "done" /\ A!ClearConfig /\ UNCHANGED vars
  BY <1>11 DEF A!ClearConfig, A!inCall, A!None, A!Saving, vars, resetVars, cs
<1>12. CASE wipe = "done" /\ A!ClearKey /\ UNCHANGED vars
  BY <1>12 DEF A!ClearKey, A!inCall, A!NoKey, vars, resetVars, cs
<1>13. CASE CrashAll
  BY <1>13 DEF CrashAll, Crash, Wiping, A!Die, A!Waits, A!None, A!NoKey, vars, resetVars, cs
<1>14. CASE A!DiskError /\ UNCHANGED vars
  BY <1>14 DEF A!DiskError, A!Leave, A!None, A!NoKey, vars, resetVars, cs
<1> QED BY <1>1, <1>2, <1>3, <1>4, <1>5, <1>6, <1>7, <1>8, <1>9, <1>10, <1>11, <1>12, <1>13, <1>14 DEF ConfigStep, A!Serve

LEMMA LockStep == ConfigInv /\ ((ConfigStep /\ UNCHANGED vars) \/ CrashAll) => ConfigLock'
<1> SUFFICES ASSUME ConfigInv, (ConfigStep /\ UNCHANGED vars) \/ CrashAll PROVE ConfigLock'
  OBVIOUS
<1> USE StoreAssumption, NoneIsConfig, OwnerCalls DEF ConfigInv, ConfigKinds, ConfigLock, Calls, Stages
<1>1. CASE (\E h \in Handlers : A!Begin(h)) /\ UNCHANGED vars
  BY <1>1 DEF A!Begin, A!Idle, A!Resetting, A!inCall, vars, resetVars, cs
<1>2. CASE (\E h \in Handlers : A!Lock(h)) /\ UNCHANGED vars
  BY <1>2 DEF A!Lock, A!Waits, vars, resetVars, cs
<1>3. CASE A!FindConfig /\ UNCHANGED vars
  BY <1>3 DEF A!FindConfig, A!Answer, A!Leave, A!Go, A!None, A!NoKey, vars, resetVars, cs
<1>4. CASE A!ReadConfig /\ UNCHANGED vars
  BY <1>4 DEF A!ReadConfig, A!Answer, A!Leave, A!Go, A!None, A!NoKey, vars, resetVars, cs
<1>5. CASE A!FindKey /\ UNCHANGED vars
  BY <1>5 DEF A!FindKey, A!Go, A!NoKey, A!TornKey, vars, resetVars, cs
<1>6. CASE A!ReadKey /\ UNCHANGED vars
  BY <1>6 DEF A!ReadKey, A!Answer, A!Leave, A!Go, A!None, A!NoKey, vars, resetVars, cs
<1>7. CASE A!WriteKey /\ UNCHANGED vars
  BY <1>7 DEF A!WriteKey, A!Go, A!TornKey, vars, resetVars, cs
<1>8. CASE A!Decrypt /\ UNCHANGED vars
  BY <1>8 DEF A!Decrypt, A!Answer, A!Leave, A!Op, A!None, A!NoKey, vars, resetVars, cs
<1>9. CASE A!Save /\ UNCHANGED vars
  BY <1>9 DEF A!Save, A!Answer, A!Leave, A!Go, A!Op, A!None, A!NoKey, A!TornKey, vars, resetVars, cs
<1>10. CASE A!Chmod /\ UNCHANGED vars
  BY <1>10 DEF A!Chmod, A!Answer, A!Leave, A!None, A!NoKey, vars, resetVars, cs
<1>11. CASE wipe = "done" /\ A!ClearConfig /\ UNCHANGED vars
  BY <1>11 DEF A!ClearConfig, A!inCall, A!None, A!Saving, vars, resetVars, cs
<1>12. CASE wipe = "done" /\ A!ClearKey /\ UNCHANGED vars
  BY <1>12 DEF A!ClearKey, A!inCall, A!NoKey, vars, resetVars, cs
<1>13. CASE CrashAll
  BY <1>13 DEF CrashAll, Crash, Wiping, A!Die, A!Waits, A!None, A!NoKey, vars, resetVars, cs
<1>14. CASE A!DiskError /\ UNCHANGED vars
  BY <1>14 DEF A!DiskError, A!Leave, A!None, A!NoKey, vars, resetVars, cs
<1> QED BY <1>1, <1>2, <1>3, <1>4, <1>5, <1>6, <1>7, <1>8, <1>9, <1>10, <1>11, <1>12, <1>13, <1>14 DEF ConfigStep, A!Serve

LEMMA OrderStep == ConfigInv /\ ((ConfigStep /\ UNCHANGED vars) \/ CrashAll) => ResetOrder'
<1> SUFFICES ASSUME ConfigInv, (ConfigStep /\ UNCHANGED vars) \/ CrashAll PROVE ResetOrder'
  OBVIOUS
<1> USE StoreAssumption, NoneIsConfig, OwnerCalls DEF ConfigInv, ConfigKinds, ResetOrder
<1>1. CASE (\E h \in Handlers : A!Begin(h)) /\ UNCHANGED vars
  BY <1>1 DEF A!Begin, A!Idle, A!Resetting, A!inCall, vars, resetVars, cs
<1>2. CASE (\E h \in Handlers : A!Lock(h)) /\ UNCHANGED vars
  BY <1>2 DEF A!Lock, A!Waits, vars, resetVars, cs
<1>3. CASE A!FindConfig /\ UNCHANGED vars
  BY <1>3 DEF A!FindConfig, A!Answer, A!Leave, A!Go, A!None, A!NoKey, vars, resetVars, cs
<1>4. CASE A!ReadConfig /\ UNCHANGED vars
  BY <1>4 DEF A!ReadConfig, A!Answer, A!Leave, A!Go, A!None, A!NoKey, vars, resetVars, cs
<1>5. CASE A!FindKey /\ UNCHANGED vars
  BY <1>5 DEF A!FindKey, A!Go, A!NoKey, A!TornKey, vars, resetVars, cs
<1>6. CASE A!ReadKey /\ UNCHANGED vars
  BY <1>6 DEF A!ReadKey, A!Answer, A!Leave, A!Go, A!None, A!NoKey, vars, resetVars, cs
<1>7. CASE A!WriteKey /\ UNCHANGED vars
  BY <1>7 DEF A!WriteKey, A!Go, A!TornKey, vars, resetVars, cs
<1>8. CASE A!Decrypt /\ UNCHANGED vars
  BY <1>8 DEF A!Decrypt, A!Answer, A!Leave, A!Op, A!None, A!NoKey, vars, resetVars, cs
<1>9. CASE A!Save /\ UNCHANGED vars
  BY <1>9 DEF A!Save, A!Answer, A!Leave, A!Go, A!Op, A!None, A!NoKey, A!TornKey, vars, resetVars, cs
<1>10. CASE A!Chmod /\ UNCHANGED vars
  BY <1>10 DEF A!Chmod, A!Answer, A!Leave, A!None, A!NoKey, vars, resetVars, cs
<1>11. CASE wipe = "done" /\ A!ClearConfig /\ UNCHANGED vars
  BY <1>11 DEF A!ClearConfig, A!inCall, A!None, A!Saving, vars, resetVars, cs
<1>12. CASE wipe = "done" /\ A!ClearKey /\ UNCHANGED vars
  BY <1>12 DEF A!ClearKey, A!inCall, A!NoKey, vars, resetVars, cs
<1>13. CASE CrashAll
  BY <1>13 DEF CrashAll, Crash, Wiping, A!Die, A!Waits, A!None, A!NoKey, vars, resetVars, cs
<1>14. CASE A!DiskError /\ UNCHANGED vars
  BY <1>14 DEF A!DiskError, A!Leave, A!None, A!NoKey, vars, resetVars, cs
<1> QED BY <1>1, <1>2, <1>3, <1>4, <1>5, <1>6, <1>7, <1>8, <1>9, <1>10, <1>11, <1>12, <1>13, <1>14 DEF ConfigStep, A!Serve

LEMMA HalfWrittenStep == ConfigInv /\ ((ConfigStep /\ UNCHANGED vars) \/ CrashAll) => HalfWritten'
<1> SUFFICES ASSUME ConfigInv, (ConfigStep /\ UNCHANGED vars) \/ CrashAll PROVE HalfWritten'
  OBVIOUS
<1> USE StoreAssumption, NoneIsConfig, OwnerCalls DEF ConfigInv, ConfigKinds, ConfigLock, HalfWritten, Calls, Keys
<1>1. CASE (\E h \in Handlers : A!Begin(h)) /\ UNCHANGED vars
  BY <1>1 DEF A!Begin, A!Idle, A!Resetting, A!inCall, vars, resetVars, cs
<1>2. CASE (\E h \in Handlers : A!Lock(h)) /\ UNCHANGED vars
  BY <1>2 DEF A!Lock, A!Waits, vars, resetVars, cs
<1>3. CASE A!FindConfig /\ UNCHANGED vars
  BY <1>3 DEF A!FindConfig, A!Answer, A!Leave, A!Go, A!None, A!NoKey, vars, resetVars, cs
<1>4. CASE A!ReadConfig /\ UNCHANGED vars
  BY <1>4 DEF A!ReadConfig, A!Answer, A!Leave, A!Go, A!None, A!NoKey, vars, resetVars, cs
<1>5. CASE A!FindKey /\ UNCHANGED vars
  BY <1>5 DEF A!FindKey, A!Go, A!NoKey, A!TornKey, vars, resetVars, cs
<1>6. CASE A!ReadKey /\ UNCHANGED vars
  BY <1>6 DEF A!ReadKey, A!Answer, A!Leave, A!Go, A!None, A!NoKey, vars, resetVars, cs
<1>7. CASE A!WriteKey /\ UNCHANGED vars
  BY <1>7 DEF A!WriteKey, A!Go, A!TornKey, vars, resetVars, cs
<1>8. CASE A!Decrypt /\ UNCHANGED vars
  BY <1>8 DEF A!Decrypt, A!Answer, A!Leave, A!Op, A!None, A!NoKey, vars, resetVars, cs
<1>9. CASE A!Save /\ UNCHANGED vars
  BY <1>9 DEF A!Save, A!Answer, A!Leave, A!Go, A!Op, A!None, A!NoKey, A!TornKey, vars, resetVars, cs
<1>10. CASE A!Chmod /\ UNCHANGED vars
  BY <1>10 DEF A!Chmod, A!Answer, A!Leave, A!None, A!NoKey, vars, resetVars, cs
<1>11. CASE wipe = "done" /\ A!ClearConfig /\ UNCHANGED vars
  BY <1>11 DEF A!ClearConfig, A!inCall, A!None, A!Saving, vars, resetVars, cs
<1>12. CASE wipe = "done" /\ A!ClearKey /\ UNCHANGED vars
  BY <1>12 DEF A!ClearKey, A!inCall, A!NoKey, vars, resetVars, cs
<1>13. CASE CrashAll
  BY <1>13 DEF CrashAll, Crash, Wiping, A!Die, A!Waits, A!None, A!NoKey, vars, resetVars, cs
<1>14. CASE A!DiskError /\ UNCHANGED vars
  BY <1>14 DEF A!DiskError, A!Leave, A!None, A!NoKey, vars, resetVars, cs
<1> QED BY <1>1, <1>2, <1>3, <1>4, <1>5, <1>6, <1>7, <1>8, <1>9, <1>10, <1>11, <1>12, <1>13, <1>14 DEF ConfigStep, A!Serve

LEMMA FitsStep == ConfigInv /\ ((ConfigStep /\ UNCHANGED vars) \/ CrashAll) => Fits'
<1> SUFFICES ASSUME ConfigInv, (ConfigStep /\ UNCHANGED vars) \/ CrashAll PROVE Fits'
  OBVIOUS
<1> USE StoreAssumption, NoneIsConfig, OwnerCalls DEF ConfigInv, ConfigKinds, ConfigLock, ResetOrder, Fits, Calls, Configs, Keys, A!Saving, A!Waits
<1>1. CASE (\E h \in Handlers : A!Begin(h)) /\ UNCHANGED vars
  <2> PICK h \in Handlers : A!Begin(h)
    BY <1>1
  <2> PICK op \in {"save", "load"} :
         /\ call[h] = A!Idle
         /\ call' = [call EXCEPT ![h] = [at |-> "pending", op |-> op]]
         /\ raced' = (raced \/ (clear = "config" /\ op = "save"))
         /\ UNCHANGED <<config, key, step, owner, inHand, clear>>
    BY DEF A!Begin, A!Resetting, A!inCall
  <2>1. owner # "nobody" => owner # h /\ call'[owner] = call[owner]
    BY DEF A!Idle
  <2>2. \A c \in Handlers : c # h => call'[c] = call[c]
    OBVIOUS
  <2>3. ~raced' /\ clear = "config" => ~A!Saving(h)'
    OBVIOUS
  <2> QED BY <2>1, <2>2, <2>3
<1>2. CASE (\E h \in Handlers : A!Lock(h)) /\ UNCHANGED vars
  BY <1>2 DEF A!Lock, A!Waits, vars, resetVars, cs
<1>3. CASE A!FindConfig /\ UNCHANGED vars
  BY <1>3 DEF A!FindConfig, A!Answer, A!Leave, A!Go, A!None, A!NoKey, vars, resetVars, cs
<1>4. CASE A!ReadConfig /\ UNCHANGED vars
  BY <1>4 DEF A!ReadConfig, A!Answer, A!Leave, A!Go, A!None, A!NoKey, vars, resetVars, cs
<1>5. CASE A!FindKey /\ UNCHANGED vars
  BY <1>5 DEF A!FindKey, A!Go, A!NoKey, A!TornKey, vars, resetVars, cs
<1>6. CASE A!ReadKey /\ UNCHANGED vars
  BY <1>6 DEF A!ReadKey, A!Answer, A!Leave, A!Go, A!None, A!NoKey, vars, resetVars, cs
<1>7. CASE A!WriteKey /\ UNCHANGED vars
  BY <1>7 DEF A!WriteKey, A!Go, A!TornKey, vars, resetVars, cs
<1>8. CASE A!Decrypt /\ UNCHANGED vars
  BY <1>8 DEF A!Decrypt, A!Answer, A!Leave, A!Op, A!None, A!NoKey, vars, resetVars, cs
<1>9. CASE A!Save /\ UNCHANGED vars
  BY <1>9 DEF A!Save, A!Answer, A!Leave, A!Go, A!Op, A!None, A!NoKey, A!TornKey, vars, resetVars, cs
<1>10. CASE A!Chmod /\ UNCHANGED vars
  BY <1>10 DEF A!Chmod, A!Answer, A!Leave, A!None, A!NoKey, vars, resetVars, cs
<1>11. CASE wipe = "done" /\ A!ClearConfig /\ UNCHANGED vars
  BY <1>11 DEF A!ClearConfig, A!inCall, A!None, A!Saving, vars, resetVars, cs
<1>12. CASE wipe = "done" /\ A!ClearKey /\ UNCHANGED vars
  BY <1>12 DEF A!ClearKey, A!inCall, A!NoKey, vars, resetVars, cs
<1>13. CASE CrashAll
  BY <1>13 DEF CrashAll, Crash, Wiping, A!Die, A!Waits, A!None, A!NoKey, vars, resetVars, cs
<1>14. CASE A!DiskError /\ UNCHANGED vars
  BY <1>14 DEF A!DiskError, A!Leave, A!None, A!NoKey, vars, resetVars, cs
<1> QED BY <1>1, <1>2, <1>3, <1>4, <1>5, <1>6, <1>7, <1>8, <1>9, <1>10, <1>11, <1>12, <1>13, <1>14 DEF ConfigStep, A!Serve

LEMMA FirstLifeStep == ConfigInv /\ ((ConfigStep /\ UNCHANGED vars) \/ CrashAll) => FirstLife'
<1> SUFFICES ASSUME ConfigInv, (ConfigStep /\ UNCHANGED vars) \/ CrashAll PROVE FirstLife'
  OBVIOUS
<1> USE StoreAssumption, NoneIsConfig, OwnerCalls DEF ConfigInv, ConfigKinds, ConfigLock, ResetOrder, Fits, FirstLife, Calls, Configs, Keys
<1>1. CASE (\E h \in Handlers : A!Begin(h)) /\ UNCHANGED vars
  BY <1>1 DEF A!Begin, A!Idle, A!Resetting, A!inCall, vars, resetVars, cs
<1>2. CASE (\E h \in Handlers : A!Lock(h)) /\ UNCHANGED vars
  BY <1>2 DEF A!Lock, A!Waits, vars, resetVars, cs
<1>3. CASE A!FindConfig /\ UNCHANGED vars
  BY <1>3 DEF A!FindConfig, A!Answer, A!Leave, A!Go, A!None, A!NoKey, vars, resetVars, cs
<1>4. CASE A!ReadConfig /\ UNCHANGED vars
  BY <1>4 DEF A!ReadConfig, A!Answer, A!Leave, A!Go, A!None, A!NoKey, vars, resetVars, cs
<1>5. CASE A!FindKey /\ UNCHANGED vars
  BY <1>5 DEF A!FindKey, A!Go, A!NoKey, A!TornKey, vars, resetVars, cs
<1>6. CASE A!ReadKey /\ UNCHANGED vars
  BY <1>6 DEF A!ReadKey, A!Answer, A!Leave, A!Go, A!None, A!NoKey, vars, resetVars, cs
<1>7. CASE A!WriteKey /\ UNCHANGED vars
  BY <1>7 DEF A!WriteKey, A!Go, A!TornKey, vars, resetVars, cs
<1>8. CASE A!Decrypt /\ UNCHANGED vars
  BY <1>8 DEF A!Decrypt, A!Answer, A!Leave, A!Op, A!None, A!NoKey, vars, resetVars, cs
<1>9. CASE A!Save /\ UNCHANGED vars
  BY <1>9 DEF A!Save, A!Answer, A!Leave, A!Go, A!Op, A!None, A!NoKey, A!TornKey, vars, resetVars, cs
<1>10. CASE A!Chmod /\ UNCHANGED vars
  BY <1>10 DEF A!Chmod, A!Answer, A!Leave, A!None, A!NoKey, vars, resetVars, cs
<1>11. CASE wipe = "done" /\ A!ClearConfig /\ UNCHANGED vars
  BY <1>11 DEF A!ClearConfig, A!inCall, A!None, A!Saving, vars, resetVars, cs
<1>12. CASE wipe = "done" /\ A!ClearKey /\ UNCHANGED vars
  BY <1>12 DEF A!ClearKey, A!inCall, A!NoKey, vars, resetVars, cs
<1>13. CASE CrashAll
  BY <1>13 DEF CrashAll, Crash, Wiping, A!Die, A!Waits, A!None, A!NoKey, vars, resetVars, cs
<1>14. CASE A!DiskError /\ UNCHANGED vars
  BY <1>14 DEF A!DiskError, A!Leave, A!None, A!NoKey, vars, resetVars, cs
<1> QED BY <1>1, <1>2, <1>3, <1>4, <1>5, <1>6, <1>7, <1>8, <1>9, <1>10, <1>11, <1>12, <1>13, <1>14 DEF ConfigStep, A!Serve

LEMMA ConfigStepKeeps == ConfigInv /\ ((ConfigStep /\ UNCHANGED vars) \/ CrashAll) => ConfigInv'
BY KindsStep, LockStep, OrderStep, FitsStep, HalfWrittenStep, FirstLifeStep DEF ConfigInv

\* The problem store leaves the configuration alone, and only the reset's own
\* steps move the reset on.
LEMMA ProblemStepKeeps ==
  ConfigInv /\ [(\E h \in Handlers : CallProblems(h)) \/ Problems \/ ResetProblems]_allVars => ConfigInv'
<1> SUFFICES ASSUME ConfigInv, [(\E h \in Handlers : CallProblems(h)) \/ Problems \/ ResetProblems]_allVars
             PROVE ConfigInv'
  OBVIOUS
<1>1. UNCHANGED <<configVars, crashes>>
  <2>1. CASE \E h \in Handlers : CallProblems(h)
    BY <2>1 DEF CallProblems, Call
  <2>2. CASE Problems
    BY <2>2 DEF Problems, Operation, DiskFull, Enter, Rest, Open, Occupied, Write, Check, Get, Delete,
                ReadForUpdate, Replace, Glob, ReadNext, ListDone
  <2>3. CASE ResetProblems
    BY <2>3 DEF ResetProblems, WipeScan, WipeUnlink, WipeRmdir, WipeMkdir
  <2>4. CASE UNCHANGED allVars
    BY <2>4 DEF allVars, vars
  <2> QED BY <2>1, <2>2, <2>3, <2>4
<1>2. wipe' \in {"off", "unlink", "mkdir", "done"} /\ (wipe = "done" => wipe' = "done")
  <2> USE DEF ConfigInv, ResetOrder, resetVars
  <2>1. CASE \E h \in Handlers : CallProblems(h)
    BY <2>1 DEF CallProblems, Call
  <2>2. CASE Problems
    BY <2>2 DEF Problems, Operation, DiskFull, Enter, Rest, Open, Occupied, Write, Check, Get, Delete,
                ReadForUpdate, Replace, Glob, ReadNext, ListDone
  <2>3. CASE ResetProblems
    BY <2>3 DEF ResetProblems, WipeScan, WipeUnlink, WipeRmdir, WipeMkdir
  <2>4. CASE UNCHANGED allVars
    BY <2>4 DEF allVars, vars
  <2> QED BY <2>1, <2>2, <2>3, <2>4
<1>3. ConfigKinds' /\ ConfigLock'
  BY <1>1 DEF ConfigInv, ConfigKinds, ConfigLock, configVars
<1>4. ResetOrder'
  BY <1>1, <1>2 DEF ConfigInv, ResetOrder, configVars
<1>5. Fits' /\ HalfWritten' /\ FirstLife'
  BY <1>1 DEF ConfigInv, Fits, HalfWritten, FirstLife, configVars, A!Saving, A!Waits
<1> QED BY <1>3, <1>4, <1>5 DEF ConfigInv

LEMMA Initially == StorageInit => ConfigInv
<1> SUFFICES ASSUME StorageInit PROVE ConfigInv
  OBVIOUS
<1> USE StoreAssumption, NoneIsConfig DEF StorageInit, Init, A!Init, A!None, A!NoKey, A!Idle
<1>1. ConfigKinds
  BY DEF ConfigKinds, Calls, Keys, Stages
<1>2. ConfigLock /\ ResetOrder
  BY DEF ConfigLock, ResetOrder
<1>3. Fits /\ HalfWritten /\ FirstLife
  BY DEF Fits, HalfWritten, FirstLife
<1> QED BY <1>1, <1>2, <1>3 DEF ConfigInv

LEMMA Inductive == ConfigInv /\ [StorageNext]_allVars => ConfigInv'
<1> SUFFICES ASSUME ConfigInv, [StorageNext]_allVars PROVE ConfigInv'
  OBVIOUS
<1>1. CASE ConfigStep /\ UNCHANGED vars
  BY <1>1, ConfigStepKeeps
<1>2. CASE CrashAll
  BY <1>2, ConfigStepKeeps
<1>3. CASE [(\E h \in Handlers : CallProblems(h)) \/ Problems \/ ResetProblems]_allVars
  BY <1>3, ProblemStepKeeps
<1> QED BY <1>1, <1>2, <1>3 DEF StorageNext, CallConfig, Config, ResetConfig, ConfigStep

\* A stored configuration can be decrypted with the stored key unless a save
\* overlapped a reset; and without a reset and a crash a call that meets no disk
\* error fails only on a key whose writing did: for any number of calls on either
\* store, crashes and disk errors.
THEOREM KeyFitsConfig == StorageSpec => []ConfigUsable
<1>1. ConfigInv => ConfigUsable
  <2> SUFFICES ASSUME ConfigInv PROVE ConfigUsable
    OBVIOUS
  <2>1. config = A!None \/ key = config.key \/ raced
    BY DEF ConfigInv, ConfigKinds, Fits
  <2>2. key = A!TornKey => step = "write" \/ crashes > 0 \/ \E h \in Handlers : call[h].at = "failed"
    BY DEF ConfigInv, HalfWritten, A!TornKey
  <2>3. ASSUME NEW h \in Handlers, call[h].at = "done", call[h].code = 500, clear = "off"
        PROVE  crashes > 0 \/ (key = A!TornKey /\ step # "write")
    BY <2>3 DEF ConfigInv, ConfigKinds, FirstLife, A!TornKey
  <2> QED BY <2>1, <2>2, <2>3 DEF ConfigUsable
<1> QED BY Initially, Inductive, <1>1, PTL DEF StorageSpec
=============================================================================
