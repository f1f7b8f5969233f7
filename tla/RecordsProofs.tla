----------------------------- MODULE RecordsProofs -----------------------------
(***************************************************************************)
(* The submission limit, what the log endpoint shows and records, and the  *)
(* pages, for any limit, window, page size and number of requests.         *)
(***************************************************************************)
EXTENDS Records, TLAPS, FiniteSetTheorems, SequenceTheorems, WellFoundedInduction

-----------------------------------------------------------------------------
(* The invariant *)

\* The deque is the end of the list of admissions; what was popped is too old
\* to count for any later request.
WindowInv ==
  /\ now \in Nat /\ hits \in Seq(Nat) /\ admitted \in Seq(Nat)
  /\ Len(hits) <= Limit /\ Len(hits) <= Len(admitted)
  /\ \A i \in 1 .. Len(hits) : hits[i] = admitted[Len(admitted) - Len(hits) + i]
  /\ \A i \in 1 .. Len(admitted) - Len(hits) : now - admitted[i] > Window
  /\ LimiterWindow

Places == {"idle", "problem", "insert", "policy", "details", "allow", "deny"} \cup Answered
RequestRows == [role : {"none", "owner", "other", "admin"}, id : Nat, score : Nat, public : BOOLEAN, details : Nat]

PageRows ==
  [of : {"submissions", "audit"}, no : Nat \ {0}, step : {"closed", "count", "rows", "controls", "shown"},
   total : Nat, rows : SUBSET Nat, due : SUBSET Nat, walk : BOOLEAN, raced : BOOLEAN]

Kinds ==
  /\ subs \in Seq(Nat) /\ version \in Nat
  /\ pc \in [Submitters \cup Viewers -> Places]
  /\ req \in [Viewers -> RequestRows]
  /\ \E n \in Nat : DOMAIN audit \subseteq 1 .. n
  /\ page \in PageRows

\* Score and details are stored together, under versions that grow; what a
\* reader has of the score is no newer than what it will find of the details.
VersionsGrow ==
  /\ details = subs
  /\ \A id \in DOMAIN subs : subs[id] <= version
  /\ \A h \in Viewers : req[h].score <= version
  /\ \A h \in Viewers : pc[h] \in {"policy", "details"} =>
       /\ req[h].id \in DOMAIN subs
       /\ subs[req[h].id] = 0 \/ subs[req[h].id] >= req[h].score

\* Who is on the way to the details of a problem has seen it public, or is an
\* administrator.
Consents ==
  /\ \A h \in Viewers : policy = "public" /\ h \in Running => h \in shared
  /\ \A h \in Viewers : req[h].public => h \in shared
  /\ \A h \in Viewers : pc[h] \in {"idle", "policy", "details"} => req[h].details = 0
  /\ \A h \in Viewers : pc[h] = "details" => req[h].role = "admin" \/ req[h].public

\* A request has its record from its last step on, and never before.
Recorded(h) == (\E i \in DOMAIN audit : audit[i] = h) \/ h \in deleted
AuditInv == \A h \in Viewers : Recorded(h) <=> pc[h] \in {"200", "403"}

\* How many pages of the present walk the user has been shown.
Shown == IF page.step \in {"controls", "shown"} THEN page.no ELSE page.no - 1

\* What a walk still owes comes after all that it has shown.
WalkInv ==
  /\ page.walk /\ page.step # "closed" /\ Shown > 0 =>
       page.due \subseteq Ids /\ \A id \in page.due : Before(id) >= Shown * PageSize
  /\ page.walk /\ page.step \in {"controls", "shown"} => \A id \in page.due, shown \in page.rows : id < shown

\* A page without rows lies behind everything that was counted.
StrandInv ==
  /\ page.step = "rows" /\ ~page.raced => page.total <= Cardinality(Ids)
  /\ page.step \in {"controls", "shown"} /\ page.rows = {} /\ ~page.raced => page.total <= (page.no - 1) * PageSize
  /\ page.step = "shown" => page.no <= TotalPages(page.total)

PageInv == WalkInv /\ StrandInv

IInv == Kinds /\ WindowInv /\ VersionsGrow /\ DetailsNotOlder /\ Consents /\ DetailsNeedConsent /\ AuditInv /\ PageInv
-----------------------------------------------------------------------------
(* Numbers *)

LEMMA LeastOf ==
  ASSUME NEW T, T \subseteq Nat, T # {}
  PROVE  \E i \in T : \A k \in T : i <= k
<1> DEFINE R == OpToRel(<, Nat)
<1>1. \E x \in T : \A y \in T : ~ (<<y, x>> \in R)
  BY NatLessThanWellFounded, WFMin
<1>2. \A x, y \in Nat : y < x => <<y, x>> \in R
  BY DEF OpToRel
<1>3. \E x \in T : \A y \in T : ~ (y < x)
  <2> HIDE DEF R
  <2>1. PICK x \in T : \A y \in T : ~ (<<y, x>> \in R)
    BY <1>1, Zenon
  <2>2. \A y \in T : ~ (y < x)
    BY <1>2, <2>1, Zenon
  <2> QED BY <2>2
<1> QED BY <1>3

LEMMA GreatestOf ==
  ASSUME NEW T, T \subseteq Nat, T # {}, NEW n \in Nat, \A k \in T : k <= n
  PROVE  \E i \in T : \A k \in T : k <= i
<1> DEFINE D == {d \in Nat : n - d \in T}
<1>1. D \subseteq Nat /\ D # {}
  <2> PICK k \in T : TRUE
    OBVIOUS
  <2>1. n - k \in Nat /\ n - (n - k) = k
    OBVIOUS
  <2> QED BY <2>1
<1>2. PICK d \in D : \A e \in D : d <= e
  <2> HIDE DEF D
  <2> QED BY <1>1, LeastOf
<1>3. \A k \in T : k <= n - d
  <2> SUFFICES ASSUME NEW k \in T PROVE k <= n - d
    OBVIOUS
  <2>1. n - k \in Nat /\ n - (n - k) = k
    OBVIOUS
  <2>2. n - k \in D
    BY <2>1
  <2>3. d <= n - k
    BY <1>2, <2>2
  <2> QED BY <2>3
<1> QED BY <1>2, <1>3

LEMMA MaxOf ==
  ASSUME NEW T, T \subseteq Nat, T # {}, NEW n \in Nat, \A k \in T : k <= n
  PROVE  Max(T) \in T /\ \A k \in T : k <= Max(T)
<1>1. \E i \in T : \A k \in T : i >= k
  BY GreatestOf
<1>2. Max(T) \in T /\ \A k \in T : Max(T) >= k
  BY <1>1 DEF Max
<1> QED BY <1>2

LEMMA Appended ==
  ASSUME NEW S, NEW s \in Seq(S), NEW e \in S
  PROVE  /\ DOMAIN s = 1 .. Len(s) /\ Len(s) \in Nat
         /\ Append(s, e) \in Seq(S) /\ Len(Append(s, e)) = Len(s) + 1
         /\ DOMAIN Append(s, e) = 1 .. Len(s) + 1
         /\ \A i \in 1 .. Len(s) : Append(s, e)[i] = s[i]
         /\ Append(s, e)[Len(s) + 1] = e
OBVIOUS

-----------------------------------------------------------------------------
(* The limiter *)

\* The loop ends: what it leaves is the end of the deque, what it pops is old
\* and what it leaves first is not.
LEMMA Popped ==
  ASSUME now \in Nat, hits \in Seq(Nat), Window \in Nat
  PROVE  \E n \in 0 .. Len(hits) :
           /\ \A i \in 1 .. n : now - hits[i] > Window
           /\ Fresh \in Seq(Nat) /\ Len(Fresh) = Len(hits) - n
           /\ \A i \in 1 .. Len(Fresh) : Fresh[i] = hits[n + i]
<1> DEFINE P(n) == /\ \A i \in 1 .. n : now - hits[i] > Window
                   /\ n = Len(hits) \/ now - hits[n + 1] <= Window
           T == {n \in 0 .. Len(hits) : n = Len(hits) \/ now - hits[n + 1] <= Window}
<1>1. Len(hits) \in Nat /\ \A i \in 1 .. Len(hits) : hits[i] \in Nat
  OBVIOUS
<1>2. \E n \in 0 .. Len(hits) : P(n)
  <2>1. T \subseteq Nat /\ Len(hits) \in T
    BY <1>1
  <2>2. PICK n \in T : \A k \in T : n <= k
    <3> HIDE DEF T
    <3> QED BY <2>1, LeastOf
  <2>3. ASSUME NEW i \in 1 .. n PROVE now - hits[i] > Window
    <3>1. i - 1 \in 0 .. Len(hits) /\ i - 1 \notin T /\ i - 1 # Len(hits) /\ i - 1 + 1 = i
      <4>1. i - 1 \in 0 .. Len(hits) /\ i - 1 # Len(hits) /\ i - 1 + 1 = i /\ ~ (n <= i - 1)
        BY <1>1, <2>2
      <4>2. i - 1 \notin T
        <5> HIDE DEF T
        <5> QED BY <2>2, <4>1
      <4> QED BY <4>1, <4>2
    <3>2. ~ (now - hits[i] <= Window)
      BY <3>1
    <3> QED BY <1>1, <2>2, <3>2
  <2> QED BY <2>2, <2>3
<1> DEFINE m == CHOOSE n \in 0 .. Len(hits) : P(n)
<1>3. m \in 0 .. Len(hits) /\ P(m)
  <2> HIDE DEF P
  <2> QED BY <1>2
<1>4. Fresh = SubSeq(hits, m + 1, Len(hits))
  BY DEF Fresh, From
<1>5. Fresh \in Seq(Nat) /\ Len(Fresh) = Len(hits) - m
      /\ \A i \in 1 .. Len(Fresh) : Fresh[i] = hits[m + i]
  <2> HIDE DEF m
  <2>1. \A i \in m + 1 .. Len(hits) : hits[i] \in Nat
    BY <1>1, <1>3
  <2>2. /\ SubSeq(hits, m + 1, Len(hits)) \in Seq(Nat)
        /\ Len(SubSeq(hits, m + 1, Len(hits))) = IF m + 1 <= Len(hits) THEN Len(hits) - (m + 1) + 1 ELSE 0
        /\ \A i \in 1 .. Len(hits) - (m + 1) + 1 : SubSeq(hits, m + 1, Len(hits))[i] = hits[m + 1 + i - 1]
    BY <1>1, <1>3, <2>1, SubSeqProperties
  <2>3. \A i \in 1 .. Len(hits) - m : m + 1 + i - 1 = m + i
    BY <1>1, <1>3
  <2> QED BY <1>1, <1>3, <1>4, <2>2, <2>3
<1> HIDE DEF m
<1> QED BY <1>3, <1>5

\* Whatever has been popped stays popped: the window only moves on.
LEMMA SubmitKeepsWindow ==
  ASSUME WindowInv, NEW h \in Submitters, Submit(h)
  PROVE  WindowInv'
<1> USE RecordsAssumption
<1>1. PICK n \in 0 .. Len(hits) :
        /\ \A i \in 1 .. n : now - hits[i] > Window
        /\ Fresh \in Seq(Nat) /\ Len(Fresh) = Len(hits) - n
        /\ \A i \in 1 .. Len(Fresh) : Fresh[i] = hits[n + i]
  BY Popped DEF WindowInv
<1> DEFINE a == Len(admitted)
           f == Len(Fresh)
<1>2. now' = now /\ now \in Nat /\ a \in Nat /\ f \in Nat /\ f <= a /\ Len(hits) \in Nat /\ Limit \in Nat \ {0} /\ Window \in Nat
  BY <1>1 DEF Submit, WindowInv
<1>3. \A i \in 1 .. a : admitted[i] \in Nat
  BY DEF WindowInv
<1>4. ASSUME NEW i \in 1 .. f PROVE Fresh[i] = admitted[a - f + i]
  <2>1. n + i \in 1 .. Len(hits) /\ a - Len(hits) + (n + i) = a - f + i
    BY <1>1, <1>2
  <2> QED BY <1>1, <2>1 DEF WindowInv
<1>5. ASSUME NEW i \in 1 .. a - f PROVE now - admitted[i] > Window
  <2>1. CASE i <= a - Len(hits)
    BY <1>2, <2>1 DEF WindowInv
  <2>2. CASE i > a - Len(hits)
    <3> PICK j \in 1 .. n : i = a - Len(hits) + j
      <4>1. i - (a - Len(hits)) \in 1 .. n /\ i = a - Len(hits) + (i - (a - Len(hits)))
        BY <1>1, <1>2, <2>2
      <4> QED BY <4>1
    <3>1. j \in 1 .. Len(hits)
      BY <1>1, <1>2
    <3>2. hits[j] = admitted[i] /\ now - hits[j] > Window
      BY <1>1, <3>1 DEF WindowInv
    <3> QED BY <3>2
  <2> QED BY <1>2, <2>1, <2>2
<1>6. CASE f >= Limit /\ hits' = Fresh /\ UNCHANGED admitted
  <2>1. f <= Limit
    BY <1>1, <1>2 DEF WindowInv
  <2>2. UNCHANGED <<now, admitted>> /\ LimiterWindow /\ admitted \in Seq(Nat)
    BY <1>2, <1>6 DEF WindowInv
  <2>3. LimiterWindow'
    BY <2>2 DEF LimiterWindow
  <2> HIDE DEF a, f
  <2>4. Len(hits') = f /\ Len(admitted') = a
    BY <1>6, <2>2 DEF a, f
  <2> QED BY <1>1, <1>2, <1>4, <1>5, <1>6, <2>1, <2>2, <2>3, <2>4 DEF WindowInv
<1>7. CASE f < Limit /\ hits' = Append(Fresh, now) /\ admitted' = Append(admitted, now)
  <2>1. admitted \in Seq(Nat) /\ Fresh \in Seq(Nat)
    BY <1>1 DEF WindowInv
  <2>2. /\ hits' \in Seq(Nat) /\ Len(hits') = f + 1 /\ hits'[f + 1] = now
        /\ \A i \in 1 .. f : hits'[i] = Fresh[i]
        /\ admitted' \in Seq(Nat) /\ Len(admitted') = a + 1 /\ admitted'[a + 1] = now
        /\ \A i \in 1 .. a : admitted'[i] = admitted[i]
    BY <1>2, <1>7, <2>1, Appended
  <2> HIDE DEF a, f
  <2>3. \A i \in 1 .. Len(hits') : hits'[i] = admitted'[Len(admitted') - Len(hits') + i]
    <3> SUFFICES ASSUME NEW i \in 1 .. f + 1 PROVE hits'[i] = admitted'[(a + 1) - (f + 1) + i]
      BY <2>2
    <3>1. CASE i = f + 1
      <4>1. (a + 1) - (f + 1) + i = a + 1
        BY <1>2, <3>1
      <4> QED BY <2>2, <3>1, <4>1
    <3>2. CASE i \in 1 .. f
      <4>1. (a + 1) - (f + 1) + i = a - f + i /\ a - f + i \in 1 .. a
        BY <1>2, <3>2
      <4> QED BY <1>4, <2>2, <3>2, <4>1
    <3> QED BY <1>2, <3>1, <3>2
  <2>4. \A i \in 1 .. Len(admitted') - Len(hits') : now - admitted'[i] > Window
    <3>1. Len(admitted') - Len(hits') = a - f /\ \A i \in 1 .. a - f : i \in 1 .. a
      BY <1>2, <2>2
    <3> QED BY <1>5, <2>2, <3>1
  <2>5. LimiterWindow'
    <3> SUFFICES ASSUME NEW i \in 1 .. (a + 1) - Limit PROVE admitted'[i + Limit] - admitted'[i] > Window
      BY <2>2 DEF LimiterWindow
    <3>1. CASE i + Limit = a + 1
      <4>1. i \in 1 .. a - f /\ i \in 1 .. a
        BY <1>2, <1>7, <3>1
      <4> QED BY <1>5, <2>2, <3>1, <4>1
    <3>2. CASE i + Limit # a + 1
      <4>1. i \in 1 .. a - Limit /\ i \in 1 .. a /\ i + Limit \in 1 .. a
        BY <1>2, <3>2
      <4>2. admitted[i + Limit] - admitted[i] > Window
        BY <4>1 DEF WindowInv, LimiterWindow, a
      <4> QED BY <2>2, <4>1, <4>2
    <3> QED BY <3>1, <3>2
  <2>6. Len(hits') <= Limit /\ Len(hits') <= Len(admitted')
    BY <1>2, <1>7, <2>2
  <2> QED BY <1>2, <2>2, <2>3, <2>4, <2>5, <2>6 DEF WindowInv
<1> QED BY <1>2, <1>6, <1>7 DEF Submit

LEMMA WindowStep == ASSUME WindowInv, [Next]_vars PROVE WindowInv'
<1>1. CASE UNCHANGED clock
  BY <1>1 DEF clock, WindowInv, LimiterWindow
<1>2. ASSUME NEW h \in Submitters, Submit(h) PROVE WindowInv'
  BY <1>2, SubmitKeepsWindow
<1>3. CASE Tick
  <2>1. now' = now + 1 /\ now \in Nat /\ UNCHANGED <<hits, admitted>> /\ Window \in Nat
    BY <1>3, RecordsAssumption DEF Tick, WindowInv
  <2>2. \A i \in 1 .. Len(admitted) - Len(hits) : now' - admitted'[i] > Window
    <3> SUFFICES ASSUME NEW i \in 1 .. Len(admitted') - Len(hits') PROVE now' - admitted'[i] > Window
      BY <2>1
    <3>1. i \in 1 .. Len(admitted) /\ admitted[i] \in Nat /\ now - admitted[i] > Window
      BY <2>1 DEF WindowInv
    <3> QED BY <2>1, <3>1
  <2> QED BY <2>1, <2>2 DEF WindowInv, LimiterWindow
<1>4. CASE Crash
  <2>1. hits' = <<>> /\ admitted' = <<>> /\ now' = now /\ Limit \in Nat
    BY <1>4, RecordsAssumption DEF Crash
  <2> QED BY <2>1 DEF WindowInv, LimiterWindow
<1> QED BY <1>1, <1>2, <1>3, <1>4
        DEF Next, FindProblem, Insert, View, ReadPolicy, ReadDetails, RecordAccess, Judged, Rejudged, Delete,
            DeletedElsewhere, Count, ReadRows, Controls, Turn, ChangePolicy, Rest, vars
-----------------------------------------------------------------------------
(* What a reader is shown *)

\* A step as the judge's tables and the requests see it.
ReaderStep ==
  \/ UNCHANGED <<subs, details, version, policy, req, shared>> /\ \A h \in Viewers : pc'[h] = pc[h]
  \/ \E h \in Viewers : View(h) \/ ReadPolicy(h) \/ ReadDetails(h) \/ RecordAccess(h)
  \/ \E h \in Submitters : Insert(h)
  \/ \E id \in DOMAIN subs : Judged(id) \/ Rejudged(id)
  \/ ChangePolicy \/ Crash

LEMMA Reading == ASSUME Kinds, [Next]_vars PROVE ReaderStep
<1>1. Submitters \cap Viewers = {}
  BY RecordsAssumption
<1>2. ASSUME NEW g \in Submitters, NEW p, Goto(g, p) PROVE \A h \in Viewers : pc'[h] = pc[h]
  BY <1>1, <1>2 DEF Goto, Kinds
<1>3. ASSUME NEW g \in Submitters, Submit(g) \/ FindProblem(g) PROVE ReaderStep
  BY <1>2, <1>3 DEF Submit, FindProblem, judge, ReaderStep
<1>4. CASE UNCHANGED vars
  BY <1>4 DEF vars, judge, handlers, ReaderStep
<1>5. CASE \/ \E id \in DOMAIN audit : Delete(id) \/ DeletedElsewhere(id)
           \/ Count \/ ReadRows \/ Controls \/ Turn \/ Tick
  BY <1>5 DEF Delete, DeletedElsewhere, Count, ReadRows, Controls, Turn, Tick, Rest, judge, handlers, ReaderStep
<1> QED BY <1>3, <1>4, <1>5 DEF Next, ReaderStep

\* What a viewer's own step does to its request.
ViewerStep(h) ==
  \/ /\ pc[h] = "idle" /\ pc'[h] = "policy" /\ UNCHANGED <<subs, details, policy>>
     /\ \E r \in {"owner", "other", "admin"}, id \in DOMAIN subs :
          req'[h] = [NoRequest EXCEPT !.role = r, !.id = id, !.score = subs[id]]
     /\ shared' = IF policy = "public" THEN shared \cup {h} ELSE shared
  \/ /\ pc[h] = "idle" /\ pc'[h] = "404" /\ req'[h] = req[h] /\ UNCHANGED <<subs, details, policy>>
     /\ shared' = IF policy = "public" THEN shared \cup {h} ELSE shared
  \/ /\ pc[h] = "policy" /\ req'[h] = [req[h] EXCEPT !.public = (policy = "public")]
     /\ UNCHANGED <<subs, details, policy, shared>>
     /\ pc'[h] \in {"500", "deny", "details", "allow"}
     /\ pc'[h] = "details" => req[h].role = "admin" \/ policy = "public"
  \/ /\ pc[h] = "details" /\ pc'[h] = "allow" /\ req'[h] = [req[h] EXCEPT !.details = details[req[h].id]]
     /\ UNCHANGED <<subs, details, policy, shared>>
  \/ /\ pc[h] \in {"allow", "deny"} /\ pc'[h] = IF pc[h] = "allow" THEN "200" ELSE "403"
     /\ req'[h] = req[h] /\ UNCHANGED <<subs, details, policy, shared>>

Others(h) == \A g \in Viewers \ {h} : pc'[g] = pc[g] /\ req'[g] = req[g]

LEMMA Viewing ==
  ASSUME Kinds, NEW h \in Viewers, View(h) \/ ReadPolicy(h) \/ ReadDetails(h) \/ RecordAccess(h)
  PROVE  ViewerStep(h) /\ Others(h) /\ UNCHANGED version
<1>1. pc \in [Submitters \cup Viewers -> Places] /\ req \in [Viewers -> RequestRows]
  BY DEF Kinds
<1>2. ASSUME NEW p, Goto(h, p) PROVE pc'[h] = p /\ \A g \in Viewers \ {h} : pc'[g] = pc[g]
  BY <1>1, <1>2 DEF Goto
<1>3. CASE View(h)
  <2>1. DOMAIN subs = 1 .. Len(subs) /\ Len(subs) \in Nat
    BY DEF Kinds
  <2>2. PICK r \in {"owner", "other", "admin"}, id \in 1 .. Len(subs) + 1 :
          IF id > Len(subs) THEN Goto(h, "404") /\ UNCHANGED req
          ELSE /\ Goto(h, "policy")
               /\ req' = [req EXCEPT ![h] = [NoRequest EXCEPT !.role = r, !.id = id, !.score = subs[id]]]
    BY <1>3 DEF View
  <2>3. /\ pc[h] = "idle" /\ UNCHANGED <<subs, details, policy, version>>
        /\ shared' = IF policy = "public" THEN shared \cup {h} ELSE shared
    BY <1>3 DEF View, judge
  <2>4. CASE id > Len(subs)
    BY <1>2, <2>2, <2>3, <2>4 DEF ViewerStep, Others
  <2>5. CASE ~(id > Len(subs))
    <3>1. id \in DOMAIN subs
      BY <2>1, <2>5
    <3>2. req'[h] = [NoRequest EXCEPT !.role = r, !.id = id, !.score = subs[id]] /\ \A g \in Viewers \ {h} : req'[g] = req[g]
      BY <1>1, <2>2, <2>5
    <3>3. pc'[h] = "policy" /\ \A g \in Viewers \ {h} : pc'[g] = pc[g]
      BY <1>2, <2>2, <2>5
    <3> QED BY <2>3, <3>1, <3>2, <3>3 DEF ViewerStep, Others
  <2> QED BY <2>4, <2>5
<1>4. CASE ReadPolicy(h)
  <2>1. pc[h] = "policy" /\ req' = [req EXCEPT ![h].public = (policy = "public")] /\ UNCHANGED <<subs, details, policy, shared, version>>
    BY <1>4 DEF ReadPolicy, judge
  <2>2. req'[h] = [req[h] EXCEPT !.public = (policy = "public")] /\ \A g \in Viewers \ {h} : req'[g] = req[g]
    BY <1>1, <2>1
  <2>3. req'[h].public = (policy = "public") /\ req[h].role \in {"none", "owner", "other", "admin"}
    BY <1>1, <2>2 DEF RequestRows
  <2>4. PICK p \in {"500", "deny", "details", "allow"} :
          Goto(h, p) /\ (p = "details" => req[h].role = "admin" \/ req'[h].public)
    BY <1>4 DEF ReadPolicy
  <2>5. pc'[h] = p /\ \A g \in Viewers \ {h} : pc'[g] = pc[g]
    BY <1>2, <2>4
  <2> QED BY <2>1, <2>2, <2>3, <2>4, <2>5 DEF ViewerStep, Others
<1>5. CASE ReadDetails(h)
  <2>1. pc[h] = "details" /\ Goto(h, "allow") /\ UNCHANGED <<subs, details, policy, shared, version>>
        /\ req' = [req EXCEPT ![h].details = details[req[h].id]]
    BY <1>5 DEF ReadDetails, judge
  <2>2. req'[h] = [req[h] EXCEPT !.details = details[req[h].id]] /\ \A g \in Viewers \ {h} : req'[g] = req[g]
    BY <1>1, <2>1
  <2> QED BY <1>2, <2>1, <2>2 DEF ViewerStep, Others
<1>6. CASE RecordAccess(h)
  <2>1. pc[h] \in {"allow", "deny"} /\ Goto(h, IF pc[h] = "allow" THEN "200" ELSE "403")
        /\ UNCHANGED <<subs, details, policy, shared, version, req>>
    BY <1>6 DEF RecordAccess, judge
  <2>2. pc'[h] = (IF pc[h] = "allow" THEN "200" ELSE "403") /\ \A g \in Viewers \ {h} : pc'[g] = pc[g]
    BY <1>2, <2>1
  <2> QED BY <2>1, <2>2 DEF ViewerStep, Others
<1> QED BY <1>3, <1>4, <1>5, <1>6
\* What a step does to the scores.
JudgeMove ==
  \/ UNCHANGED <<subs, version>>
  \/ subs' = Append(subs, 0) /\ UNCHANGED version
  \/ version' = version + 1 /\ \E id \in DOMAIN subs : subs' = [subs EXCEPT ![id] = version + 1]
  \/ UNCHANGED version /\ \E id \in DOMAIN subs : subs' = [subs EXCEPT ![id] = 0]

LEMMA Judging ==
  ASSUME Kinds, details = subs, [Next]_vars
  PROVE  JudgeMove /\ details' = subs'
<1>1. CASE UNCHANGED <<subs, details, version>>
  BY <1>1 DEF JudgeMove
<1>2. ASSUME NEW h \in Submitters, Insert(h) PROVE JudgeMove /\ details' = subs'
  BY <1>2 DEF Insert, JudgeMove
<1>3. ASSUME NEW id \in DOMAIN subs, Judged(id) PROVE JudgeMove /\ details' = subs'
  BY <1>3 DEF Judged, JudgeMove
<1>4. ASSUME NEW id \in DOMAIN subs, Rejudged(id) PROVE JudgeMove /\ details' = subs'
  BY <1>4 DEF Rejudged, JudgeMove
<1>5. ASSUME NEW h \in Viewers, View(h) \/ ReadPolicy(h) \/ ReadDetails(h) \/ RecordAccess(h)
      PROVE  UNCHANGED <<subs, details, version>>
  BY <1>5, Viewing DEF ViewerStep
<1> QED BY <1>1, <1>2, <1>3, <1>4, <1>5
        DEF Next, Submit, FindProblem, Delete, DeletedElsewhere, Count, ReadRows, Controls, Turn, Tick, ChangePolicy,
            Crash, Rest, judge, vars

LEMMA SubsStep ==
  ASSUME Kinds, VersionsGrow, JudgeMove
  PROVE  /\ subs' \in Seq(Nat) /\ version' \in Nat /\ version' >= version /\ DOMAIN subs \subseteq DOMAIN subs'
         /\ \A id \in DOMAIN subs' : subs'[id] <= version'
         /\ \A id \in DOMAIN subs : subs'[id] \in {0, subs[id]} \/ subs'[id] > version
<1>1. subs \in Seq(Nat) /\ version \in Nat /\ \A id \in DOMAIN subs : subs[id] \in Nat /\ subs[id] <= version
  BY DEF Kinds, VersionsGrow
<1>2. CASE UNCHANGED <<subs, version>>
  BY <1>1, <1>2
<1>3. CASE subs' = Append(subs, 0) /\ UNCHANGED version
  <2>1. /\ DOMAIN subs = 1 .. Len(subs) /\ Len(subs) \in Nat
        /\ subs' \in Seq(Nat) /\ DOMAIN subs' = 1 .. Len(subs) + 1
        /\ \A i \in 1 .. Len(subs) : subs'[i] = subs[i]
        /\ subs'[Len(subs) + 1] = 0
    BY <1>1, <1>3, Appended
  <2>2. \A i \in 1 .. Len(subs) + 1 : i \in 1 .. Len(subs) \/ i = Len(subs) + 1
    BY <2>1
  <2> QED BY <1>1, <1>3, <2>1, <2>2
<1>4. ASSUME NEW id \in DOMAIN subs, NEW v \in Nat, subs' = [subs EXCEPT ![id] = v], version' \in Nat, version' >= version,
             v = 0 \/ (v = version + 1 /\ version' = v)
      PROVE  /\ subs' \in Seq(Nat) /\ version' \in Nat /\ version' >= version /\ DOMAIN subs \subseteq DOMAIN subs'
             /\ \A i \in DOMAIN subs' : subs'[i] <= version'
             /\ \A i \in DOMAIN subs : subs'[i] \in {0, subs[i]} \/ subs'[i] > version
  <2>1. subs' \in Seq(Nat) /\ DOMAIN subs' = DOMAIN subs /\ \A i \in DOMAIN subs : subs'[i] = IF i = id THEN v ELSE subs[i]
    BY <1>1, <1>4
  <2> QED BY <1>1, <1>4, <2>1
<1>5. version + 1 \in Nat /\ version + 1 >= version /\ version >= version
  BY <1>1
<1> QED BY <1>1, <1>2, <1>3, <1>4, <1>5 DEF JudgeMove

LEMMA RequestsKind ==
  ASSUME Kinds, VersionsGrow, [Next]_vars
  PROVE  pc' \in [Submitters \cup Viewers -> Places] /\ req' \in [Viewers -> RequestRows]
<1>1. pc \in [Submitters \cup Viewers -> Places] /\ req \in [Viewers -> RequestRows]
      /\ \A id \in DOMAIN subs : subs[id] \in Nat /\ id \in Nat
  BY DEF Kinds
<1>2. ASSUME NEW h \in Submitters \cup Viewers, NEW p \in Places, Goto(h, p) PROVE pc' \in [Submitters \cup Viewers -> Places]
  BY <1>1, <1>2 DEF Goto
<1>3. CASE UNCHANGED pc /\ UNCHANGED req
  BY <1>1, <1>3
<1>4. ASSUME NEW h \in Submitters, Submit(h) \/ FindProblem(h) \/ Insert(h)
      PROVE  pc' \in [Submitters \cup Viewers -> Places] /\ req' = req
  BY <1>2, <1>4 DEF Submit, FindProblem, Insert, handlers, Places, Answered
<1>5. ASSUME NEW h \in Viewers, View(h) \/ ReadPolicy(h) \/ ReadDetails(h) \/ RecordAccess(h)
      PROVE  pc' \in [Submitters \cup Viewers -> Places]
  BY <1>2, <1>5 DEF View, ReadPolicy, ReadDetails, RecordAccess, Places, Answered
<1>6. ASSUME NEW h \in Viewers, View(h) PROVE req' \in [Viewers -> RequestRows]
  <2>1. CASE UNCHANGED req
    BY <1>1, <2>1
  <2>2. ASSUME NEW r \in {"owner", "other", "admin"}, NEW id \in 1 .. Len(subs) + 1, ~(id > Len(subs)),
               req' = [req EXCEPT ![h] = [NoRequest EXCEPT !.role = r, !.id = id, !.score = subs[id]]]
        PROVE  req' \in [Viewers -> RequestRows]
    <3>1. id \in DOMAIN subs
      <4>1. DOMAIN subs = 1 .. Len(subs) /\ Len(subs) \in Nat
        BY DEF Kinds
      <4> QED BY <2>2, <4>1
    <3>2. [NoRequest EXCEPT !.role = r, !.id = id, !.score = subs[id]] \in RequestRows
      BY <1>1, <3>1 DEF NoRequest, RequestRows
    <3> QED BY <1>1, <2>2, <3>2
  <2> QED BY <1>6, <2>1, <2>2 DEF View
<1>7. ASSUME NEW h \in Viewers, ReadPolicy(h) PROVE req' \in [Viewers -> RequestRows]
  <2>1. req' = [req EXCEPT ![h].public = (policy = "public")]
    BY <1>7 DEF ReadPolicy
  <2>2. [req[h] EXCEPT !.public = (policy = "public")] \in RequestRows
    BY <1>1 DEF RequestRows
  <2> QED BY <1>1, <2>1, <2>2
<1>8. ASSUME NEW h \in Viewers, ReadDetails(h), details[req[h].id] \in Nat PROVE req' \in [Viewers -> RequestRows]
  <2>1. req' = [req EXCEPT ![h].details = details[req[h].id]]
    BY <1>8 DEF ReadDetails
  <2>2. [req[h] EXCEPT !.details = details[req[h].id]] \in RequestRows
    BY <1>1, <1>8 DEF RequestRows
  <2> QED BY <1>1, <2>1, <2>2
<1>9. ASSUME NEW h \in Viewers, RecordAccess(h) PROVE req' \in [Viewers -> RequestRows]
  BY <1>1, <1>9 DEF RecordAccess
<1>10. CASE Crash
  BY <1>1, <1>10 DEF Crash, Places, Answered
<1>11. ASSUME NEW h \in Viewers, ReadDetails(h) PROVE details[req[h].id] \in Nat
  BY <1>1, <1>11 DEF ReadDetails, VersionsGrow
<1> QED BY <1>1, <1>3, <1>4, <1>5, <1>6, <1>7, <1>8, <1>9, <1>10, <1>11
        DEF Next, Delete, DeletedElsewhere, Count, ReadRows, Controls, Turn, Tick, ChangePolicy, Judged, Rejudged,
            Rest, handlers, vars

\* A viewer's step keeps what the readers know of versions and consent.
ReaderInv == VersionsGrow /\ DetailsNotOlder /\ Consents /\ DetailsNeedConsent

LEMMA ViewerKeeps ==
  ASSUME Kinds, ReaderInv, NEW h \in Viewers, ViewerStep(h), Others(h), UNCHANGED version
  PROVE  ReaderInv'
<1>1. subs \in Seq(Nat) /\ req[h] \in RequestRows /\ UNCHANGED <<subs, details, policy, version>> /\ shared \subseteq shared'
      /\ \A id \in DOMAIN subs : id \in Nat /\ subs[id] \in Nat
  <2>1. subs \in Seq(Nat) /\ req[h] \in RequestRows /\ \A id \in DOMAIN subs : id \in Nat /\ subs[id] \in Nat
    BY DEF Kinds
  <2>2. UNCHANGED <<subs, details, policy>> /\ shared \subseteq shared'
    BY DEF ViewerStep
  <2> QED BY <2>1, <2>2
<1>2. VersionsGrow'
  <2>1. ASSUME pc'[h] \in {"policy", "details"}
        PROVE  req'[h].id \in DOMAIN subs /\ (subs[req'[h].id] = 0 \/ subs[req'[h].id] >= req'[h].score)
    <3>1. CASE pc'[h] = "policy"
      <4>1. PICK r \in {"owner", "other", "admin"}, id \in DOMAIN subs :
              req'[h] = [NoRequest EXCEPT !.role = r, !.id = id, !.score = subs[id]]
        BY <3>1 DEF ViewerStep
      <4>2. req'[h].id = id /\ req'[h].score = subs[id] /\ subs[id] \in Nat
        BY <1>1, <4>1 DEF NoRequest
      <4> QED BY <4>2
    <3>2. CASE pc'[h] = "details"
      <4>1. pc[h] = "policy" /\ req'[h].id = req[h].id /\ req'[h].score = req[h].score
        BY <1>1, <3>2 DEF ViewerStep, RequestRows
      <4> QED BY <4>1 DEF ReaderInv, VersionsGrow
    <3> QED BY <2>1, <3>1, <3>2
  <2>2. req'[h].score <= version
    <3>1. ASSUME NEW r \in {"owner", "other", "admin"}, NEW id \in DOMAIN subs,
                 req'[h] = [NoRequest EXCEPT !.role = r, !.id = id, !.score = subs[id]]
          PROVE  req'[h].score <= version
      BY <3>1 DEF NoRequest, ReaderInv, VersionsGrow
    <3>2. ASSUME req'[h].score = req[h].score PROVE req'[h].score <= version
      BY <3>2 DEF ReaderInv, VersionsGrow
    <3> QED BY <1>1, <3>1, <3>2 DEF ViewerStep, RequestRows
  <2> QED BY <1>1, <2>1, <2>2 DEF ReaderInv, VersionsGrow, Others
<1>3. \/ pc[h] = "idle" /\ req'[h].details = 0 /\ ~req'[h].public
      \/ /\ pc[h] = "idle" /\ req'[h] = req[h] /\ pc'[h] = "404"
      \/ /\ pc[h] = "policy" /\ req'[h].details = 0 /\ req'[h].role = req[h].role
         /\ (req'[h].public => h \in shared')
         /\ pc'[h] = "details" => req'[h].role = "admin" \/ req'[h].public
         /\ pc'[h] \in {"500", "deny", "details", "allow"}
      \/ /\ pc[h] = "details" /\ pc'[h] = "allow" /\ req'[h].role = req[h].role /\ req'[h].public = req[h].public
         /\ req'[h].details = subs[req[h].id] /\ req'[h].score = req[h].score
      \/ /\ req'[h] = req[h] /\ pc'[h] \in {"200", "403"}
  <2>1. pc[h] = "idle" \/ pc[h] = "policy" => req[h].details = 0
    BY DEF ReaderInv, Consents
  <2>2. pc[h] = "policy" /\ policy = "public" => h \in shared
    BY DEF ReaderInv, Consents, Running
  <2>3. details = subs
    BY DEF ReaderInv, VersionsGrow
  <2> QED BY <1>1, <2>1, <2>2, <2>3 DEF ViewerStep, RequestRows, NoRequest
<1>4. DetailsNotOlder'
  <2>1. ASSUME req'[h].details # 0 PROVE req'[h].details >= req'[h].score
    <3>1. CASE req'[h] = req[h]
      BY <2>1, <3>1 DEF ReaderInv, DetailsNotOlder
    <3>2. CASE pc[h] = "details" /\ req'[h].details = subs[req[h].id] /\ req'[h].score = req[h].score
      BY <2>1, <3>2 DEF ReaderInv, VersionsGrow
    <3> QED BY <1>3, <2>1, <3>1, <3>2
  <2> QED BY <2>1 DEF ReaderInv, DetailsNotOlder, Others
<1>5. Consents'
  <2>1. policy' = "public" /\ h \in Running' => h \in shared'
    BY <1>1 DEF ViewerStep, ReaderInv, Consents, Running
  <2>2. req'[h].public => h \in shared'
    BY <1>1, <1>3 DEF ReaderInv, Consents
  <2>3. pc'[h] \in {"idle", "policy", "details"} => req'[h].details = 0
    BY <1>3 DEF ViewerStep, ReaderInv, Consents
  <2>4. pc'[h] = "details" => req'[h].role = "admin" \/ req'[h].public
    BY <1>3 DEF ViewerStep
  <2> QED BY <1>1, <2>1, <2>2, <2>3, <2>4 DEF ReaderInv, Consents, Others, Running
<1>6. DetailsNeedConsent'
  <2>1. req'[h].details # 0 /\ req'[h].role # "admin" => h \in shared'
    BY <1>1, <1>3 DEF ReaderInv, Consents, DetailsNeedConsent
  <2> QED BY <1>1, <2>1 DEF ReaderInv, DetailsNeedConsent, Others
<1> QED BY <1>2, <1>4, <1>5, <1>6 DEF ReaderInv

LEMMA ReaderInvStep == ASSUME Kinds, ReaderInv, [Next]_vars PROVE ReaderInv'
<1>1. CASE UNCHANGED <<subs, details, version, policy, req, shared>> /\ \A h \in Viewers : pc'[h] = pc[h]
  BY <1>1 DEF ReaderInv, VersionsGrow, DetailsNotOlder, Consents, DetailsNeedConsent, Running
<1>2. ASSUME NEW h \in Viewers, View(h) \/ ReadPolicy(h) \/ ReadDetails(h) \/ RecordAccess(h) PROVE ReaderInv'
  BY <1>2, Viewing, ViewerKeeps
<1>3. ASSUME (\E h \in Submitters : Insert(h)) \/ (\E id \in DOMAIN subs : Judged(id) \/ Rejudged(id))
      PROVE  ReaderInv'
  <2>1. UNCHANGED <<policy, req, shared>> /\ \A h \in Viewers : pc'[h] = pc[h]
    <3>1. ASSUME NEW g \in Submitters, Insert(g)
          PROVE  UNCHANGED <<policy, req, shared>> /\ \A h \in Viewers : pc'[h] = pc[h]
      BY <3>1, RecordsAssumption DEF Insert, Goto, Kinds
    <3> QED BY <1>3, <3>1 DEF Judged, Rejudged, handlers
  <2>2. JudgeMove /\ details' = subs'
    BY Judging DEF ReaderInv, VersionsGrow
  <2>3. /\ DOMAIN subs \subseteq DOMAIN subs' /\ version \in Nat /\ version' \in Nat /\ version' >= version /\ subs \in Seq(Nat) /\ subs' \in Seq(Nat)
        /\ \A id \in DOMAIN subs' : subs'[id] <= version'
        /\ \A id \in DOMAIN subs : subs'[id] \in {0, subs[id]} \/ subs'[id] > version
    BY <2>2, SubsStep DEF ReaderInv, Kinds
  <2>4. ASSUME NEW h \in Viewers, pc[h] \in {"policy", "details"}
        PROVE  req[h].id \in DOMAIN subs' /\ (subs'[req[h].id] = 0 \/ subs'[req[h].id] >= req[h].score)
    <3>1. req[h].id \in DOMAIN subs /\ (subs[req[h].id] = 0 \/ subs[req[h].id] >= req[h].score) /\ req[h].score \in Nat
      BY <2>4 DEF ReaderInv, VersionsGrow, Kinds, RequestRows
    <3>2. req[h].score <= version /\ subs'[req[h].id] \in Nat
      BY <2>3, <3>1 DEF ReaderInv, VersionsGrow
    <3> QED BY <2>3, <3>1, <3>2
  <2>5. \A h \in Viewers : req[h].score <= version'
    <3>1. \A h \in Viewers : req[h].score \in Nat /\ req[h].score <= version
      BY DEF ReaderInv, VersionsGrow, Kinds, RequestRows
    <3> QED BY <2>3, <3>1
  <2> QED BY <2>1, <2>2, <2>3, <2>4, <2>5 DEF ReaderInv, VersionsGrow, DetailsNotOlder, Consents, DetailsNeedConsent, Running
<1>4. CASE ChangePolicy
  BY <1>4 DEF ChangePolicy, judge, ReaderInv, VersionsGrow, DetailsNotOlder, Consents, DetailsNeedConsent, Running
<1>5. CASE Crash
  <2>1. UNCHANGED <<subs, details, version, policy, req, shared>>
    BY <1>5 DEF Crash, judge
  <2>2. \A h \in Viewers : pc'[h] = pc[h] \/ pc'[h] = "died"
    BY <1>5 DEF Crash, Kinds
  <2> QED BY <2>1, <2>2 DEF ReaderInv, VersionsGrow, DetailsNotOlder, Consents, DetailsNeedConsent, Running
<1> QED BY <1>1, <1>2, <1>3, <1>4, <1>5, Reading DEF ReaderStep
-----------------------------------------------------------------------------
(* The audit records *)

\* A new record gets an id of its own.
LEMMA NextIsFree ==
  ASSUME Kinds
  PROVE  NextId \in Nat \ {0} /\ \A i \in DOMAIN audit : i < NextId
<1> PICK n \in Nat : DOMAIN audit \subseteq 1 .. n
  BY DEF Kinds
<1> DEFINE T == {0} \cup DOMAIN audit
<1>1. T \subseteq Nat /\ T # {} /\ \A k \in T : k <= n
  OBVIOUS
<1>2. Max(T) \in T /\ \A k \in T : k <= Max(T)
  <2> HIDE DEF T
  <2> QED BY <1>1, MaxOf
<1>3. NextId = Max(T) + 1
  BY DEF NextId
<1> QED BY <1>1, <1>2, <1>3

\* What a step does to the audit records.
AuditMove ==
  \/ UNCHANGED <<audit, deleted>> /\ \A h \in Viewers : pc'[h] \in {"200", "403"} <=> pc[h] \in {"200", "403"}
  \/ \E h \in Viewers :
       /\ audit' = [i \in DOMAIN audit \cup {NextId} |-> IF i = NextId THEN h ELSE audit[i]]
       /\ pc[h] \notin {"200", "403"} /\ pc'[h] \in {"200", "403"}
       /\ UNCHANGED deleted /\ \A g \in Viewers \ {h} : pc'[g] = pc[g]
  \/ \E id \in DOMAIN audit :
       /\ audit' = [i \in DOMAIN audit \ {id} |-> audit[i]] /\ deleted' = deleted \cup {audit[id]}
       /\ UNCHANGED pc

LEMMA Auditing == ASSUME Kinds, [Next]_vars PROVE AuditMove
<1>1. ASSUME NEW h \in Viewers, RecordAccess(h) PROVE AuditMove
  <2>1. Others(h) /\ UNCHANGED deleted /\ pc[h] \in {"allow", "deny"} /\ pc'[h] \in {"200", "403"}
    BY <1>1, Viewing DEF RecordAccess, Goto, Kinds
  <2> QED BY <1>1, <2>1 DEF RecordAccess, Others, AuditMove
<1>2. ASSUME NEW id \in DOMAIN audit, Delete(id) \/ DeletedElsewhere(id) PROVE AuditMove
  BY <1>2 DEF Delete, DeletedElsewhere, Restrict, handlers, AuditMove
<1>3. ASSUME NEW h \in Viewers, View(h) \/ ReadPolicy(h) \/ ReadDetails(h) PROVE AuditMove
  <2>1. ViewerStep(h) /\ Others(h) /\ UNCHANGED <<audit, deleted>>
    BY <1>3, Viewing DEF View, ReadPolicy, ReadDetails
  <2>2. pc[h] \notin {"allow", "deny"}
    BY <1>3 DEF View, ReadPolicy, ReadDetails
  <2> QED BY <2>1, <2>2 DEF ViewerStep, Others, AuditMove
<1>4. ASSUME NEW g \in Submitters, Submit(g) \/ FindProblem(g) \/ Insert(g) PROVE AuditMove
  <2>1. \A h \in Viewers : pc'[h] = pc[h]
    BY <1>4, RecordsAssumption DEF Submit, FindProblem, Insert, Goto, Kinds
  <2> QED BY <1>4, <2>1 DEF Submit, FindProblem, Insert, AuditMove
<1>5. CASE Crash
  BY <1>5 DEF Crash, Kinds, Answered, AuditMove
<1>6. CASE UNCHANGED <<audit, deleted, pc>>
  BY <1>6 DEF AuditMove
<1> QED BY <1>1, <1>2, <1>3, <1>4, <1>5, <1>6
        DEF Next, Judged, Rejudged, Count, ReadRows, Controls, Turn, Tick, ChangePolicy, Rest, handlers, vars

LEMMA AuditKind == ASSUME Kinds, AuditMove PROVE \E n \in Nat : DOMAIN audit' \subseteq 1 .. n
<1> PICK n \in Nat : DOMAIN audit \subseteq 1 .. n
  BY DEF Kinds
<1>1. CASE audit' = audit
  BY <1>1
<1>2. ASSUME NEW h \in Viewers, audit' = [i \in DOMAIN audit \cup {NextId} |-> IF i = NextId THEN h ELSE audit[i]]
      PROVE  \E m \in Nat : DOMAIN audit' \subseteq 1 .. m
  <2>1. NextId \in Nat \ {0} /\ \A i \in DOMAIN audit : i < NextId
    BY NextIsFree
  <2>2. DOMAIN audit' = DOMAIN audit \cup {NextId}
    BY <1>2
  <2>3. DOMAIN audit' \subseteq 1 .. NextId
    BY <2>1, <2>2
  <2> QED BY <2>1, <2>3
<1>3. ASSUME NEW id \in DOMAIN audit, audit' = [i \in DOMAIN audit \ {id} |-> audit[i]]
      PROVE  DOMAIN audit' \subseteq 1 .. n
  BY <1>3
<1> QED BY <1>1, <1>2, <1>3 DEF AuditMove

LEMMA AuditStep == ASSUME Kinds, AuditInv, [Next]_vars PROVE AuditInv'
<1>1. AuditMove
  BY Auditing
<1>2. CASE UNCHANGED <<audit, deleted>> /\ \A h \in Viewers : pc'[h] \in {"200", "403"} <=> pc[h] \in {"200", "403"}
  BY <1>2 DEF AuditInv, Recorded
<1>3. ASSUME NEW h \in Viewers, UNCHANGED deleted, \A g \in Viewers \ {h} : pc'[g] = pc[g],
             audit' = [i \in DOMAIN audit \cup {NextId} |-> IF i = NextId THEN h ELSE audit[i]],
             pc'[h] \in {"200", "403"}
      PROVE  AuditInv'
  <2>1. NextId \notin DOMAIN audit
    BY NextIsFree
  <2>2. /\ DOMAIN audit' = DOMAIN audit \cup {NextId} /\ audit'[NextId] = h
        /\ \A i \in DOMAIN audit : audit'[i] = audit[i]
    BY <1>3, <2>1
  <2>3. Recorded(h)'
    BY <2>2 DEF Recorded
  <2>4. ASSUME NEW g \in Viewers \ {h} PROVE Recorded(g)' <=> Recorded(g)
    BY <1>3, <2>2 DEF Recorded
  <2> QED BY <1>3, <2>3, <2>4 DEF AuditInv
<1>4. ASSUME NEW id \in DOMAIN audit, audit' = [i \in DOMAIN audit \ {id} |-> audit[i]],
             deleted' = deleted \cup {audit[id]}, UNCHANGED pc
      PROVE  AuditInv'
  <2>1. ASSUME NEW g \in Viewers PROVE Recorded(g)' <=> Recorded(g)
    BY <1>4 DEF Recorded
  <2> QED BY <1>4, <2>1 DEF AuditInv
<1> QED BY <1>1, <1>2, <1>3, <1>4 DEF AuditMove

-----------------------------------------------------------------------------
(* The pages *)

LEMMA BoundedSet ==
  ASSUME NEW n \in Nat, NEW S, S \subseteq 1 .. n
  PROVE  S \subseteq Nat /\ IsFiniteSet(S) /\ Cardinality(S) \in Nat
<1>1. S \in SUBSET Nat /\ \A i \in S : i <= n
  OBVIOUS
<1>2. IsFiniteSet(S)
  BY <1>1, FS_BoundedSetOfNaturals
<1> QED BY <1>1, <1>2, FS_CardinalityType

LEMMA IdsFinite ==
  ASSUME Kinds
  PROVE  Ids \subseteq Nat /\ IsFiniteSet(Ids) /\ Cardinality(Ids) \in Nat /\ \E n \in Nat : Ids \subseteq 1 .. n
<1>1. \E n \in Nat : Ids \subseteq 1 .. n
  <2>1. DOMAIN subs = 1 .. Len(subs) /\ Len(subs) \in Nat
    BY DEF Kinds
  <2> QED BY <2>1 DEF Kinds, Ids
<1> QED BY <1>1, BoundedSet

LEMMA IdsFiniteNext ==
  ASSUME Kinds'
  PROVE  Ids' \subseteq Nat /\ IsFiniteSet(Ids') /\ Cardinality(Ids') \in Nat /\ \E n \in Nat : Ids' \subseteq 1 .. n
<1>1. \E n \in Nat : Ids' \subseteq 1 .. n
  <2>1. DOMAIN subs' = 1 .. Len(subs') /\ Len(subs') \in Nat
    BY DEF Kinds
  <2> QED BY <2>1 DEF Kinds, Ids
<1> QED BY <1>1, BoundedSet

\* The larger of two ids has fewer before it.
LEMMA BeforeKind ==
  ASSUME Kinds, NEW id \in Ids
  PROVE  /\ Before(id) \in Nat
         /\ \A j \in Ids : j <= id => Before(id) <= Before(j)
<1>1. Ids \subseteq Nat /\ IsFiniteSet(Ids)
  BY IdsFinite
<1>2. ASSUME NEW j \in Ids PROVE IsFiniteSet({k \in Ids : k > j}) /\ Before(j) \in Nat
  <2>1. {k \in Ids : k > j} \in SUBSET Ids
    OBVIOUS
  <2> QED BY <1>1, <2>1, FS_Subset, FS_CardinalityType DEF Before
<1>3. ASSUME NEW j \in Ids, j <= id PROVE Before(id) <= Before(j)
  <2>1. ASSUME NEW k \in Ids, k > id PROVE k > j
    <3>1. k \in Nat /\ j \in Nat /\ id \in Nat
      BY <1>1
    <3> QED BY <1>3, <2>1, <3>1
  <2>2. {k \in Ids : k > id} \in SUBSET {k \in Ids : k > j}
    BY <2>1
  <2> QED BY <1>2, <2>2, FS_Subset DEF Before
<1> QED BY <1>2, <1>3

\* More ids, more before each.
LEMMA BeforeGrows ==
  ASSUME Kinds, Kinds', Ids \subseteq Ids', NEW id \in Ids
  PROVE  Before(id)' >= Before(id) /\ Before(id)' \in Nat /\ Before(id) \in Nat
<1>1. IsFiniteSet(Ids) /\ IsFiniteSet(Ids')
  BY IdsFinite, IdsFiniteNext
<1>2. {j \in Ids : j > id} \in SUBSET {j \in Ids' : j > id} /\ {j \in Ids' : j > id} \in SUBSET Ids'
  OBVIOUS
<1>3. IsFiniteSet({j \in Ids' : j > id})
  BY <1>1, <1>2, FS_Subset
<1> QED BY <1>2, <1>3, FS_Subset, FS_CardinalityType DEF Before

\* A page that lies before the end of the list has rows.
LEMMA PageHasRows ==
  ASSUME Kinds, NEW k \in Nat, k < Cardinality(Ids)
  PROVE  \E id \in Ids : Before(id) = k
<1>1. Ids \subseteq Nat /\ IsFiniteSet(Ids) /\ Cardinality(Ids) \in Nat /\ \E n \in Nat : Ids \subseteq 1 .. n
  BY IdsFinite
<1> PICK n \in Nat : Ids \subseteq 1 .. n
  BY <1>1
<1> DEFINE T == {id \in Ids : Before(id) >= k}
<1>2. Ids # {}
  BY <1>1, FS_EmptySet
<1>3. T # {}
  <2>1. PICK i \in Ids : \A j \in Ids : i <= j
    BY <1>1, <1>2, LeastOf
  <2>2. ASSUME NEW j \in Ids PROVE j > i <=> j # i
    <3>1. j \in Nat /\ i \in Nat /\ i <= j
      BY <1>1, <2>1
    <3> QED BY <3>1
  <2>3. {j \in Ids : j > i} = Ids \ {i}
    BY <2>2
  <2>4. Before(i) = Cardinality(Ids) - 1
    BY <1>1, <2>3, FS_RemoveElement DEF Before
  <2> QED BY <1>1, <2>4
<1>4. PICK i \in T : \A j \in T : j <= i
  <2>1. T \subseteq Ids
    OBVIOUS
  <2> HIDE DEF T
  <2>2. T \subseteq 1 .. n
    BY <2>1
  <2>3. T \subseteq Nat /\ \A j \in T : j <= n
    BY <2>2
  <2> QED BY <1>3, <2>3, GreatestOf
<1> DEFINE B == {j \in Ids : j > i}
<1>5. i \in Ids /\ i \in Nat /\ Before(i) >= k
  BY <1>1
<1>6. IsFiniteSet(B) /\ Before(i) = Cardinality(B) /\ Before(i) \in Nat /\ B \subseteq Nat
  <2>1. B \in SUBSET Ids
    OBVIOUS
  <2> QED BY <1>1, <1>5, <2>1, FS_Subset, BeforeKind DEF Before
<1>7. ASSUME Before(i) # k PROVE FALSE
  <2>1. Before(i) > k /\ Before(i) >= 1
    BY <1>5, <1>6, <1>7
  <2>2. B # {}
    BY <1>6, <2>1, FS_EmptySet
  <2>3. PICK m \in B : \A j \in B : m <= j
    <3> HIDE DEF B
    <3> QED BY <1>6, <2>2, LeastOf
  <2>4. m \in Ids /\ m \in Nat /\ m > i
    BY <1>1
  <2>5. ASSUME NEW j \in Ids PROVE j > m <=> j \in B /\ j # m
    <3>1. j \in Nat
      BY <1>1
    <3>2. j \in B <=> j > i
      OBVIOUS
    <3>3. j \in B => m <= j
      BY <2>3
    <3> QED BY <1>5, <2>4, <3>1, <3>2, <3>3
  <2>6. {j \in Ids : j > m} = B \ {m}
    BY <2>5
  <2>7. Before(m) = Cardinality(B) - 1
    BY <1>6, <2>3, <2>6, FS_RemoveElement DEF Before
  <2>8. m \in T
    BY <1>6, <2>1, <2>4, <2>7
  <2>9. m <= i
    BY <1>4, <2>8
  <2> QED BY <1>5, <2>4, <2>9
<1> QED BY <1>4, <1>7

LEMMA PageProduct ==
  ASSUME NEW a \in Nat, NEW b \in Nat
  PROVE  /\ a * PageSize \in Nat
         /\ a <= b => a * PageSize <= b * PageSize
         /\ (a + 1) * PageSize = a * PageSize + PageSize
BY RecordsAssumption

\* The last page is the one before which something is left.
LEMMA PagesNeeded ==
  ASSUME NEW n \in Nat
  PROVE  /\ TotalPages(n) \in Nat \ {0}
         /\ \A k \in Nat : 1 < k /\ k <= TotalPages(n) => (k - 1) * PageSize < n
<1> DEFINE d == (n + PageSize - 1) \div PageSize
           T == {1, d}
<1>1. PageSize \in Nat \ {0}
  BY RecordsAssumption
<1>2. d \in Nat /\ d * PageSize <= n + PageSize - 1
  BY <1>1
<1>3. T \subseteq Nat /\ T # {} /\ \A k \in T : k <= d + 1
  <2> HIDE DEF d
  <2> QED BY <1>2
<1>4. Max(T) \in T /\ \A k \in T : k <= Max(T)
  <2> HIDE DEF T
  <2>1. d + 1 \in Nat
    BY <1>2
  <2> HIDE DEF d
  <2> QED BY <1>3, <2>1, MaxOf
<1>5. TotalPages(n) = Max(T)
  BY DEF TotalPages
<1> HIDE DEF d
<1>6. ASSUME NEW k \in Nat, 1 < k, k <= TotalPages(n) PROVE (k - 1) * PageSize < n
  <2>1. k <= d
    BY <1>2, <1>4, <1>5, <1>6
  <2>2. k * PageSize <= d * PageSize /\ k * PageSize = (k - 1) * PageSize + PageSize
    <3>1. k - 1 \in Nat /\ k - 1 + 1 = k
      BY <1>6
    <3> QED BY <1>2, <2>1, <3>1, PageProduct
  <2>3. (k - 1) * PageSize \in Nat /\ k * PageSize \in Nat /\ d * PageSize \in Nat
    <3>1. k - 1 \in Nat
      BY <1>6
    <3> QED BY <1>2, <3>1, PageProduct
  <2> QED BY <1>1, <1>2, <2>2, <2>3
<1>7. Max(T) \in Nat \ {0}
  BY <1>2, <1>4
<1> QED BY <1>5, <1>6, <1>7

\* A step as the open page sees it.
PageMove ==
  \/ page' = page /\ Ids \subseteq Ids'
  \/ Count /\ UNCHANGED <<subs, audit>>
  \/ ReadRows /\ UNCHANGED <<subs, audit>>
  \/ Controls /\ UNCHANGED <<subs, audit>>
  \/ Turn /\ UNCHANGED <<subs, audit>>
  \/ /\ page.step = "shown"
     /\ page' = [page EXCEPT !.step = "count", !.walk = FALSE,
                   !.no = IF Cardinality(page.rows) = 1 /\ @ > 1 THEN @ - 1 ELSE @]
  \/ page' = [page EXCEPT !.raced = TRUE, !.walk = FALSE]
  \/ page' = [page EXCEPT !.step = "closed"]

LEMMA Paging == ASSUME Kinds, VersionsGrow, [Next]_vars PROVE PageMove
<1>1. DOMAIN subs \subseteq DOMAIN subs'
  BY Judging, SubsStep DEF VersionsGrow
<1>2. ASSUME page' = page, DOMAIN audit \subseteq DOMAIN audit' PROVE PageMove
  BY <1>1, <1>2 DEF PageMove, Ids
<1>3. ASSUME NEW h \in Viewers, View(h) \/ ReadPolicy(h) \/ ReadDetails(h) \/ RecordAccess(h) PROVE PageMove
  <2>1. page' = page /\ DOMAIN audit \subseteq DOMAIN audit'
    BY <1>3 DEF View, ReadPolicy, ReadDetails, RecordAccess
  <2> QED BY <1>2, <2>1
<1>4. ASSUME NEW g \in Submitters, Submit(g) \/ FindProblem(g) \/ Insert(g) PROVE PageMove
  BY <1>2, <1>4 DEF Submit, FindProblem, Insert
<1>5. ASSUME (\E id \in DOMAIN subs : Judged(id) \/ Rejudged(id)) \/ Tick \/ ChangePolicy PROVE PageMove
  BY <1>2, <1>5 DEF Judged, Rejudged, Tick, ChangePolicy
<1>6. CASE UNCHANGED vars
  BY <1>2, <1>6 DEF vars
<1>7. ASSUME NEW id \in DOMAIN audit, Delete(id) \/ DeletedElsewhere(id) PROVE PageMove
  BY <1>7 DEF Delete, DeletedElsewhere, PageMove
<1>8. ASSUME Count \/ ReadRows \/ Controls \/ Turn PROVE PageMove
  BY <1>8 DEF Count, ReadRows, Controls, Turn, Rest, judge, PageMove
<1>9. CASE Crash
  <2>1. page' = [page EXCEPT !.step = "closed"] \/ (page' = page /\ UNCHANGED audit)
    BY <1>9 DEF Crash
  <2> QED BY <1>2, <2>1 DEF PageMove
<1> QED BY <1>3, <1>4, <1>5, <1>6, <1>7, <1>8, <1>9 DEF Next

LEMMA PageKind == ASSUME Kinds, PageMove PROVE page' \in PageRows
<1>1. page \in PageRows /\ page.total \in Nat /\ page.no \in Nat \ {0}
  BY DEF Kinds, PageRows
<1>2. Ids \subseteq Nat /\ Cardinality(Ids) \in Nat
  BY IdsFinite
<1>3. CASE Count
  BY <1>1, <1>2, <1>3 DEF Count, PageRows
<1>4. CASE ReadRows
  <2>1. Slice(page.no) \subseteq Ids
    BY DEF Slice
  <2> QED BY <1>1, <1>2, <1>4, <2>1 DEF ReadRows, PageRows
<1>5. CASE Controls
  <2>1. TotalPages(page.total) \in Nat \ {0}
    BY <1>1, PagesNeeded
  <2> QED BY <1>1, <1>5, <2>1 DEF Controls, PageRows
<1>6. CASE Turn
  <2>1. TotalPages(page.total) \in Nat \ {0}
    BY <1>1, PagesNeeded
  <2> PICK n \in 1 .. TotalPages(page.total) \cup {page.no} :
        page' = [page EXCEPT !.no = n, !.step = "count",
                   !.walk = n = 1 \/ (@ /\ page.step = "shown" /\ n = page.no + 1)]
    BY <1>6 DEF Turn
  <2>2. n \in Nat \ {0}
    BY <1>1, <2>1
  <2> QED BY <1>1, <2>2 DEF PageRows
<1>7. CASE page' = [page EXCEPT !.step = "count", !.walk = FALSE,
                   !.no = IF Cardinality(page.rows) = 1 /\ @ > 1 THEN @ - 1 ELSE @]
  <2> PICK n \in Nat \ {0} : page' = [page EXCEPT !.step = "count", !.walk = FALSE, !.no = n]
    <3>1. page.no > 1 => page.no - 1 \in Nat \ {0}
      BY <1>1
    <3> QED BY <1>1, <1>7, <3>1 DEF PageRows
  <2> QED BY <1>1 DEF PageRows
<1>8. CASE page' = [page EXCEPT !.raced = TRUE, !.walk = FALSE] \/ page' = [page EXCEPT !.step = "closed"]
  BY <1>1, <1>8 DEF PageRows
<1>9. CASE page' = page
  BY <1>1, <1>9
<1> QED BY <1>3, <1>4, <1>5, <1>6, <1>7, <1>8, <1>9 DEF PageMove

LEMMA KindsStep == ASSUME Kinds, VersionsGrow, [Next]_vars PROVE Kinds'
<1>1. subs' \in Seq(Nat) /\ version' \in Nat
  BY Judging, SubsStep DEF VersionsGrow
<1>2. pc' \in [Submitters \cup Viewers -> Places] /\ req' \in [Viewers -> RequestRows]
  BY RequestsKind
<1>3. \E n \in Nat : DOMAIN audit' \subseteq 1 .. n
  BY Auditing, AuditKind
<1>4. page' \in PageRows
  BY Paging, PageKind
<1> QED BY <1>1, <1>2, <1>3, <1>4 DEF Kinds

\* What the pages up to this one have not shown lies behind all they showed.
LEMMA ReadingWalks ==
  ASSUME Kinds, WalkInv, ReadRows, UNCHANGED <<subs, audit>>
  PROVE  WalkInv'
<1> DEFINE n == page.no
           due == (IF n = 1 THEN Ids ELSE page.due) \ Slice(n)
<1>1. /\ page \in PageRows /\ page.step = "rows" /\ n \in Nat \ {0}
      /\ page' = [page EXCEPT !.rows = Slice(n), !.step = "controls", !.due = due]
  BY DEF Kinds, PageRows, ReadRows
<1>2. page'.rows = Slice(n) /\ page'.due = due /\ page'.no = n /\ page'.walk = page.walk /\ page'.step = "controls"
      /\ page'.of = page.of /\ Ids' = Ids
  BY <1>1 DEF PageRows, Ids
<1>3. ASSUME page.walk, NEW id \in due PROVE id \in Ids /\ Before(id) >= n * PageSize
  <2>1. id \in Ids /\ Before(id) >= (n - 1) * PageSize
    <3>1. CASE n = 1
      <4>1. id \in Ids /\ Before(id) \in Nat
        BY <3>1, BeforeKind
      <4>2. (n - 1) * PageSize = 0
        BY <3>1, RecordsAssumption
      <4> QED BY <4>1, <4>2
    <3>2. CASE n # 1
      <4>1. Shown = n - 1 /\ Shown > 0 /\ id \in page.due
        BY <1>1, <3>2 DEF Shown
      <4> QED BY <1>1, <1>3, <4>1 DEF WalkInv
    <3> QED BY <3>1, <3>2
  <2>2. ~ (Before(id) < n * PageSize)
    BY <2>1 DEF Slice
  <2>3. Before(id) \in Nat /\ n * PageSize \in Nat
    BY <1>1, <2>1, BeforeKind, PageProduct
  <2> QED BY <2>1, <2>2, <2>3
<1>4. ASSUME page.walk, NEW id \in due, NEW shown \in Slice(n) PROVE id < shown
  <2>1. id \in Ids /\ Before(id) >= n * PageSize /\ shown \in Ids /\ Before(shown) < n * PageSize
    BY <1>3, <1>4 DEF Slice
  <2>2. id \in Nat /\ shown \in Nat
    BY <2>1, IdsFinite
  <2>3. Before(id) \in Nat /\ Before(shown) \in Nat /\ n * PageSize \in Nat
    BY <1>1, <2>1, BeforeKind, PageProduct
  <2>4. shown <= id => Before(id) <= Before(shown)
    BY <2>1, BeforeKind
  <2> QED BY <2>1, <2>2, <2>3, <2>4
<1>5. \A id : Before(id)' = Before(id)
  BY <1>2 DEF Before
<1>6. Shown' = n
  BY <1>2 DEF Shown
<1> HIDE DEF due
<1> QED BY <1>2, <1>3, <1>4, <1>5, <1>6 DEF WalkInv

LEMMA WalkStep == ASSUME Kinds, Kinds', WalkInv, PageMove PROVE WalkInv'
<1>1. page \in PageRows /\ page.no \in Nat \ {0}
  BY DEF Kinds, PageRows
<1>2. ASSUME ~page'.walk PROVE WalkInv'
  BY <1>2 DEF WalkInv
<1>3. ASSUME page'.step = "closed" PROVE WalkInv'
  BY <1>3 DEF WalkInv
<1>4. CASE page' = page /\ Ids \subseteq Ids'
  <2>1. Shown' = Shown /\ Shown \in Nat
    BY <1>1, <1>4 DEF Shown
  <2>2. ASSUME page.walk, page.step # "closed", Shown > 0, NEW id \in page.due
        PROVE  id \in Ids' /\ Before(id)' >= Shown * PageSize
    <3>1. id \in Ids /\ Before(id) >= Shown * PageSize
      BY <2>2 DEF WalkInv
    <3>2. Before(id)' >= Before(id) /\ Before(id)' \in Nat /\ Before(id) \in Nat
      BY <1>4, <3>1, BeforeGrows
    <3>3. Shown * PageSize \in Nat
      BY <2>1, PageProduct
    <3> QED BY <1>4, <3>1, <3>2, <3>3
  <2> QED BY <1>4, <2>1, <2>2 DEF WalkInv
<1>5. ASSUME UNCHANGED <<subs, audit>>, page'.of = page.of, page'.due = page.due,
             page'.step \in {"count", "rows"}, Shown' > 0 => page.walk /\ page.step # "closed" /\ Shown = Shown'
      PROVE  WalkInv'
  <2>1. Ids' = Ids /\ \A id : Before(id)' = Before(id)
    BY <1>5 DEF Ids, Before
  <2> QED BY <1>5, <2>1 DEF WalkInv
<1>6. CASE Count /\ UNCHANGED <<subs, audit>>
  <2>1. /\ page'.of = page.of /\ page'.due = page.due /\ page'.step = "rows" /\ page'.walk = page.walk
        /\ page'.no = page.no /\ page.step = "count"
    BY <1>1, <1>6 DEF Count, PageRows
  <2>2. Shown' = Shown
    BY <2>1 DEF Shown
  <2> QED BY <1>2, <1>5, <1>6, <2>1, <2>2
<1>7. CASE ReadRows /\ UNCHANGED <<subs, audit>>
  BY <1>7, ReadingWalks
<1>8. CASE Controls /\ UNCHANGED <<subs, audit>>
  <2>1. CASE page' = [page EXCEPT !.no = TotalPages(page.total), !.step = "count", !.walk = FALSE]
    BY <1>1, <1>2, <2>1 DEF PageRows
  <2>2. CASE page' = [page EXCEPT !.step = "shown"]
    <3>1. /\ page'.of = page.of /\ page'.due = page.due /\ page'.walk = page.walk /\ page'.no = page.no
          /\ page'.rows = page.rows /\ page'.step = "shown" /\ page.step = "controls"
      BY <1>1, <1>8, <2>2 DEF PageRows, Controls
    <3>2. Shown' = Shown /\ Ids' = Ids /\ \A id : Before(id)' = Before(id)
      BY <1>8, <3>1 DEF Shown, Ids, Before
    <3> QED BY <3>1, <3>2 DEF WalkInv
  <2> QED BY <1>8, <2>1, <2>2 DEF Controls
<1>9. CASE Turn /\ UNCHANGED <<subs, audit>>
  <2>1. PICK n \in 1 .. TotalPages(page.total) \cup {page.no} :
          page' = [page EXCEPT !.no = n, !.step = "count",
                     !.walk = n = 1 \/ (@ /\ page.step = "shown" /\ n = page.no + 1)]
    BY <1>9 DEF Turn
  <2>2. /\ page'.of = page.of /\ page'.due = page.due /\ page'.no = n /\ page'.step = "count"
        /\ page'.walk = (n = 1 \/ (page.walk /\ page.step = "shown" /\ n = page.no + 1))
    BY <1>1, <2>1 DEF PageRows
  <2>3. CASE n = 1
    <3>1. Shown' = 0
      BY <2>2, <2>3 DEF Shown
    <3> QED BY <1>5, <1>9, <2>2, <3>1
  <2>4. CASE page.walk /\ page.step = "shown" /\ n = page.no + 1
    <3>1. Shown' = page.no /\ Shown = page.no
      BY <1>1, <2>2, <2>4 DEF Shown
    <3> QED BY <1>5, <1>9, <2>2, <2>4, <3>1
  <2> QED BY <1>2, <2>2, <2>3, <2>4
<1>10. CASE \/ page' = [page EXCEPT !.raced = TRUE, !.walk = FALSE]
            \/ page' = [page EXCEPT !.step = "count", !.walk = FALSE,
                          !.no = IF Cardinality(page.rows) = 1 /\ @ > 1 THEN @ - 1 ELSE @]
  BY <1>1, <1>2, <1>10 DEF PageRows
<1>11. CASE page' = [page EXCEPT !.step = "closed"]
  BY <1>1, <1>3, <1>11 DEF PageRows
<1> QED BY <1>4, <1>6, <1>7, <1>8, <1>9, <1>10, <1>11 DEF PageMove

LEMMA StrandStep == ASSUME Kinds, Kinds', StrandInv, PageMove PROVE StrandInv'
<1>1. page \in PageRows /\ page.no \in Nat \ {0} /\ page.total \in Nat
  BY DEF Kinds, PageRows
<1>2. Cardinality(Ids) \in Nat /\ Cardinality(Ids') \in Nat
  BY IdsFinite, IdsFiniteNext
<1>3. ASSUME page'.step \in {"closed", "count"} PROVE StrandInv'
  BY <1>3 DEF StrandInv
<1>4. CASE page' = page /\ Ids \subseteq Ids'
  <2>1. Cardinality(Ids) <= Cardinality(Ids')
    <3>1. IsFiniteSet(Ids') /\ Ids \in SUBSET Ids'
      BY <1>4, IdsFiniteNext
    <3> QED BY <3>1, FS_Subset
  <2> QED BY <1>1, <1>2, <1>4, <2>1 DEF StrandInv
<1>5. CASE Count /\ UNCHANGED <<subs, audit>>
  <2>1. page'.total = Cardinality(Ids) /\ page'.step = "rows" /\ Ids' = Ids
    BY <1>1, <1>5 DEF Count, PageRows, Ids
  <2> QED BY <1>2, <2>1 DEF StrandInv
<1>6. CASE ReadRows /\ UNCHANGED <<subs, audit>>
  <2>1. /\ page'.total = page.total /\ page'.step = "controls" /\ page'.no = page.no /\ page'.rows = Slice(page.no)
        /\ page'.raced = page.raced /\ page.step = "rows"
    BY <1>1, <1>6 DEF ReadRows, PageRows
  <2>2. ASSUME Slice(page.no) = {}, page.total <= Cardinality(Ids) PROVE page.total <= (page.no - 1) * PageSize
    <3> DEFINE k == (page.no - 1) * PageSize
    <3>1. k \in Nat /\ k < page.no * PageSize
      <4>1. page.no - 1 \in Nat /\ page.no - 1 + 1 = page.no /\ PageSize \in Nat \ {0}
        BY <1>1, RecordsAssumption
      <4>2. page.no * PageSize = (page.no - 1) * PageSize + PageSize /\ (page.no - 1) * PageSize \in Nat
        BY <4>1, PageProduct
      <4> QED BY <4>1, <4>2
    <3> HIDE DEF k
    <3>2. ASSUME k < Cardinality(Ids) PROVE FALSE
      <4> PICK id \in Ids : Before(id) = k
        BY <3>1, <3>2, PageHasRows
      <4>1. id \in Slice(page.no)
        BY <3>1 DEF Slice, k
      <4> QED BY <2>2, <4>1
    <3>3. page.total <= k
      BY <1>1, <1>2, <2>2, <3>1, <3>2
    <3> QED BY <3>3 DEF k
  <2> QED BY <2>1, <2>2 DEF StrandInv
<1>7. CASE Controls /\ UNCHANGED <<subs, audit>>
  <2>1. CASE page.no > TotalPages(page.total)
    <3>1. page'.step = "count"
      BY <1>1, <1>7, <2>1 DEF Controls, PageRows
    <3> QED BY <1>3, <3>1
  <2>2. CASE ~(page.no > TotalPages(page.total))
    <3>1. /\ page'.total = page.total /\ page'.step = "shown" /\ page'.no = page.no /\ page'.rows = page.rows
          /\ page'.raced = page.raced /\ page.step = "controls"
      BY <1>1, <1>7, <2>2 DEF Controls, PageRows
    <3>2. page.no <= TotalPages(page.total)
      <4>1. TotalPages(page.total) \in Nat
        BY <1>1, PagesNeeded
      <4> QED BY <1>1, <2>2, <4>1
    <3> QED BY <3>1, <3>2 DEF StrandInv, TotalPages
  <2> QED BY <2>1, <2>2
<1>8. CASE Turn
  <2>1. page'.step = "count"
    BY <1>1, <1>8 DEF Turn, PageRows
  <2> QED BY <1>3, <2>1
<1>9. CASE page' = [page EXCEPT !.raced = TRUE, !.walk = FALSE]
  <2>1. page'.raced /\ page'.step = page.step /\ page'.no = page.no /\ page'.total = page.total
    BY <1>1, <1>9 DEF PageRows
  <2> QED BY <2>1 DEF StrandInv, TotalPages
<1>10. CASE \/ page' = [page EXCEPT !.step = "closed"]
            \/ page' = [page EXCEPT !.step = "count", !.walk = FALSE,
                          !.no = IF Cardinality(page.rows) = 1 /\ @ > 1 THEN @ - 1 ELSE @]
  <2>1. page'.step \in {"closed", "count"}
    BY <1>1, <1>10 DEF PageRows
  <2> QED BY <1>3, <2>1
<1> QED BY <1>4, <1>5, <1>6, <1>7, <1>8, <1>9, <1>10 DEF PageMove

-----------------------------------------------------------------------------
(* The theorems *)

LEMMA Initially == Init => IInv
<1> SUFFICES ASSUME Init PROVE IInv
  OBVIOUS
<1> USE DEF Init
<1>1. Kinds
  <2>1. subs \in Seq(Nat)
    <3>1. OldSubs \in Nat /\ subs = [i \in 1 .. OldSubs |-> 0]
      BY RecordsAssumption
    <3> QED BY <3>1
  <2>2. DOMAIN audit \subseteq 1 .. OldAudit /\ OldAudit \in Nat
    BY RecordsAssumption
  <2>3. page \in PageRows
    BY DEF PageRows
  <2>4. pc \in [Submitters \cup Viewers -> Places] /\ req \in [Viewers -> RequestRows]
    BY DEF Places, RequestRows, NoRequest
  <2> QED BY <2>1, <2>2, <2>3, <2>4 DEF Kinds
<1>2. WindowInv
  <2>1. Limit \in Nat
    BY RecordsAssumption
  <2> QED BY <2>1 DEF WindowInv, LimiterWindow
<1>3. VersionsGrow /\ DetailsNotOlder /\ Consents /\ DetailsNeedConsent
  BY DEF VersionsGrow, DetailsNotOlder, Consents, DetailsNeedConsent, NoRequest, Running
<1>4. AuditInv
  BY RecordsAssumption DEF AuditInv, Recorded
<1>5. PageInv
  BY DEF PageInv, WalkInv, StrandInv
<1> QED BY <1>1, <1>2, <1>3, <1>4, <1>5 DEF IInv

LEMMA Inductive == IInv /\ [Next]_vars => IInv'
<1> SUFFICES ASSUME IInv, [Next]_vars PROVE IInv'
  OBVIOUS
<1>1. Kinds /\ WindowInv /\ ReaderInv /\ VersionsGrow /\ AuditInv /\ WalkInv /\ StrandInv
  BY DEF IInv, ReaderInv, PageInv
<1>2. Kinds'
  BY <1>1, KindsStep
<1>3. WindowInv'
  BY <1>1, WindowStep
<1>4. ReaderInv'
  BY <1>1, ReaderInvStep
<1>5. AuditInv'
  BY <1>1, AuditStep
<1>6. WalkInv' /\ StrandInv'
  <2>1. PageMove
    BY <1>1, Paging
  <2> QED BY <1>1, <1>2, <2>1, WalkStep, StrandStep
<1> QED BY <1>2, <1>3, <1>4, <1>5, <1>6 DEF IInv, ReaderInv, PageInv

\* The invariant holds of every run of the program.
THEOREM Invariance == RecordsSpec => []IInv
<1>1. Init => IInv
  BY Initially
<1>2. IInv /\ [Next]_vars => IInv'
  BY Inductive
<1> QED BY <1>1, <1>2, PTL DEF RecordsSpec

\* RateLimiter.check: of the admissions the process remembers, any two that
\* are Limit apart lie more than a window apart.
THEOREM LimitKept == RecordsSpec => []LimiterWindow
<1>1. IInv => LimiterWindow
  BY DEF IInv, WindowInv
<1> QED BY <1>1, Invariance, PTL

\* get_submission_log: whatever the judge stores or withdraws between the two
\* reads, the details are never those of an older result than the score.
THEOREM ShownNotOlder == RecordsSpec => []DetailsNotOlder
<1>1. IInv => DetailsNotOlder
  BY DEF IInv
<1> QED BY <1>1, Invariance, PTL

\* get_submission_log: nobody but an administrator sees the details unless
\* the problem made them public at some time while the request ran.
THEOREM ShownWithConsent == RecordsSpec => []DetailsNeedConsent
<1>1. IInv => DetailsNeedConsent
  BY DEF IInv
<1> QED BY <1>1, Invariance, PTL

\* get_submission_log: each answer about a submission has its audit record or
\* had it before an administrator deleted it, and no other answer has one.
THEOREM AnswersAudited == RecordsSpec => []AuditTellsAnswer
<1>1. ASSUME AuditInv PROVE AuditTellsAnswer
  <2>1. ASSUME NEW h \in Viewers PROVE h \in Range(audit) \cup deleted <=> pc[h] \in {"200", "403"}
    <3>1. h \in Range(audit) <=> \E i \in DOMAIN audit : audit[i] = h
      BY DEF Range
    <3> QED BY <1>1, <3>1 DEF AuditInv, Recorded
  <2> QED BY <2>1 DEF AuditTellsAnswer
<1>2. IInv => AuditTellsAnswer
  BY <1>1 DEF IInv
<1> QED BY <1>2, Invariance, PTL

\* The pages of app.py: a walk from page 1 leaves out nothing page 1 counted,
\* whatever is submitted or recorded between two pages.
THEOREM WalksComplete == RecordsSpec => []PagesMissNothing
<1>1. IInv => PagesMissNothing
  BY DEF IInv, PageInv, WalkInv, PagesMissNothing
<1> QED BY <1>1, Invariance, PTL

\* _pagination_controls: a page that has settled is empty only if nothing was
\* counted or a record went between the count and the rows.
THEOREM PagesNotStranded == RecordsSpec => []NotStranded
<1>1. ASSUME Kinds, StrandInv, page.step = "shown", page.rows = {}, ~page.raced PROVE page.total = 0
  <2>1. page.no \in Nat \ {0} /\ page.total \in Nat
    BY <1>1 DEF Kinds, PageRows
  <2>2. page.no <= TotalPages(page.total) /\ page.total <= (page.no - 1) * PageSize
    BY <1>1 DEF StrandInv
  <2>3. CASE page.no = 1
    <3>1. (page.no - 1) * PageSize = 0
      BY <2>3, RecordsAssumption
    <3> QED BY <2>1, <2>2, <3>1
  <2>4. CASE page.no # 1
    <3>1. (page.no - 1) * PageSize < page.total
      <4>1. page.no \in Nat /\ 1 < page.no /\ page.no <= TotalPages(page.total)
        BY <2>1, <2>2, <2>4
      <4> QED BY <2>1, <4>1, PagesNeeded
    <3>2. (page.no - 1) * PageSize \in Nat
      <4>1. page.no - 1 \in Nat
        BY <2>1
      <4> QED BY <4>1, PageProduct
    <3> QED BY <2>1, <2>2, <3>1, <3>2
  <2> QED BY <2>3, <2>4
<1>2. IInv => NotStranded
  BY <1>1 DEF IInv, PageInv, NotStranded
<1> QED BY <1>2, Invariance, PTL
================================================================================
