-------------------------------- MODULE Records --------------------------------
(***************************************************************************)
(* What users see of submissions: the submission limit and the creation,   *)
(* the log endpoint with its audit trail, the paged queries                *)
(* (routers/submissions.py, routers/logs.py, core/rate_limit.py) and the   *)
(* two pages of app.py that walk through submissions and audit records.    *)
(*                                                                         *)
(* The judge is reduced to what a reader can tell apart (JudgeService has  *)
(* the rest): a result stores score and details together under a new       *)
(* version, a rejudge withdraws both.  Statements of one handler are       *)
(* separate steps and no snapshot covers two of them.  The time between    *)
(* two resets is modelled: a reset clears the limiter and drops the tables *)
(* (Accounts and JudgeService have it).                                    *)
(***************************************************************************)
EXTENDS Naturals, Sequences, FiniteSetsExt

CONSTANTS
  Submitters,       \* bound: submissions tried, all by one user
  Viewers,          \* bound: requests for a submission's log
  Limit, Window,    \* SUBMIT_RATE_LIMIT, SUBMIT_RATE_WINDOW
  PageSize,         \* 20 in the pages of app.py
  OldSubs, OldAudit, \* submissions and audit records there at the start
  Bounds            \* a set of budgets, one of them chosen at the start

ASSUME RecordsAssumption ==
  /\ {Limit, PageSize} \subseteq Nat \ {0}
  /\ {Window, OldSubs, OldAudit} \subseteq Nat
  /\ Bounds \subseteq [{"submits", "views", "ticks", "results", "changes", "turns", "deletes", "crashes"} -> Nat]
  /\ Submitters \cap Viewers = {} /\ "old" \notin Viewers

VARIABLES
  now, hits,       \* time; the deque of the user's admissions
  subs,            \* submissions in the order of their ids: the version of
                   \* their score, 0 while there is none
  details,         \* the version of the details each of them has, or 0
  version,         \* the last result stored
  policy,          \* the problem file: public, private, gone or torn
  audit,           \* [ids -> who the record is about]
  pc, req,         \* the handlers
  page,            \* the page the administrator has open, of the two
  admitted,        \* ghost: every admission since the process started
  shared,          \* ghost: viewers during whose request the policy was public
  deleted,         \* ghost: whom the deleted records were about
  bound            \* what is left of each budget

clock == <<now, hits, admitted>>
judge == <<subs, details, version>>
handlers == <<pc, req, shared>>
vars == <<clock, judge, policy, audit, handlers, page, deleted, bound>>

NoRequest == [role |-> "none", id |-> 0, score |-> 0, public |-> FALSE, details |-> 0]
Goto(h, p) == pc' = [pc EXCEPT ![h] = p]
Spend(b) == bound[b] > 0 /\ bound' = [bound EXCEPT ![b] = @ - 1]

-----------------------------------------------------------------------------
(* RateLimiter.check and create_submission *)

From(n) == SubSeq(hits, n + 1, Len(hits))

\* mutant: an admission leaves the window one tick early
Fresh_Early == From(CHOOSE n \in 0 .. Len(hits) :
  /\ \A i \in 1 .. n : now - hits[i] >= Window
  /\ n = Len(hits) \/ now - hits[n + 1] < Window)

\* the loop that pops the admissions that have left the window from the front
Fresh == From(CHOOSE n \in 0 .. Len(hits) :
  /\ \A i \in 1 .. n : now - hits[i] > Window
  /\ n = Len(hits) \/ now - hits[n + 1] <= Window)

Submit(h) ==
  /\ pc[h] = "idle" /\ Spend("submits")
  /\ IF Len(Fresh) >= Limit
     THEN Goto(h, "429") /\ hits' = Fresh /\ UNCHANGED admitted
     ELSE Goto(h, "problem") /\ hits' = Append(Fresh, now) /\ admitted' = Append(admitted, now)
  /\ UNCHANGED <<now, judge, policy, audit, req, shared, page, deleted>>

\* a missing or unreadable problem has used up the admission all the same
FindProblem(h) ==
  /\ pc[h] = "problem"
  /\ Goto(h, CASE policy = "gone" -> "404" [] policy = "torn" -> "500" [] OTHER -> "insert")
  /\ UNCHANGED <<clock, judge, policy, audit, req, shared, page, deleted, bound>>

Insert(h) ==
  /\ pc[h] = "insert" /\ Goto(h, "200")
  /\ subs' = Append(subs, 0) /\ details' = Append(details, 0)
  /\ UNCHANGED <<clock, version, policy, audit, req, shared, page, deleted, bound>>

Tick ==
  /\ Spend("ticks") /\ now' = now + 1
  /\ UNCHANGED <<hits, admitted, judge, policy, audit, handlers, page, deleted>>

-----------------------------------------------------------------------------
(* The judge, and administrators changing the problem *)

Judged(id) ==
  /\ subs[id] = 0 /\ Spend("results") /\ version' = version + 1
  /\ subs' = [subs EXCEPT ![id] = version'] /\ details' = [details EXCEPT ![id] = version']
  /\ UNCHANGED <<clock, policy, audit, handlers, page, deleted>>

Rejudged(id) ==
  /\ subs[id] # 0
  /\ subs' = [subs EXCEPT ![id] = 0] /\ details' = [details EXCEPT ![id] = 0]
  /\ UNCHANGED <<clock, version, policy, audit, handlers, page, deleted, bound>>

Running == {h \in Viewers : pc[h] \in {"policy", "details", "allow", "deny"}}

ChangePolicy ==
  /\ Spend("changes")
  /\ policy' \in {"public", "private", "gone", "torn"} \ {policy}
  /\ shared' = IF policy' = "public" THEN shared \cup Running ELSE shared
  /\ UNCHANGED <<clock, judge, audit, pc, req, page, deleted>>

-----------------------------------------------------------------------------
(* get_submission_log, and the reads of get_submission in its first step *)

View(h) ==
  /\ pc[h] = "idle" /\ Spend("views")
  /\ \E r \in {"owner", "other", "admin"}, id \in 1 .. Len(subs) + 1 :
       IF id > Len(subs) THEN Goto(h, "404") /\ UNCHANGED req
       ELSE /\ Goto(h, "policy")
            /\ req' = [req EXCEPT ![h] = [NoRequest EXCEPT !.role = r, !.id = id, !.score = subs[id]]]
  /\ shared' = IF policy = "public" THEN shared \cup {h} ELSE shared
  /\ UNCHANGED <<clock, judge, policy, audit, page, deleted>>

\* mutant: an owner is shown the details of a private problem
ReadPolicy_Owner(h) ==
  /\ pc[h] = "policy"
  /\ req' = [req EXCEPT ![h].public = policy = "public"]
  /\ Goto(h, IF policy = "torn" THEN "500"
             ELSE IF req[h].role = "other" /\ ~req'[h].public THEN "deny" ELSE "details")
  /\ UNCHANGED <<clock, judge, policy, audit, shared, page, deleted, bound>>

\* the problem of an old submission may be gone: it counts as private then
ReadPolicy(h) ==
  /\ pc[h] = "policy"
  /\ req' = [req EXCEPT ![h].public = policy = "public"]
  /\ Goto(h, CASE policy = "torn" -> "500"
               [] req[h].role = "other" /\ ~req'[h].public -> "deny"
               [] req[h].role = "admin" \/ req'[h].public -> "details"
               [] OTHER -> "allow")
  /\ UNCHANGED <<clock, judge, policy, audit, shared, page, deleted, bound>>

\* mutant: the submission is refreshed after the details are read
ReadDetails_Refresh(h) ==
  /\ pc[h] = "details"
  /\ IF req[h].details = 0 /\ details[req[h].id] # 0
     THEN req' = [req EXCEPT ![h].details = details[req[h].id]] /\ UNCHANGED pc
     ELSE req' = [req EXCEPT ![h].score = subs[req[h].id]] /\ Goto(h, "allow")
  /\ UNCHANGED <<clock, judge, policy, audit, shared, page, deleted, bound>>

ReadDetails(h) ==
  /\ pc[h] = "details" /\ Goto(h, "allow")
  /\ req' = [req EXCEPT ![h].details = details[req[h].id]]
  /\ UNCHANGED <<clock, judge, policy, audit, shared, page, deleted, bound>>

\* SQLite gives the id after the largest one there is, so the ids of the last
\* records are used again when these are deleted
NextId == Max({0} \cup DOMAIN audit) + 1

\* mutant: a refusal is raised before its record is committed
RecordAccess_NoCommit(h) ==
  /\ pc[h] \in {"allow", "deny"} /\ Goto(h, IF pc[h] = "allow" THEN "200" ELSE "403")
  /\ audit' = IF pc[h] = "deny" THEN audit ELSE
       [i \in DOMAIN audit \cup {NextId} |-> IF i = NextId THEN h ELSE audit[i]]
  /\ UNCHANGED <<clock, judge, policy, req, shared, page, deleted, bound>>

RecordAccess(h) ==
  /\ pc[h] \in {"allow", "deny"} /\ Goto(h, IF pc[h] = "allow" THEN "200" ELSE "403")
  /\ audit' = [i \in DOMAIN audit \cup {NextId} |-> IF i = NextId THEN h ELSE audit[i]]
  /\ UNCHANGED <<clock, judge, policy, req, shared, page, deleted, bound>>

Answered == {"200", "403", "404", "429", "500", "died"}

\* the process ends: its handlers and the admissions it remembers with it
Crash ==
  /\ Spend("crashes")
  /\ pc' = [h \in DOMAIN pc |-> IF pc[h] \in Answered \cup {"idle"} THEN pc[h] ELSE "died"]
  /\ hits' = <<>> /\ admitted' = <<>>
  /\ page' = IF page.step \in {"count", "rows"} THEN [page EXCEPT !.step = "closed"] ELSE page
  /\ UNCHANGED <<now, judge, policy, audit, req, shared, deleted>>

-----------------------------------------------------------------------------
(* The pages.  A run of the script sends one query, answered by a count and
   a read of the rows in descending order of their ids, and ends with the
   pagination controls, whose buttons start the next run.                 *)

Ids == IF page.of = "audit" THEN DOMAIN audit ELSE DOMAIN subs
\* the rows are read in descending order of their ids: how many come before
Before(id) == Cardinality({j \in Ids : j > id})
TotalPages(n) == Max({1, (n + PageSize - 1) \div PageSize})
\* mutant: the offset is page * page_size
Slice_Offset(n) == {id \in Ids : n * PageSize <= Before(id) /\ Before(id) < (n + 1) * PageSize}

Slice(n) == {id \in Ids : (n - 1) * PageSize <= Before(id) /\ Before(id) < n * PageSize}

Rest == <<clock, judge, policy, handlers, deleted>>

Count ==
  /\ page.step = "count"
  /\ page' = [page EXCEPT !.total = Cardinality(Ids), !.step = "rows", !.raced = FALSE]
  /\ UNCHANGED <<Rest, audit, bound>>

\* "due": what page 1 found and the pages up to this one have not shown
ReadRows ==
  /\ page.step = "rows"
  /\ page' = [page EXCEPT !.rows = Slice(page.no), !.step = "controls",
                !.due = (IF page.no = 1 THEN Ids ELSE @) \ Slice(page.no)]
  /\ UNCHANGED <<Rest, audit, bound>>

\* mutant: a page past the last one is left as it is
Controls_NoClamp ==
  /\ page.step = "controls" /\ page' = [page EXCEPT !.step = "shown"]
  /\ UNCHANGED <<Rest, audit, bound>>

\* _pagination_controls: a page past the last one starts the script again
Controls ==
  /\ page.step = "controls"
  /\ page' = IF page.no > TotalPages(page.total)
             THEN [page EXCEPT !.no = TotalPages(page.total), !.step = "count", !.walk = FALSE]
             ELSE [page EXCEPT !.step = "shown"]
  /\ UNCHANGED <<Rest, audit, bound>>

\* opening the page, a button of the controls, or any other interaction: a
\* change of the filters goes to page 1, the rest stays on the page
Turn ==
  /\ page.step \in {"shown", "closed"} /\ Spend("turns")
  /\ \E n \in 1 .. TotalPages(page.total) \cup {page.no} :
       page' = [page EXCEPT !.no = n, !.step = "count",
                  !.walk = n = 1 \/ (@ /\ page.step = "shown" /\ n = page.no + 1)]
  /\ UNCHANGED <<Rest, audit>>

\* delete_access_log, as the audit page calls it after a confirmation
Delete(id) ==
  /\ page.of = "audit" /\ page.step = "shown" /\ Spend("deletes")
  /\ id \in page.rows /\ audit' = Restrict(audit, DOMAIN audit \ {id})
  /\ deleted' = deleted \cup {audit[id]}
  /\ page' = [page EXCEPT !.step = "count", !.walk = FALSE,
                !.no = IF Cardinality(page.rows) = 1 /\ @ > 1 THEN @ - 1 ELSE @]
  /\ UNCHANGED <<clock, judge, policy, handlers>>

\* by another administrator; a second delete is answered 404
DeletedElsewhere(id) ==
  /\ Spend("deletes") /\ audit' = Restrict(audit, DOMAIN audit \ {id})
  /\ deleted' = deleted \cup {audit[id]}
  /\ page' = [page EXCEPT !.raced = TRUE, !.walk = FALSE]
  /\ UNCHANGED <<clock, judge, policy, handlers>>

-----------------------------------------------------------------------------
Init ==
  /\ now = 0 /\ hits = <<>> /\ admitted = <<>> /\ version = 0
  /\ subs = [i \in 1 .. OldSubs |-> 0] /\ details = subs
  /\ policy \in {"public", "private", "gone", "torn"}
  /\ audit = [i \in 1 .. OldAudit |-> "old"]
  /\ pc = [h \in Submitters \cup Viewers |-> "idle"]
  /\ req = [h \in Viewers |-> NoRequest]
  /\ \E p \in {"submissions", "audit"} :
       page = [of |-> p, no |-> 1, step |-> "closed", total |-> 0, rows |-> {},
               due |-> {}, walk |-> FALSE, raced |-> FALSE]
  /\ shared = {} /\ deleted = {}
  /\ bound \in Bounds

Next ==
  \/ \E h \in Submitters : Submit(h) \/ FindProblem(h) \/ Insert(h)
  \/ \E h \in Viewers : View(h) \/ ReadPolicy(h) \/ ReadDetails(h) \/ RecordAccess(h)
  \/ \E id \in DOMAIN subs : Judged(id) \/ Rejudged(id)
  \/ \E id \in DOMAIN audit : Delete(id) \/ DeletedElsewhere(id)
  \/ Count \/ ReadRows \/ Controls \/ Turn \/ Tick \/ ChangePolicy \/ Crash

RecordsSpec == Init /\ [][Next]_vars

-----------------------------------------------------------------------------
(* Properties *)

\* The sliding window of RateLimiter.check keeps its promise between any two
\* requests: admissions Limit apart lie more than a window apart.
LimiterWindow ==
  \A i \in 1 .. Len(admitted) - Limit : admitted[i + Limit] - admitted[i] > Window

\* get_submission_log reads the score and the details in two statements: a
\* rejudge between them may leave details out or show newer ones, never the
\* details of a result older than the score.
DetailsNotOlder ==
  \A h \in Viewers : req[h].details # 0 => req[h].details >= req[h].score

\* Test case details reach a user other than an administrator only if the
\* problem had them public at some time while the request ran.
DetailsNeedConsent ==
  \A h \in Viewers : req[h].details # 0 /\ req[h].role # "admin" => h \in shared

\* Every answer about an existing submission, given or refused, has its audit
\* record, unless an administrator deleted it; a 404 and a 500 leave none.
AuditTellsAnswer ==
  \A h \in Viewers :
    LET recorded == h \in Range(audit) \cup deleted
    IN  /\ pc[h] \in {"200", "403"} => recorded
        /\ pc[h] \in {"404", "500"} => ~recorded

\* A user who walks from page 1 with "next" is shown every record page 1
\* counted, down to the oldest one shown so far, whatever is added meanwhile.
PagesMissNothing ==
  page.step = "shown" /\ page.walk =>
    \A id \in page.due : \A shown \in page.rows : id < shown

\* A page that has settled shows rows when there are any, after every
\* deletion and jump, unless a record went between the count and the read.
NotStranded ==
  page.step = "shown" /\ page.rows = {} => page.total = 0 \/ page.raced
================================================================================
