---------------------------- MODULE JudgeService ----------------------------
(***************************************************************************)
(* The life of a submission: app/services/judge_service.py together with   *)
(* the three handlers that drive it (create and rejudge in                 *)
(* app/routers/submissions.py, reset in app/routers/maintenance.py) and    *)
(* the restart in app/main.py.                                             *)
(*                                                                         *)
(* One action is what runs on the event loop between two awaits.  A task   *)
(* awaits at its pc:                                                       *)
(*   load     mkdtemp and the read of the submission                       *)
(*   run      compilation and the test cases                               *)
(*   reread   the second db.get of _finish                                 *)
(*   commit   the commit of _finish                                        *)
(*   cleanup  the rmtree of the finally block                              *)
(*   done     the coroutine ended, its done-callback has not run           *)
(*   reaped   the done-callback has run                                    *)
(* A database commit is atomic and lands before the awaiting coroutine is  *)
(* resumed.                                                                *)
(***************************************************************************)
EXTENDS Integers, Sequences, FiniteSets

CONSTANTS
  MaxSubs,      \* bound: submission ids the database hands out
  MaxTasks,     \* bound: judge tasks ever created
  MaxCases,     \* bound: test cases of a problem
  CaseVerdicts, \* the verdicts a run of one test case may return
  LegacyRuns,   \* results of rows an older version stored with status "error"
  Creators, Rejudgers, Resetters, \* HTTP requests, each arriving at most once
  MaxFaults,    \* bound: I/O errors (disk full, database locked, ...)
  MaxCrashes    \* bound: process crashes

Requests == Creators \cup Rejudgers \cup Resetters
NormalVerdicts == {"AC", "WA", "TLE", "MLE", "RE"}
Verdicts == NormalVerdicts \cup {"UNK", "CE"}

ASSUME BoundsAssumption ==
  /\ MaxSubs \in Nat \ {0}
  /\ MaxTasks \in Nat \ {0}
  /\ MaxCases \in Nat \ {0}
  /\ MaxFaults \in Nat
  /\ MaxCrashes \in Nat

ASSUME DataAssumption ==
  /\ CaseVerdicts \subseteq NormalVerdicts \cup {"UNK"}
  /\ LegacyRuns \subseteq Seq(NormalVerdicts) \ {<<>>}

ASSUME RequestsAssumption ==
  /\ Creators \cap Rejudgers = {}
  /\ Creators \cap Resetters = {}
  /\ Rejudgers \cap Resetters = {}

Subs == 1 .. MaxSubs
Tasks == 1 .. MaxTasks
NoTask == 0
NoSub == 0
Null == -1

VARIABLES
  life,      \* "down", "starting" (the lifespan's start-up) or "up"
  todo,      \* ids requeue_pending still has to schedule
  sub,       \* table submissions: id -> row
  cases,     \* table testcase_results: id -> verdicts in case order
  emptied,   \* ghost: settled rows whose results a rejudge deleted, their columns kept
  gens,      \* _generations (0: no entry)
  reg,       \* _judge_tasks (NoTask: no entry)
  pc, tsub, tgen, cancelled, \* per task: where it is, its arguments, cancel requested
  trap,      \* per task: inside an except block of judge_submission
  seen,      \* per task: the row its session loaded in _finish
  out,       \* per task: the columns and results it is about to store
  hpc, hsub, hseen, hwait, htodo, \* per request: the handler's locals
  faults, crashes, \* I/O errors and crashes so far
  hurt       \* submissions that met an I/O error since the last start

dbVars == <<sub, cases, emptied>>
memVars == <<gens, reg>>
taskVars == <<pc, tsub, tgen, cancelled, trap, seen, out>>
handlerVars == <<hpc, hsub, hseen, hwait, htodo>>
envVars == <<life, todo, faults, crashes, hurt>>
vars == <<dbVars, memVars, taskVars, handlerVars, envVars>>

-----------------------------------------------------------------------------
(* Rows and results *)

NoCounts == [v \in Verdicts |-> 0]
NoRow == [status |-> "absent", score |-> Null, total |-> Null, counts |-> NoCounts]
PendingRow == [NoRow EXCEPT !.status = "pending"]
Settled == {"success", "error"}

\* Counter(r.result for r in results)
Counter(rs) == [v \in Verdicts |-> Cardinality({i \in DOMAIN rs : rs[i] = v})]

\* Mutant: a case that could not be judged costs points.
FinishedRow_Penalty(rs) ==
  [status |-> IF \E i \in DOMAIN rs : rs[i] = "UNK" THEN "error" ELSE "success",
   score  |-> 10 * (Counter(rs)["AC"] - Counter(rs)["UNK"]),
   total  |-> 10 * Len(rs),
   counts |-> Counter(rs)]

\* The columns _judge computes when every test case has run.
FinishedRow(rs) ==
  [status |-> IF \E i \in DOMAIN rs : rs[i] = "UNK" THEN "error" ELSE "success",
   score  |-> 10 * Counter(rs)["AC"],
   total  |-> 10 * Len(rs),
   counts |-> Counter(rs)]

ErrorRow(verdict, total) ==
  [status |-> "error", score |-> 0, total |-> total,
   counts |-> [NoCounts EXCEPT ![verdict] = 1]]

InternalError == [row |-> ErrorRow("UNK", Null), cases |-> <<>>]

CaseRuns == UNION {[1 .. n -> CaseVerdicts] : n \in 1 .. MaxCases}

\* What _judge may hand to _finish without raising.
JudgeOutcomes ==
  {InternalError}   \* the language is not registered any more
    \cup {[row |-> ErrorRow("CE", 10 * n), cases |-> <<>>] : n \in 1 .. MaxCases}
    \cup {[row |-> FinishedRow(rs), cases |-> rs] : rs \in CaseRuns}

Outcomes == {[row |-> NoRow, cases |-> <<>>]} \cup JudgeOutcomes

\* What an older version stored for a run without UNK
LegacyRow(rs) == [FinishedRow(rs) EXCEPT !.status = "error"]

\* A session flushes only the columns whose value differs from the loaded one;
\* a column assigned the value it was loaded with keeps what the table holds now.
Flushed(current, loaded, new) == IF new = loaded THEN current ELSE new

OrmUpdate(current, loaded, new) ==
  [status |-> Flushed(current.status, loaded.status, new.status),
   score  |-> Flushed(current.score, loaded.score, new.score),
   total  |-> Flushed(current.total, loaded.total, new.total),
   counts |-> Flushed(current.counts, loaded.counts, new.counts)]

\* A reset has dropped testcase_results and not yet submissions, or failed there.
DetailsGone == \E h \in Resetters : hpc[h] \in {"dropping", "broken"}

\* An UPDATE was due and matched no row: StaleDataError.
UpdateMisses(current, loaded, new) == current = NoRow /\ new # loaded

\* Mutant: old rows are left as they are.
Normalized_Untouched(row) == row

\* normalize_legacy_results, for one row
Normalized(row) ==
  IF /\ row.status \notin {"absent", "pending"}
     /\ row.counts # NoCounts
     /\ {v \in Verdicts : row.counts[v] > 0} \subseteq NormalVerdicts
  THEN [row EXCEPT !.status = "success"]
  ELSE row

-----------------------------------------------------------------------------
(* Scheduling and cancelling *)

Running(t) == pc[t] \in {"load", "run", "reread", "commit", "cleanup"}

Current(t) == tsub[t] \in Subs /\ gens[tsub[t]] = tgen[t]

NextTask(t) == pc[t] = "free" /\ \A u \in Tasks : pc[u] = "free" => t <= u

\* schedule_judge(s); t is the new asyncio task
Schedule(s, t) ==
  /\ NextTask(t)
  /\ gens' = [gens EXCEPT ![s] = @ + 1]
  /\ reg' = [reg EXCEPT ![s] = t]
  /\ pc' = [pc EXCEPT ![t] = "load"]
  /\ tsub' = [tsub EXCEPT ![t] = s]
  /\ tgen' = [tgen EXCEPT ![t] = gens[s] + 1]
  /\ UNCHANGED <<cancelled, trap, seen, out>>

MustCancel(s) == reg[s] # NoTask /\ Running(reg[s])

\* task.cancel() and the gather that awaits it
StopAndWait(h, s) ==
  /\ cancelled' = [cancelled EXCEPT ![reg[s]] = TRUE]
  /\ hwait' = [hwait EXCEPT ![h] = reg[s]]
  /\ hpc' = [hpc EXCEPT ![h] = "waiting"]

\* cancel_judge(s) called by handler h, which continues at next
CancelJudge(h, s, next) ==
  /\ gens' = [gens EXCEPT ![s] = @ + 1]
  /\ IF MustCancel(s)
     THEN StopAndWait(h, s)
     ELSE hpc' = [hpc EXCEPT ![h] = next] /\ UNCHANGED <<cancelled, hwait>>
  /\ UNCHANGED <<reg, pc, tsub, tgen, trap, seen, out>>

\* shutdown with the ids rest still to do, up to its next wait: the ids that
\* need none are passed by without one, and after the last the tables are cleared.
Shutdown(h, rest) ==
  /\ \/ \E s \in rest : \E passed \in SUBSET {r \in rest : ~MustCancel(r)} :
          /\ MustCancel(s)
          /\ gens' = [r \in Subs |-> IF r \in passed \cup {s} THEN gens[r] + 1 ELSE gens[r]]
          /\ StopAndWait(h, s)
          /\ htodo' = [htodo EXCEPT ![h] = rest \ (passed \cup {s})]
          /\ UNCHANGED reg
     \/ /\ \A r \in rest : ~MustCancel(r)
        /\ gens' = [r \in Subs |-> 0]
        /\ reg' = [r \in Subs |-> NoTask]
        /\ htodo' = [htodo EXCEPT ![h] = {}]
        /\ hpc' = [hpc EXCEPT ![h] = "drop"]
        /\ hwait' = [hwait EXCEPT ![h] = NoTask]
        /\ UNCHANGED cancelled
  /\ UNCHANGED <<pc, tsub, tgen, trap, seen, out>>

\* asyncio.gather(task) in cancel_judge can return
WaitOver(h) == life = "up" /\ hpc[h] = "waiting" /\ pc[hwait[h]] = "reaped"

-----------------------------------------------------------------------------
(* The task: judge_submission, _judge and _finish *)

At(t, where) == life = "up" /\ pc[t] = where /\ ~cancelled[t]

NoOutcome == [row |-> NoRow, cases |-> <<>>]

\* The task leaves _judge and _finish; their locals are gone.
Leave(t, where) ==
  /\ pc' = [pc EXCEPT ![t] = where]
  /\ trap' = [trap EXCEPT ![t] = FALSE]
  /\ seen' = [seen EXCEPT ![t] = NoRow]
  /\ out' = [out EXCEPT ![t] = NoOutcome]

\* _finish is called: the first test of the generation
EnterFinish(t, o, excepting) ==
  IF Current(t)
  THEN /\ pc' = [pc EXCEPT ![t] = "reread"]
       /\ out' = [out EXCEPT ![t] = o]
       /\ trap' = [trap EXCEPT ![t] = excepting]
       /\ seen' = [seen EXCEPT ![t] = NoRow]
  ELSE Leave(t, "cleanup")

\* Mutant: an exception is logged and nothing more.
Raise_OnlyLogs(t) == Leave(t, "cleanup")

\* An exception in the body leads to _finish(..., "error", ...); one in the
\* except block itself only runs the finally block.
Raise(t) ==
  IF trap[t] THEN Leave(t, "cleanup") ELSE EnterFinish(t, InternalError, TRUE)

TaskFrame == UNCHANGED <<memVars, tsub, tgen, cancelled, handlerVars>>

TLoad(t) ==
  /\ At(t, "load")
  /\ pc' = [pc EXCEPT ![t] = IF sub[tsub[t]] = NoRow THEN "cleanup" ELSE "run"]
  /\ TaskFrame
  /\ UNCHANGED <<dbVars, trap, seen, out, envVars>>

TJudge(t) ==
  /\ At(t, "run")
  /\ \E o \in JudgeOutcomes : EnterFinish(t, o, FALSE)
  /\ TaskFrame
  /\ UNCHANGED <<dbVars, envVars>>

\* The problem is gone or unreadable: ApiError or another exception.
TJudgeRaises(t) ==
  /\ At(t, "run")
  /\ Raise(t)
  /\ TaskFrame
  /\ UNCHANGED <<dbVars, envVars>>

TReread(t) ==
  /\ At(t, "reread")
  /\ IF sub[tsub[t]] # NoRow /\ Current(t)
     THEN /\ pc' = [pc EXCEPT ![t] = "commit"]
          /\ seen' = [seen EXCEPT ![t] = sub[tsub[t]]]
          /\ UNCHANGED <<trap, out>>
     ELSE Leave(t, "cleanup")
  /\ TaskFrame
  /\ UNCHANGED <<dbVars, envVars>>

\* The rows a commit of task t leaves in the database
StoreResult(t) ==
  /\ sub' = [sub EXCEPT ![tsub[t]] = OrmUpdate(@, seen[t], out[t].row)]
  /\ cases' = [cases EXCEPT ![tsub[t]] = out[t].cases]
  /\ emptied' = emptied \ {tsub[t]}

\* The commit of task t raises: its row is gone, or the table of the results.
CommitRaises(t) == DetailsGone \/ UpdateMisses(sub[tsub[t]], seen[t], out[t].row)

TCommit(t) ==
  /\ At(t, "commit")
  /\ IF CommitRaises(t)
     THEN Raise(t) /\ UNCHANGED dbVars
     ELSE StoreResult(t) /\ Leave(t, "cleanup")
  /\ TaskFrame
  /\ UNCHANGED envVars

\* Mutant: a cancelled task never gets out of its finally block.
TCleanup_Hangs(t) ==
  /\ life = "up"
  /\ pc[t] = "cleanup"
  /\ pc' = [pc EXCEPT ![t] = IF cancelled[t] THEN "cleanup" ELSE "done"]
  /\ TaskFrame
  /\ UNCHANGED <<dbVars, trap, seen, out, envVars>>

TCleanup(t) ==
  /\ life = "up"
  /\ pc[t] = "cleanup"
  /\ pc' = [pc EXCEPT ![t] = "done"]
  /\ TaskFrame
  /\ UNCHANGED <<dbVars, trap, seen, out, envVars>>

\* CancelledError is thrown into the task.  The commit it interrupts runs in
\* the connection's thread and may land all the same.  A cancelled mkdtemp is
\* outside the try statement.
Unwind(t) ==
  /\ life = "up"
  /\ cancelled[t]
  /\ pc[t] \in {"load", "run", "reread", "commit"}
  /\ \/ pc[t] = "load" /\ Leave(t, "done")
     \/ Leave(t, "cleanup")
  /\ \/ UNCHANGED dbVars
     \/ /\ pc[t] = "commit"
        /\ ~CommitRaises(t)
        /\ StoreResult(t)
  /\ TaskFrame
  /\ UNCHANGED envVars

\* Mutant: the callback does not ask whose registration it removes.
Reap_AnyTask(t) ==
  /\ life = "up"
  /\ pc[t] = "done"
  /\ pc' = [pc EXCEPT ![t] = "reaped"]
  /\ reg' = [reg EXCEPT ![tsub[t]] = NoTask]
  /\ UNCHANGED <<dbVars, gens, tsub, tgen, cancelled, trap, seen, out, handlerVars, envVars>>

\* The done-callback: only the registered task removes the registration.
Reap(t) ==
  /\ life = "up"
  /\ pc[t] = "done"
  /\ pc' = [pc EXCEPT ![t] = "reaped"]
  /\ reg' = [reg EXCEPT ![tsub[t]] = IF @ = t THEN NoTask ELSE @]
  /\ UNCHANGED <<dbVars, gens, tsub, tgen, cancelled, trap, seen, out, handlerVars, envVars>>

\* mkdtemp fails (outside the try), or the database does in _finish.
TaskFault(t) ==
  /\ faults < MaxFaults
  /\ \/ At(t, "load") /\ Leave(t, "done")
     \/ (At(t, "reread") \/ At(t, "commit")) /\ Raise(t)
  /\ faults' = faults + 1
  /\ hurt' = hurt \cup {tsub[t]}
  /\ TaskFrame
  /\ UNCHANGED <<dbVars, life, todo, crashes>>

-----------------------------------------------------------------------------
(* The handlers *)

Answer(h, how) == hpc' = [hpc EXCEPT ![h] = how]

\* SQLite without AUTOINCREMENT hands out max(id) + 1.
NextId(s) ==
  /\ \A r \in Subs : r >= s => sub[r] = NoRow
  /\ s > 1 => sub[s - 1] # NoRow

CreateCommit(h, s) ==
  /\ life = "up" /\ hpc[h] = "idle"
  /\ NextId(s)
  /\ sub' = [sub EXCEPT ![s] = PendingRow]
  /\ hsub' = [hsub EXCEPT ![h] = s]
  /\ hpc' = [hpc EXCEPT ![h] = "schedule"]
  /\ UNCHANGED <<cases, emptied, memVars, taskVars, hseen, hwait, htodo, envVars>>

\* db.refresh, then schedule_judge; refreshing a vanished row raises.
CreateSchedule(h) ==
  /\ life = "up" /\ hpc[h] = "schedule" /\ h \in Creators
  /\ IF sub[hsub[h]] = NoRow
     THEN Answer(h, "failed") /\ UNCHANGED <<memVars, taskVars>>
     ELSE /\ \E t \in Tasks : Schedule(hsub[h], t)
          /\ Answer(h, "answered")
  /\ UNCHANGED <<dbVars, hsub, hseen, hwait, htodo, envVars>>

RejudgeLoad(h, s) ==
  /\ life = "up" /\ hpc[h] = "idle"
  /\ hsub' = [hsub EXCEPT ![h] = s]
  /\ hseen' = [hseen EXCEPT ![h] = sub[s]]
  /\ Answer(h, IF sub[s] = NoRow THEN "failed" ELSE "cancel")
  /\ UNCHANGED <<dbVars, memVars, taskVars, hwait, htodo, envVars>>

RejudgeCancel(h) ==
  /\ life = "up" /\ hpc[h] = "cancel"
  /\ CancelJudge(h, hsub[h], "reset")
  /\ UNCHANGED <<dbVars, hsub, hseen, htodo, envVars>>

RejudgeCancelReturns(h) ==
  /\ WaitOver(h) /\ h \in Rejudgers
  /\ hwait' = [hwait EXCEPT ![h] = NoTask]
  /\ Answer(h, "reset")
  /\ UNCHANGED <<dbVars, memVars, taskVars, hsub, hseen, htodo, envVars>>

\* Mutant: the old details are not deleted with the old score.
RejudgeCommit_KeepsCases(h) ==
  /\ life = "up" /\ hpc[h] = "reset"
  /\ IF DetailsGone \/ UpdateMisses(sub[hsub[h]], hseen[h], PendingRow)
     THEN Answer(h, "failed") /\ UNCHANGED dbVars
     ELSE /\ sub' = [sub EXCEPT ![hsub[h]] = OrmUpdate(@, hseen[h], PendingRow)]
          /\ Answer(h, "schedule")
          /\ UNCHANGED <<cases, emptied>>
  /\ hseen' = [hseen EXCEPT ![h] = NoRow]
  /\ UNCHANGED <<memVars, taskVars, hsub, hwait, htodo, envVars>>

\* A row that was loaded as pending has nothing to write, also when the old
\* task's commit has landed since; the results are deleted all the same.
RejudgeCommit(h) ==
  /\ life = "up" /\ hpc[h] = "reset"
  /\ IF DetailsGone \/ UpdateMisses(sub[hsub[h]], hseen[h], PendingRow)
     THEN Answer(h, "failed") /\ UNCHANGED dbVars
     ELSE /\ sub' = [sub EXCEPT ![hsub[h]] = OrmUpdate(@, hseen[h], PendingRow)]
          /\ cases' = [cases EXCEPT ![hsub[h]] = <<>>]
          /\ emptied' = IF sub'[hsub[h]].status \in Settled THEN emptied \cup {hsub[h]} ELSE emptied
          /\ Answer(h, "schedule")
  /\ hseen' = [hseen EXCEPT ![h] = NoRow]
  /\ UNCHANGED <<memVars, taskVars, hsub, hwait, htodo, envVars>>

RejudgeSchedule(h) ==
  /\ life = "up" /\ hpc[h] = "schedule" /\ h \in Rejudgers
  /\ \E t \in Tasks : Schedule(hsub[h], t)
  /\ Answer(h, "answered")
  /\ UNCHANGED <<dbVars, hsub, hseen, hwait, htodo, envVars>>

\* reset calls shutdown, which takes the snapshot list(_judge_tasks).
ResetBegin(h) ==
  /\ life = "up" /\ hpc[h] = "idle"
  /\ Shutdown(h, {s \in Subs : reg[s] # NoTask})
  /\ UNCHANGED <<dbVars, hsub, hseen, envVars>>

ResetCancelReturns(h) ==
  /\ WaitOver(h) /\ h \in Resetters
  /\ Shutdown(h, htodo[h])
  /\ UNCHANGED <<dbVars, hsub, hseen, envVars>>

\* drop_all is a series of statements, each committed by itself, with
\* testcase_results first.
ResetDropDetails(h) ==
  /\ life = "up" /\ hpc[h] = "drop"
  /\ cases' = [s \in Subs |-> <<>>]
  /\ Answer(h, "dropping")
  /\ UNCHANGED <<sub, emptied, memVars, taskVars, hsub, hseen, hwait, htodo, envVars>>

\* The rest of drop_all, and create_all.
ResetDrop(h) ==
  /\ life = "up" /\ hpc[h] = "dropping"
  /\ sub' = [s \in Subs |-> NoRow]
  /\ emptied' = {}
  /\ Answer(h, "answered")
  /\ UNCHANGED <<cases, memVars, taskVars, hsub, hseen, hwait, htodo, envVars>>

\* The refresh of a create or the commit of a rejudge fails, or a statement of
\* drop_all; what the reset has dropped stays so until the next start.
HandlerFault(h) ==
  /\ faults < MaxFaults
  /\ life = "up"
  /\ \/ /\ hpc[h] = "reset" \/ (h \in Creators /\ hpc[h] = "schedule")
        /\ Answer(h, "failed")
        /\ hurt' = hurt \cup {hsub[h]}
     \/ /\ hpc[h] \in {"drop", "dropping"}
        /\ Answer(h, IF hpc[h] = "drop" THEN "failed" ELSE "broken")
        /\ hurt' = Subs
  /\ faults' = faults + 1
  /\ UNCHANGED <<dbVars, memVars, taskVars, hsub, hseen, hwait, htodo, life, todo, crashes>>

-----------------------------------------------------------------------------
(* Crash and restart *)

Ended == {"idle", "answered", "failed", "broken", "dead"}

Crash ==
  /\ life # "down"
  /\ crashes < MaxCrashes
  /\ crashes' = crashes + 1
  /\ life' = "down"
  /\ todo' = {} /\ hurt' = {}
  /\ gens' = [s \in Subs |-> 0]
  /\ reg' = [s \in Subs |-> NoTask]
  /\ pc' = [t \in Tasks |-> IF pc[t] = "free" THEN "free" ELSE "reaped"]
  /\ trap' = [t \in Tasks |-> FALSE]
  /\ seen' = [t \in Tasks |-> NoRow]
  /\ out' = [t \in Tasks |-> NoOutcome]
  /\ hpc' = [h \in Requests |-> IF hpc[h] \in Ended \ {"broken"} THEN hpc[h] ELSE "dead"]
  /\ hseen' = [h \in Requests |-> NoRow]
  /\ hwait' = [h \in Requests |-> NoTask]
  /\ htodo' = [h \in Requests |-> {}]
  /\ UNCHANGED <<dbVars, tsub, tgen, cancelled, hsub, faults>>

\* Mutant: pending rows of the last life are not requeued.
Start_NoRequeue ==
  /\ life = "down"
  /\ life' = "starting"
  /\ sub' = [s \in Subs |-> Normalized(sub[s])]
  /\ todo' = {}
  /\ UNCHANGED <<cases, emptied, memVars, taskVars, handlerVars, faults, crashes, hurt>>

\* The lifespan up to the query of requeue_pending
Start ==
  /\ life = "down"
  /\ life' = "starting"
  /\ sub' = [s \in Subs |-> Normalized(sub[s])]
  /\ todo' = {s \in Subs : sub[s].status = "pending"}
  /\ UNCHANGED <<cases, emptied, memVars, taskVars, handlerVars, faults, crashes, hurt>>

Requeue(s) ==
  /\ life = "starting"
  /\ s \in todo
  /\ todo' = todo \ {s}
  /\ \E t \in Tasks : Schedule(s, t)
  /\ UNCHANGED <<dbVars, handlerVars, life, faults, crashes, hurt>>

Serve ==
  /\ life = "starting" /\ todo = {}
  /\ life' = "up"
  /\ UNCHANGED <<dbVars, memVars, taskVars, handlerVars, todo, faults, crashes, hurt>>

\* Nothing left to do: every request was answered and every task has ended.
Quiescent ==
  /\ life = "up"
  /\ \A h \in Requests : hpc[h] \in Ended
  /\ \A t \in Tasks : pc[t] \in {"free", "reaped"}
  /\ UNCHANGED vars

-----------------------------------------------------------------------------
Init ==
  /\ life = "down"
  /\ todo = {} /\ hurt = {} /\ faults = 0 /\ crashes = 0
  /\ \E n \in 0 .. MaxSubs : \E runs \in [1 .. n -> {<<>>} \cup LegacyRuns] :
       /\ sub = [s \in Subs |-> IF s > n THEN NoRow
                                ELSE IF runs[s] = <<>> THEN PendingRow
                                ELSE LegacyRow(runs[s])]
       /\ cases = [s \in Subs |-> IF s > n THEN <<>> ELSE runs[s]]
  /\ emptied = {}
  /\ gens = [s \in Subs |-> 0]
  /\ reg = [s \in Subs |-> NoTask]
  /\ pc = [t \in Tasks |-> "free"]
  /\ tsub = [t \in Tasks |-> NoSub]
  /\ tgen = [t \in Tasks |-> 0]
  /\ cancelled = [t \in Tasks |-> FALSE]
  /\ trap = [t \in Tasks |-> FALSE]
  /\ seen = [t \in Tasks |-> NoRow]
  /\ out = [t \in Tasks |-> NoOutcome]
  /\ hpc = [h \in Requests |-> "idle"]
  /\ hsub = [h \in Requests |-> NoSub]
  /\ hseen = [h \in Requests |-> NoRow]
  /\ hwait = [h \in Requests |-> NoTask]
  /\ htodo = [h \in Requests |-> {}]

TaskStep(t) ==
  \/ TLoad(t) \/ TJudge(t) \/ TJudgeRaises(t) \/ TReread(t) \/ TCommit(t)
  \/ TCleanup(t) \/ Unwind(t) \/ Reap(t)

\* The steps of a handler that has begun
HandlerStep(h) ==
  \/ h \in Creators /\ CreateSchedule(h)
  \/ h \in Rejudgers /\ \/ RejudgeCancel(h) \/ RejudgeCancelReturns(h)
                        \/ RejudgeCommit(h) \/ RejudgeSchedule(h)
  \/ h \in Resetters /\ (ResetCancelReturns(h) \/ ResetDropDetails(h) \/ ResetDrop(h))

Arrive(h) ==
  \/ h \in Creators /\ \E s \in Subs : CreateCommit(h, s)
  \/ h \in Rejudgers /\ \E s \in Subs : RejudgeLoad(h, s)
  \/ h \in Resetters /\ ResetBegin(h)

StartStep == (\E s \in Subs : Requeue(s)) \/ Serve

Next ==
  \/ \E t \in Tasks : TaskStep(t) \/ TaskFault(t)
  \/ \E h \in Requests : Arrive(h) \/ HandlerStep(h) \/ HandlerFault(h)
  \/ Crash \/ Start \/ StartStep \/ Quiescent

\* The event loop runs every ready coroutine and the worker threads finish;
\* nothing makes requests arrive, I/O fail or a crashed server restart.
Fairness ==
  /\ \A t \in Tasks : WF_vars(TaskStep(t))
  /\ \A h \in Requests : WF_vars(HandlerStep(h))
  /\ WF_vars(StartStep)

Spec == Init /\ [][Next]_vars /\ Fairness

-----------------------------------------------------------------------------
(* Properties *)

Rows == [status : {"absent", "pending", "success", "error"},
         score : Nat \cup {Null}, total : Nat \cup {Null},
         counts : [Verdicts -> Nat]]
Results == [row : Rows, cases : Seq(Verdicts)]

TaskPlaces == {"free", "load", "run", "reread", "commit", "cleanup", "done", "reaped"}
HandlerPlaces == {"idle", "schedule", "cancel", "waiting", "reset", "drop", "dropping"} \cup Ended

ServerOK ==
  /\ life \in {"down", "starting", "up"}
  /\ todo \subseteq Subs /\ hurt \subseteq Subs
  /\ faults \in 0 .. MaxFaults /\ crashes \in 0 .. MaxCrashes

TablesOK == sub \in [Subs -> Rows] /\ cases \in [Subs -> Seq(Verdicts)] /\ emptied \subseteq Subs

MemoryOK == gens \in [Subs -> Nat] /\ reg \in [Subs -> Tasks \cup {NoTask}]

TasksOK ==
  /\ pc \in [Tasks -> TaskPlaces]
  /\ tsub \in [Tasks -> Subs \cup {NoSub}] /\ tgen \in [Tasks -> Nat]
  /\ cancelled \in [Tasks -> BOOLEAN] /\ trap \in [Tasks -> BOOLEAN]
  /\ seen \in [Tasks -> Rows] /\ out \in [Tasks -> Results]

HandlersOK ==
  /\ hpc \in [Requests -> HandlerPlaces]
  /\ hsub \in [Requests -> Subs \cup {NoSub}] /\ hseen \in [Requests -> Rows]
  /\ hwait \in [Requests -> Tasks \cup {NoTask}] /\ htodo \in [Requests -> SUBSET Subs]

\* Every variable keeps its kind: rows have the columns of the table,
\* registrations name tasks, locals hold what their code puts there.
TypeOK == ServerOK /\ TablesOK /\ MemoryOK /\ TasksOK /\ HandlersOK

\* Task t will give its submission a final state if nothing disturbs it.
Settles(t) ==
  /\ Current(t) /\ ~cancelled[t]
  /\ \/ pc[t] \in {"load", "run", "reread"}
     \/ pc[t] = "commit" /\ seen[t].status = "pending"

\* A pending submission is never forgotten: some task is going to settle it, or
\* the handler that made it pending (or is about to drop it) is still under
\* way, or the next start-up requeues it.  Only an I/O error breaks the chain.
\* The code behind it: schedule_judge, cancel_judge, the generation tests of
\* _finish, requeue_pending and the order of calls in create and rejudge.
HasOwner(s) ==
  \/ life = "down" \/ s \in todo \/ s \in hurt
  \/ \E t \in Tasks : tsub[t] = s /\ Settles(t)
  \/ \E h \in Creators : hsub[h] = s /\ hpc[h] = "schedule"
  \/ \E h \in Rejudgers : hsub[h] = s /\ hpc[h] \in {"waiting", "reset", "schedule"}
  \/ \E h \in Resetters : hpc[h] \in {"waiting", "drop", "dropping"}

PendingHasOwner == \A s \in Subs : sub[s].status = "pending" => HasOwner(s)

NoReset == \A h \in Resetters : hpc[h] = "idle"

\* As long as no reset clears the registry, the task of the current generation
\* is the registered one: the done-callback of a replaced task must not remove
\* its successor, or cancel_judge could no longer find it.
CurrentTaskRegistered ==
  NoReset =>
    \A t \in Tasks : Running(t) /\ Current(t) /\ ~cancelled[t] => reg[tsub[t]] = t

RejudgedOnce(s) == \A h, k \in Rejudgers : hsub[h] = s /\ hsub[k] = s => h = k

\* The row of a submission that no test case was run for
NotRun(row) == \E v \in {"UNK", "CE"} : row = ErrorRow(v, row.total)

\* What is stored about a submission is one result.  The per-case details shown
\* by the log endpoint belong to the score and the counts beside them: _finish
\* writes both in one commit, and neither a cancellation that meets the commit
\* nor a crash separates them.  A settled row without details is one that could
\* not be compiled or judged, with no points.  One rejudge may separate them: it
\* had read the row as pending, the old task's result landed before it was
\* cancelled, and the rejudge deletes the details but writes no column, as none
\* of them differs from what it had read.  The row keeps that result without its
\* details until it is judged again, for good when the server goes down first.
\* And once the server has started,
\* "error" marks a failed judgement only: a row whose counts hold nothing but
\* AC, WA, TLE, MLE and RE says "success", also one of an older version (_judge,
\* normalize_legacy_results).  Two overlapping rejudges break all of it: the
\* columns one of them cleared stay cleared, and a task that saw a success keeps
\* the "error" stored meanwhile.  So does a reset that leaves a task running.
ResultsAgree ==
  \A s \in Subs : NoReset /\ RejudgedOnce(s) =>
    /\ cases[s] # <<>> =>
         /\ sub[s].score = FinishedRow(cases[s]).score
         /\ sub[s].total = FinishedRow(cases[s]).total
         /\ sub[s].counts = Counter(cases[s])
    /\ cases[s] = <<>> /\ sub[s].status \in Settled => NotRun(sub[s]) \/ s \in emptied
    /\ life # "down" /\ sub[s].status = "error" =>
         sub[s].counts["UNK"] > 0 \/ sub[s].counts["CE"] > 0

\* Every pending submission of a running server gets a final state (or is
\* dropped by a reset), unless it met an I/O error or the server goes down.
PendingSettles ==
  \A s \in Subs :
    (life = "up" /\ sub[s].status = "pending")
      ~> (sub[s].status # "pending" \/ s \in hurt \/ life # "up")

\* A handler that waits for a cancelled task is resumed and answers: cancel_judge
\* and shutdown never wait for a task that does not end.
RequestsAnswered ==
  \A h \in Requests : (hpc[h] \notin Ended) ~> (hpc[h] \in Ended)
=============================================================================
