# OJ Online: TLA+ models

This directory models the online judge in this repository (a FastAPI backend in
`src/app/`, a Streamlit front end in `src/app.py`) in TLA+. TLC checks the
models on small instances and TLAPS checks proofs about them for every value of
their constants. `PROJECT.json` lists components, runs, mutants, the map from
definitions to source lines, findings, hazards and theorems.

## The system

The backend is one process with one asyncio event loop, a pool of executor
threads (`asyncio.to_thread`), a SQLite database and a directory of JSON
files. The event loop runs one coroutine at a time, so everything between two
`await`s is atomic, and everything that matters happens at the `await`s. The
files are handled by threads, where every system call is a point at which
another thread, the reset or a crash may come in between.

| Component | State | Operations | Interaction | What is hard | What makes it correct |
|---|---|---|---|---|---|
| Judge service (`services/judge_service.py`, handlers in `routers/submissions.py`, `routers/maintenance.py`, `main.py`) | rows of `submissions` and `testcase_results`; in memory `_judge_tasks`, `_generations` | `schedule_judge`, `cancel_judge`, `shutdown`, `judge_submission`, `_finish`, `requeue_pending`, `normalize_legacy_results` | handlers call it and await its tasks; the tasks write the rows the handlers write | rejudge against a finishing task, overlapping rejudges, reset, crash, a failing commit | a pending row always has somebody who settles it; details belong to the score; waiting handlers answer |
| Judge runner (`judge/runner.py`) | executor jobs, worker thread, process group, work directory | `compile`, `run_case`, `_execute_async`, `_execute`, `_kill_group` | awaited by the judge task; cancelled by `task.cancel()` | cancellation at every await, a process that exits while it is killed, files written while they are deleted | no process group outlives the task; the directory outlives the worker; a verdict is earned |
| Output comparison, paging (`judge/runner.py`, `core/pagination.py`) | none | `compare`, page queries | pure; pages are read while rows come and go | trailing blanks; two statements per page | equal to a plain definition; a walk misses nothing |
| Rate limiter (`core/rate_limit.py`) | `_hits` per user | `check`, cleared by reset | called first in `create_submission` | window edge, restart | never more than `limit` admissions in a window |
| AI tasks (`services/ai_service.py`, `routers/ai.py`) | rows of `ai_tasks`; `_tasks`, `_cancelled` | create, retry, refine, run, cancel, shutdown, `fail_stale_tasks` | background tasks call a model service; handlers cancel and await them | cancel against finish, the ticker's writes, timeout, restart | a terminal state is final, a cancelled task is never `done` afterwards |
| AI event streams (`ai_service.py`) | `_events`: queues per subscriber | `_push`, `sse_stream` | tasks and cancel push, streams read | subscription against the final event, full queue | every stream ends with the final state |
| AI usage and billing (`ai_service.py`) | `usage` column | `build_usage`, `merge_usage`, `_call_model` | called in the task | retry of an empty answer, review call, unknown and mixed costs | every answer is billed once, no cost is invented |
| AI model configuration (`ai_service.py`) | `ai_config.json`, `ai_secret.key` | `load`, `save` | threads under a lock; reset without it | crash between files, reset | a stored configuration fits the stored key |
| Problem store (`services/problem_store.py`) | one JSON file per problem | create, save-as-new, update, visibility, delete, get, list | threads under a lock; reset without it; read by judge and AI tasks | create and write are two steps, full disk, crash, reset | the files behave like an atomic map |
| Problem id migration (`services/problem_migration.py`) | files and references | `migrate_safe_ids`, `migrate_problem_references` | at start-up | crash between the two, clashing names | nothing is lost, references follow the files, it is done once |
| Accounts and sessions (`core/deps.py`, `core/routing.py`, `routers/auth.py`, `routers/users.py`, `services/user_service.py`) | `users`, `sessions`, `role_change_logs` | register, login, logout, role, rename | every handler depends on them | statements of requests interleave, ids are given again after a reset | names are unique, an action was authorised, the log explains the roles |
| Languages (`routers/languages.py`, `services/language_service.py`) | `languages` | register, list | looked up by judge and create | registration during a reset | the defaults are there when a reset has ended |
| Submission queries and access log (`routers/submissions.py`, `routers/logs.py`) | `access_logs` | list, detail, log, delete | read what the judge writes | score, policy and details in separate statements | who sees details, every access logged |
| Front end (`app.py`, `frontend_cookie.py`) | Streamlit session per tab, one browser cookie | login, logout, restore, pages | HTTP to the backend, a component in an iframe | reloads, outages, several tabs | a login is lost only when it should be, a logout stays |
| Database, configuration, errors, `run.sh` | — | — | — | — | — |

## The modules

### JudgeService

The life of a submission: the background task, the handlers create, rejudge
and reset, the registry and the generations, the start-up and crashes.

* One action is what runs on the event loop between two awaits. A task is at
  the await its `pc` names (`load`, `run`, `reread`, `commit`, `cleanup`,
  then `done` and `reaped`), a handler at the one its `hpc` names.
* `sub` and `cases` are the two tables, `gens` is `_generations`, `reg` is
  `_judge_tasks`. `Schedule`, `CancelJudge` and `Shutdown` are the functions of
  the same names, used by the handler actions. `Shutdown` is one step up to its
  next wait: an id whose task has ended is passed without an await.
* The object-relational mapper is part of the behaviour: a session writes only
  the columns that differ from the row it loaded (`OrmUpdate`), and an UPDATE
  of a vanished row raises (`UpdateMisses`). The row loaded is in `seen` (task)
  and `hseen` (rejudge).
* `_judge` returns any outcome the code can compute: an internal error, a
  failed compilation, or any sequence of verdicts of at most `MaxCases` cases,
  with the status, score, total and counts the code derives.
* Cancellation (`Unwind`) may meet a commit under way, which then lands or not.
  A cancelled `mkdtemp` is outside the `try` statement. The callback `Reap` runs
  a step later than the end of the task.
* A reset's `drop_all` and `create_all` are statements that SQLite commits one by
  one, `testcase_results` first. Two steps tell the states apart that a task or a
  rejudge can meet: `ResetDropDetails` (from then on a commit that touches the
  details raises, `DetailsGone`) and `ResetDrop`, the rest. `Accounts` has every
  statement. Left out are the moment of `create_all` between `submissions` and
  `testcase_results`, and a failing `create_all`.
* `TaskFault` and `HandlerFault` are I/O errors at the awaits where one is not
  caught by a general handler, and at the statements of `drop_all`; the
  submissions they hit are in `hurt`. `emptied` is a history variable as well: the
  settled rows whose details a rejudge deleted without writing a column.
* `Crash` may happen at any point; memory is lost, commits stay. `Start`,
  `Requeue` and `Serve` are the lifespan. A graceful exit is a crash here: what
  `shutdown` cancels then is requeued by the next start, like after a crash.

Left out: the text columns, the user and the code of a submission, the checks
of `create_submission` before its commit (`Records` has them), and the parts
of `reset` that touch none of these variables (`AiTask`, `Storage` and
`Accounts` have theirs).

### JudgeRunner

One judge task seen from below: the coroutine, its executor jobs, the worker
inside `_execute`, the process group of the submitted program, the work
directory. Cancelling an await withdraws a queued job and leaves a running one
alone; the job `exec` is shielded. The program may fork, exit, exceed its limits
and write files at any point. It runs under the user of the service: it may take
away its own rights to a directory (`locked`), which `rmtree(ignore_errors=True)`
then leaves behind, and remove the work directory. A child may start a session of
its own and is out of the reach of `killpg` from then on (`escaped`); it lives and
writes as long as it likes. `rmtree` is two steps (empty, then rmdir), so that
a process that is still alive can write between them. `JudgeService` sees all
of this as the awaits `load`, `run` and `cleanup`.

### TaskLife, AiTask

`TaskLife` is the abstract specification of the AI task service, what its users
are promised: a task is open, then done, failed or cancelled once and for all; a
cancel, a create and a stream say in one step what became of it; a start leaves
no task open. Sessions, coroutines, tickers, flags and queues do not occur in it.
Four disturbances weaken the promise for the task they hit: an I/O error, a
crash, a reset, and a cancel that overtakes the create. They are a variable of
the abstract specification (`hurt`), so that a step which claims to be disturbed
has to say so, and when it may.

`AiTask` is the detailed one: the life of an AI task, with its rows, its
coroutine and ticker, the handlers create, retry, refine, cancel and reset, the
event streams, the start-up and crashes. The refinement mapping takes a row to
the state it stands for (`State`), a handler to pending or its answer (`Call`), a
stream to the end it told (`Heard`).

* `run[r]` is one coroutine `_run_task`: its `pc` names the await it is at, its
  other fields are its locals and those of its ticker (`tick`, `tickLevel`,
  `tickSeen`), a second coroutine that writes the same row. `req[h]` holds the
  locals of a handler, `stream[s]` the queue of a subscriber and the status its
  client was told last. `tasks` and `cancelled` are `_tasks` and `_cancelled`.
* Progress is abstracted to the order of the values the code uses (0.05, 0.15,
  ticks below and above 0.58, 0.58, 0.7, 0.9, 1.0). The usage of a task is the
  number of the model's answers it accounts for (`Billing` has the amounts).
* The model may answer well, badly, cut off, empty, not at all or with an error;
  `wait_for` (`Timeout`) may strike at any await of the pipeline, and a commit it
  or a cancellation interrupts lands or does not. `OrmUpdate` and `UpdateMisses`
  are as in `JudgeService`.
* `Join` is the wait for the cancelled ticker: a cancellation that arrives there
  is swallowed together with the ticker's own, and a ticker that died of an
  exception passes it on.
* `Unwind` of a coroutine that was cancelled before its first step ends it
  without its `finally` block: its entry in `_tasks` stays.
* `Pushed` is `_push`: every subscribed queue gets the event and loses its
  oldest one when it is full.
* `hurt` is a history variable: which task met an I/O error, a timeout or crash
  in the write that stores its usage, a cancel during its last commit (`late
  cancel`) or between its insert and the start of its coroutine (`early cancel`),
  or a reset. The properties name the disturbances they exempt.

Left out: prompts, permissions, the queries, the keep-alive comments.

### Catalogue, ProblemStore, AiConfig, Storage

`Catalogue` is the abstract specification of the problem store: a map from ids
to entries on which every call takes effect and is answered in one step. A
reset empties it entry by entry, a full disk fails a call, a crash loses the
calls under way; the last two may leave the entry that was being created torn.

`ProblemStore` is the detailed one. A call enters under the store's lock
(`Enter`), performs its system calls one by one, and releases the lock with its
answer (`Done`). `open(path, "x")` and the writing of the content are two steps
(`Open`, `Write`), `unlink` comes after `is_file`, an update reads, writes a
temporary file and replaces. The reset (`WipeScan`, `WipeUnlink`, `WipeRmdir`,
`WipeMkdir`) takes no lock. The calls it overlaps are in `shaken`: such a call
may fail on a file or directory that has gone, answer 200 for a problem that is
nowhere, or, if it is an update that has read its file before, put the problem
back. The refinement mapping is `Entries`: a file counts from the moment its
content is there.

What the forms of `app.py` send is part of the model (`Bodies`): the edit form
has no `public_cases`, so an edit that does not mention the visibility must keep
it; the form always sends both limits.

`AiConfig` is the model configuration and its key, again a step per system
call under a lock of its own. `DiskError` ends a call at any of them and leaves
the files as they are: the key created and not written, the old configuration, or
the new one. `Storage` puts the two stores side by side: one
process, one reset that removes first the problems, then the configuration,
then the key, one crash.

### Accounts

A request is a sequence of statements; anything may happen between two of
them and nothing is a snapshot. A protected route authenticates twice, first in
`AuthenticatedRoute` with a database session of its own (`pre`), then in the
dependency of the handler (`auth`); each reads the session and the user in two
statements. A unique key rejects the second insert of a name. The rows of
`users` are a sequence, since ids are given again after a reset; `who` names
the person a row was made for. `together` is a history variable: in some state
during the request its session was valid and its user had the role. `mixed`,
`strayed`, `doubled`, `unlogged` and `cut` record the overlaps and the broken-off
resets the properties exempt.

A reset lists the tables (`ListTables`), drops them one by one (`DropTable`) in the
order SQLAlchemy sorts them, lists what is missing and creates it (`CreateTable`),
each statement committed by itself, with other requests and the crash between any
two of them. `gone` holds what does not exist: a statement on a missing table
fails. The unique index on the names is created after `users`, and `create_all`
makes indexes only with their table (`Missing`). A statement may fail and end the
reset (`StatementFails`). A language is two values, who set its commands and who its
limits: `ensure_languages` synchronises the commands of a default that exists, and
leaves its limits.

### Records

What users see of submissions, with the judge reduced to versions of results:
the limiter and the creation, the log endpoint with the rows it reads
(submission, policy, details) and its audit record, the page controls of
`app.py` with the queries they drive, and the deletion of audit records. A page
is a count and a read of rows, two statements; `walk` says that the user has
only pressed "next" since page 1. The model is the time between two resets: a reset
clears the limiter and drops the tables with everything read from them.

### WebSession

The login of the front end. A tab is a Streamlit session; a run of the script
cannot see the browser's cookies but only those sent when the tab was loaded
(`ctx`) and what the cookie component has reported (`value`). `Run`,
`Component` and `PageCall` are one run of the script, one run of the component
in its iframe, and one call of a page to the backend. Two tabs share the cookie;
the backend may be away, end a session, ban a user or lift the ban (`ChangeRole`;
the sessions of a banned user stay). Every login belongs to a user (`Owner`), so
somebody else may log in where a banned user's tab became a guest.

### Migration

The repair of unsafe problem ids at start-up: `ProblemStore.migrate_safe_ids`
file by file (`Scan`, `Skip`, `Rename`, `Unlink`), then
`migrate_problem_references` in one transaction: `Gather` reads the references,
`Assign` numbers those the files do not explain, each `Update` applies one entry
of the mapping to `draft`, and `Commit` makes it the truth. `mapping` is a
sequence, since the order of a Python dict decides which reference goes where;
the ids inside the results of AI tasks (`results`) are translated once instead of
entry by entry. The process may stop between any two steps, which rolls the
transaction back, and start again; a file may be broken or JSON but not an
object (then the start fails), and its content may carry another id than its
name. `NumbersLeft` bounds the numbers: a start that has used up `Numbers` goes
no further, where the code would count on.

### Rules, Billing

`Rules` is `OutputComparer`: a text is a sequence of letters, some of them
blanks, and two texts are compared as the code does it (`Unix`, `Lines`,
`Stripped`, `Neat`). Beside it stands `Printed`, what a reader sees of a text,
written without lines.

`Billing` is what a task is charged: `BuildUsage` turns what a provider reports
of one call into tokens and a cost, `MergeUsage` adds it to the summary of the
task; one action per answered call. Amounts are whole numbers. `AiTask` says
which calls are billed and when, `Billing` what they add up to.

## What the runs check

| Run | Bounds | Checks |
|---|---|---|
| `JudgeLive` | 1 submission (it may be an old row), 4 tasks, one test case (AC, WA or not judged), create, rejudge, reset, 1 crash, 1 I/O error | `TypeOK`, `PendingHasOwner`, `CurrentTaskRegistered`, `ResultsAgree`; `PendingSettles` and `RequestsAnswered` under fairness |
| `Runner` | 2 runs (compilation and a case), 2 cancellations, a child that may leave its group | `WorkdirOutlivesWorker`, `WorkdirRemoved`, `VerdictsEarned`, `CancelledEnds`, `GroupsReaped` |
| `AiFaults` | 2 ids, 1 run: an old task (done, cancelled or running), a retry or refinement, 2 cancels, a reset, 1 I/O error, 1 crash | `NotAbandoned`, `CancelHonoured`, `EveryAnswerBilled`, `ImplementsTaskLife` (refinement) |
| `AiLive` | 1 id, 1 run: create, a cancel, a stream with a queue of 2 (64 in the code), 1 I/O error | `StreamTellsEnd`; `TaskSettles` and `StreamEnds` under fairness |
| `Store` | 3 ids (one stored, one a symbolic link, one free), 2 calls of any kind, a reset, 1 disk error in either store, 1 crash | `ImplementsCatalogue` (refinement), `ConfigUsable` |
| `Accounts` | 3 requests of any kind, among them resets that may fail at any statement, sessions of an administrator and a user, 1 expiry, 1 crash | `AuthorisedAtOnce`, `NamesUnique`, `LogExplainsRoles`, `SessionBelongs`, `DefaultsRestored` |
| `Records` | limit 2, window 1, page size 1; three budgets: 4 submissions with 3 ticks and page turns, or 2 readers with 2 results and 2 changes, or a reader with 3 page turns and 2 deletions | `LimiterWindow`, `DetailsNotOlder`, `DetailsNeedConsent`, `AuditTellsAnswer`, `PagesMissNothing`, `NotStranded` |
| `WebSession` | 2 tabs, a login of each of 2 users, 2 disturbances (outage, reload, end of a session, role changed to banned or back, wrong password) | `ClearedOnlyWhenTold`, `LoginSurvives`, `LogoutEnds`; `SavingEnds` under fairness |
| `Migration` | any content for 4 file names (2 unsafe), any set of references, 2 further starts | `NothingLost`, `ReferencesFollow`, `RepairedOnce` |
| `Rules` | all pairs of texts of up to 4 letters out of four (a printing one, a blank, return, newline); up to 3 model calls of every kind | `ComparesWhatIsPrinted`, `BillsEveryCall` |

The bounds. One rejudge and one create give every conflict between two handlers
and between two generations of tasks; overlapping rejudges are covered by the
proofs, which bound nothing. Four tasks let every request schedule one and
one more; one crash gives a life before and one after it. One test case is
enough for `AC`, partial and failed results (verdicts are `AC` and `UNK`; the
others take the same path). In the runner, a third cancellation finds nothing
left to interrupt. An AI task has one run in its life; a queue of two is overrun
by progress and usage events as one of 64 is; one tick level lies between the
pipeline's own values. The store serves one call at a time, so two calls give
every order, and the reset a third party. Three requests are a role change,
one that meets it and one that observes. In `Records` each budget lets the
actors of one scenario move freely while the others stand still. Four names
give a repaired file, one that carries another's id, and the clash of both.

`Accounts`, `Records`, `Store`, `WebSession`, `Migration` and `Rules` end when
their requests are used up, so the deadlock check is off there.

### Fairness

`JudgeService` assumes that each task and each handler that has begun takes its
next step (the event loop resumes what is ready, executor threads finish, the
runner enforces its limits) and that start-up goes on. Requests need not arrive,
a crashed server need not be restarted, I/O need not fail. In `AiTask` runs,
tickers, begun handlers and streams are fair: the event loop resumes what is
ready, `wait_for` bounds the wait for the model, and a client that stays connected
reads. In `JudgeRunner` the coroutine, the executor and the worker (its poll loop
meets the time limit) are fair; the program and `task.cancel()` are not. In
`WebSession` a script run that was asked for, the component of a mounted page and
a page's call are fair (Streamlit runs them, the call has a timeout); users and
the backend's troubles are not.

## Where the code does less than one would think

Two runs show a comment that says more than the code does:

| Run | What happens |
|---|---|
| `AiCancelUndone` | A cancel falls between the insert of a task and the start of its coroutine. It finds nothing to stop and answers "cancelled"; the coroutine starts, does not look at the status, and its result replaces it. |
| `MigrationMovesSafe` | A file whose content carries a safe id that another file is named by gets a new number, and the safe id enters the mapping, so that the references to it are moved. In the trace the file `a` carries the id 1001, the name of another (broken) file; it becomes 1002, and the references to 1001 follow. Neither name is unsafe. |

The others are conditions of properties, met while they were written:

* A submission that met an I/O error outside the guarded part stays pending
  until the next start (`hurt` in `PendingHasOwner` and `PendingSettles`); an
  AI task whose failure cannot be stored stays open until then, too.
* A rejudge resets the record to pending, says the comment at `submissions.py:218`.
  One that loads a pending row whose task stores its result before it is cancelled
  does not: the mapper compares with what was loaded and writes no column, but the
  details are deleted. The answer says "pending"; the row keeps its old status and
  score without details until the new task overwrites it, and for good when the
  server goes down before that task is scheduled (`emptied` in `ResultsAgree`).
* A reset whose `drop_all` fails after `testcase_results` leaves a server that can
  store no result before its next start.
* Two overlapping rejudges can leave a row whose columns come from two
  judgements, among them one that says "error" beside the counts of a success: a
  task that loaded a success assigns the status it has seen and leaves the
  "error" another one stored meanwhile. A task that a reset has left running does
  the same to the next submission of its id (`RejudgedOnce` and `NoReset` in
  `ResultsAgree`).
* A task scheduled while `shutdown` awaits another is neither cancelled nor
  awaited, and its registration is cleared.
* A second cancellation interrupts the wait for the worker, and the directory is
  deleted under a running program (`cancels <= 1` in `WorkdirOutlivesWorker`). A
  task cancelled during `mkdtemp` or before `rmtree` starts leaves its directory
  (`cancels = 0` in `WorkdirRemoved`). So does one whose program locked a
  directory in it (`ignore_errors=True`), or whose child left the process group and
  writes while the directory is deleted. Such a child survives its task: `killpg`
  reaches the group only.
* A cancel that meets the last commit of an AI run silences the final event: the
  commit lands, the cancel answers 409, a stream that waits is not ended
  (`late cancel` in `StreamEnds`).
* The comment at `ai_service.py:954` says that a cancelled run pushes nothing of its
  own. One whose cancellation was swallowed while it waited for its ticker, and
  which then fails, does: the stream is told "failed", while the row becomes
  "cancelled" (exempted in `StreamTellsEnd`).
* A tick that read the row before the pipeline wrote it takes the progress back,
  so nothing is stated about progress between the start and the end.
* A problem file left torn by a crash or a full disk occupies its id: it can be
  deleted or skipped, not read. An empty key file left by a crash or a full
  disk fails every later call on the model configuration until the next reset. A save that overlaps a
  reset may store a configuration whose key is removed (`raced`).
* Two role changes of one user at a time can leave a log that disagrees with the
  role (`mixed`); a crash between the two commits of `create_admin` leaves an
  administrator without a log record. A reset drops the log before the users: one
  that fails or dies in between leaves roles without their log (`unlogged`). A login
  that overlaps a reset belongs to whoever gets the id next (`strayed`).
* A crash or an error between the creation of `users` and that of its unique index
  leaves the table without it, and no later start makes it: from then on two
  registrations may get one name (`NamesUnique` says when the index is missing).
* A default language that somebody registers while a reset runs makes the reset fail
  when it comes after the lookup (`cut`). When it comes before, its commands are
  replaced and its limits stay.
* A page walk under a status filter skips rows as results arrive. SQLite gives
  the rowid of a deleted last audit record again, so a deletion that was
  confirmed for one record may hit another. Every poll of the detail page writes
  an audit record.
* A logout during an outage clears the tab, but the session lives on in the
  backend. Two logins in two tabs overwrite each other's cookie; a wrong password
  in one clears the cookie of the other (`disturbed` in `LoginSurvives`).
* A ban ends no session. A tab loaded with the cookie of a user who was banned, in
  which somebody else logged in and out, is logged in as the first user again when
  the ban is lifted (`barred` in `LogoutEnds`).
* A crash between the renaming of the problem files and the commit of their
  references loses the mapping: the files are safe, the references point
  nowhere (`crashed` in `ReferencesFollow`).

## What is proved

`JudgeServiceProofs` (for any number of submissions, tasks, requests, crashes
and I/O errors):

* `TypeCorrect`: `Spec => []TypeOK`. The invariant is `Shape`, which adds that
  created tasks and handlers under way name a submission.
* `NothingForgotten`: `Spec => []PendingHasOwner`. The inductive invariant
  `IInv` adds `RegistryMatches` (a registration of `s` is a task of `s`, so
  cancelling it takes the owner of no other submission away) and `TaskLocals` (a
  task that is not scheduled is not cancelled, so a new task is an owner; a task
  in an except block is in `_finish`, so an exception before it leads there; no
  result says "pending"). Per step, the owner either stays, or the row is
  settled, or the handler or the new task takes over.
* `CurrentIsRegistered`: until a reset begins, the task of the current
  generation is the registered one; needs `GenerationsBound` (no task is ahead
  of the table), and that resets which have not begun stay so (`IdleStays`).

* `ResultsAreWhole`: `ResultsAgree`. `Sources` are those who may still store a
  result of a submission: its tasks, the create and the start-up that are about to
  schedule one. `Accounted` bounds them: one for a pending row and one more for a
  rejudge that is over. So a task or a rejudge that has loaded a settled row is
  the only one that can write it (`Views`), and who has loaded a pending row
  replaces every column the details depend on (`StoredWhole`). For rows without
  details, `Explained` says that a settled one was not run or was emptied by a
  rejudge: what a judgement without cases stores on any row it may have seen is
  such a row (`StoredUnrun`), and the repair at the start leaves it one
  (`NormalizedUnrun`). A reset that breaks off in `drop_all` has hurt every
  submission (`BrokenHurts`), which is what keeps `PendingHasOwner` through it.

`JudgeRunnerProofs` (for any number of runs and cancellations):

* `OneCancelIsSafe`: `WorkdirOutlivesWorker` and `NoGroupLeft` (no process of the
  group of any run is left; what has left its group is not covered). The invariant
  `Stages` says which job may be under way at each await; it holds while at most
  one cancellation has happened.
* `VerdictsAreEarned`: the action property `VerdictsEarned`, from `Blame`: while
  a run is awaited its event is not set, so the worker kills a process only for
  its memory or its time.
* `DirectoryGone`: `WorkdirRemoved`, from `SweptUp`: the coroutine of a task that
  was never cancelled leaves no job behind, so nobody but a process that escaped
  writes into the directory after `rmtree` has emptied it.
* `ComparerIsRight`: `ComparesWhatIsPrinted`, for texts of any length over any
  alphabet. `Without` and `Lines` are recursive functions; that they have one
  value, and what it becomes when a letter is put before the text (`WithoutGrows`,
  `LinesGrow`, `NormalizedGrows`, `PrintedGrows`), is shown first. Then `Agrees`
  (the lines that are compared are the lines of what is printed, and there are
  none exactly if the text is blank) carries over from a text to a longer one, and
  `Lines` tells any two texts apart (`LinesTellTexts`).

`StorageProofs` (for any number of ids and of calls on either store, disk errors
and crashes):

* `KeyFitsConfig`: `StorageSpec => []ConfigUsable`. The inductive invariant
  `ConfigInv` adds `ConfigLock` (the lock belongs to a waiting call at a step of its
  kind), `ResetOrder` (nothing is raced before the reset comes to the
  configuration), `Fits` (what is stored and what a save has in hand fit
  together; while the reset stands between the two files, no save is under way),
  `HalfWritten` (who may have left the key torn) and `FirstLife` (before a crash and
  a reset, a load holds what is stored, and a call fails only on a torn key). The steps of the problem store
  leave all of it alone (`ProblemStepKeeps`).
* `StoreIsCatalogue`: `StorageSpec => ImplementsCatalogue`, the refinement. Its
  invariant `RInv` adds `LockHeld` for the problem store, `ShakenByReset` (a reset under way has marked
  every waiting call, and only then can the directory be missing) and
  `NotStale` (what a call has seen under the lock still holds unless it is
  marked). For each operation one lemma shows that `RInv` stays and one that the
  step is a step of `Catalogue` or a stutter: a creation takes effect when its
  content is written (`Hidden`: a file that is still empty under the lock of its
  creation is no entry), an update when the file is replaced, a failing
  call when it answers.

`AiTaskProofs` (for any number of tasks, runs, requests, streams, I/O errors
and crashes). Until a reset clears the tables (`Calm`), an id is given once, has
one run at most (`OneOwner`), and a run that is alive is in `_tasks`
(`Registered`), so a cancel finds it and waits for it (`StopsAwaited`,
`WaitsForRun`); after a reset the properties claim nothing. The actions of the
coroutine are summarised first (`GoesOn`, `RunMoves`: what a step leaves of the
run, the row and the registration), then each part of `IInv` is shown for the
summaries.

* `CancelsHonoured`: `CancelsAlone` says that a cancel which goes on past its wait
  has nobody at work on its task any more.
* `EndsFinal`: a terminal status stays, from `EndedIsIdle`, and because a write of
  an end was prepared on a row without one (`EndsPrepared`).
* `TasksNotAbandoned`: `WorkedOn` for a task that is not cancelled,
  `CancelsPending` for one that is: the last of several cancels settles it.
* `AnswersBilled`: `Billed` relates the usage of the row to the calls of the run at
  every await, not only at the end.
* `StreamsTellEnds`: `StreamTellsEnd`. What a stream may tell as the end of its
  task (`Truths`) only grows: a terminal status stays, a task that is no longer
  left alone may tell anything, and a run that gave up stays so. Every end in the
  queue of a stream is one of them from the step that put it there
  (`StreamsTrue`), through reconnections and the loss of the oldest event.
* `ServiceKeepsPromise`: `Spec => ImplementsTaskLife`, the refinement. With the
  invariants above, every step of a run, ticker, handler, stream or of the server
  is a step of `TaskLife` or a stutter; one lemma per group of actions. `Posts`
  adds where a handler stands that has an answer to give.
* `CallsBilledOnce`: `BillingSpec => []BillsEveryCall`, for any reports and any
  number of calls. The invariant (`BillingInv`) says that the usage is the summary of
  all calls so far. A summary keeps its calls (`CallsOfSummary`), so summaries merge
  like their calls, and merging call by call gives the summary of all
  (`MergedIs`); that the total is what went in and came out is a fact about sums
  of sequences (`SumOfSums`).

`AccountsProofs` (for any number of requests, sessions, expiries, resets and
crashes):

* `RequestsAuthorised`: a token is given once (`TokensSpent`) and a session does
  not come back, so one that is valid at a later read was valid when the role was
  read (`Authorised`).
* `NamesStayUnique`: the unique key decides, at the insert and at the rename, and
  whoever makes the table of users makes its index, unless something goes wrong in
  between (`IndexToCome`).
* `SessionsBelong`: the row a login has read is still that person's
  (`LoginsBelong`), unless a reset came in between; sessions go before users
  (`TablesHold`, `ResetsInTurn`), so a reset that stops half way leaves none behind
  for the next owner of an id.
* `DefaultsComeBack`: the commands of the default language after a reset that did
  not fail.
* `RolesExplained`: what a request is about to write of a role is what it has
  read unless another one touches the user (`LogsInHand`), and a row names the
  request that made it, which makes no other (`MadeOnce`).

`RecordsProofs` (for any limit, window, page size and number of requests):

* `LimitKept` (between two resets): the deque is the end of the list of admissions, and what was
  popped is too old for good (`WindowInv`).
* `ShownNotOlder` and `ShownWithConsent`: versions grow, and what a reader holds
  of the score is no newer than what it will find of the details
  (`VersionsGrow`); who is on the way to the details has seen the problem public
  or is an administrator (`Consents`).
* `AnswersAudited`: a request has its record exactly from its last step on
  (`AuditInv`); the id of a new record is free although ids come again.
* `WalksComplete` and `PagesNotStranded`: rows are read in descending order of
  ids, and adding records only raises the number of ids before a given one
  (`BeforeGrows`), so what a walk still owes lies behind its last page
  (`WalkInv`); an offset before the end of the list yields rows (`PageHasRows`), so
  an empty page lies behind everything counted (`StrandInv`), where the controls
  leave nobody (`PagesNeeded`).

`WebSessionProofs` (for any number of tabs, users, logins, outages, reloads, ends of
sessions and changes of roles). The actions are summarised by what a step of one tab may do to the
others (`StandsBy`); each part of the invariant is then shown for the tab that
moves and for those that stand by.

* `ForgetsOnlyWhenTold`: a tab without its token either never had one or was told
  to forget it (`Forgets`).
* `LogoutsEnd`: the cookie a tab was loaded with never brings back another login
  than the one the tab is using (`Returns`), and a token is given once. That cookie is
  `Useless` where a tab became a guest: its session has ended, which is for good, or
  its user was banned, which is not, and which `LogoutEnds` names.
* `LoginsSurvive`: without a disturbance there is one login (`OneLogin`), and
  whoever has seen a cookie has seen that one (`Calm`).

`MigrationProofs` (for any files, contents, references and number of interrupted
starts). The invariant `Inv` has a part for every start (`IInv`) and one for the
first (`FInv`).

* `NoProblemLost`: `NothingLost`. A safe name that exists is in `used` while a start
  goes through the files (`NamesUsed`), so the copy of a file never replaces
  another one; and every body is in a file that the start is not about to remove
  (`Kept`), since the old name goes after the copy.
* `RepairsOnce`: `RepairedOnce`. A start leaves a file behind only under a safe name
  that is its id, or broken (`TodoOK`), and an id that is still unsafe while the
  references are updated waits for a number or for its entry (`Awaiting`); so a
  later start finds nothing to do and its mapping stays empty (`Settled`).
* `ReferencesMove`: `ReferencesFollow`. In a first start without clashes every
  problem that has moved has its entry in the mapping (`Moved`), keys are unsafe and
  come once while new ids are safe (`KeysOK`), so no update is applied to the result
  of another (`RefsMoved`). A start that fails at a file that is no object will
  fail there again (`Stuck`), so the start that finishes is the first one.

The assumptions are those on the constants: positive bounds, disjoint requests,
known verdicts, call names that are no key names, finitely many creating requests
of AI tasks, no reader named like the records that were there before, amounts
that are natural numbers or absent, newline and return among the blanks.

The functions of `Billing` and `Rules` are recursive over calls and letters. The
induction theorems of the library cannot be used for them, since they take an
operator as a parameter; `LeastNatural` (a set of natural numbers that is not
empty has a least element) gives an induction over a set instead (`UpTo`,
`DownTo`), from which the existence and uniqueness of the recursive functions
and the lemmas about them follow.

Only model-checked: liveness (`PendingSettles`, `RequestsAnswered`,
`CancelledEnds`, `GroupsReaped`, `TaskSettles`, `StreamEnds`, `SavingEnds`), which
the prover does not reach.

## Not modelled

* Runner: the numbers behind the limits (`_set_limits`), argument expansion, the
  bounded output. They are system calls and string handling.
* AI: prompts, `parse_problem` and `apply_generation_mode`, which are text in
  and text out; their results are the kinds of answer in `AiTask`.
* Listings and statistics that change nothing and relate no two pieces of
  state; the syntax check of a language's command.
* The pages of `app.py` that are layout and input.
* Configuration, engine, middleware and security settings, `run.sh`: wiring.
  Transactions are atomic commits in the models and the lifespan is the start
  action of each of them.

## What could come next

* The life of a submission (pending, then one whole result) as an abstract
  specification that `JudgeService` implements where nothing disturbs it, as
  `AiTask` implements `TaskLife`. `ResultsAgree` and `PendingHasOwner` say it in
  pieces.
* Several servers behind one database: the code assumes one process.
