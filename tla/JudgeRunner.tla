----------------------------- MODULE JudgeRunner -----------------------------
(***************************************************************************)
(* One judge task between its first and its last await, down to threads    *)
(* and processes: judge_submission (app/services/judge_service.py) and     *)
(* _execute_async / _execute / run_case (app/judge/runner.py).             *)
(*                                                                         *)
(* The coroutine hands jobs to the executor and awaits them.  Cancelling   *)
(* it withdraws an awaited job that is still queued; a running one goes on *)
(* by itself.  The job "exec" is shielded: it is never withdrawn.          *)
(***************************************************************************)
EXTENDS Naturals

CONSTANTS
  MaxRuns,    \* bound: runs of the compiler and of test cases
  MaxCancels  \* bound: calls of task.cancel()

ASSUME BoundsAssumption == MaxRuns \in Nat \ {0} /\ MaxCancels \in Nat

Jobs == {"mkdtemp", "write", "exec", "rmtree"}

\* "locked": something in it that rmtree cannot delete, as a directory without
\* permissions that holds a file.
Contents == {"nothing", "files", "locked"}

VARIABLES
  at,      \* what the coroutine awaits; "drain": the worker, after a cancel
  job,     \* executor jobs: "none", "queued", "running", "done", "withdrawn"
  phase,   \* the worker inside _execute: "files", "polling" or "killing"
  event,   \* the threading.Event of the current _execute_async
  group,   \* live processes of the current run's process group
  rc,      \* exit status of its main process, "none" while there is none
  memory, timeout, \* what the worker measured
  verdict, \* of the last run
  dir, content, \* the work directory exists; what it holds
  emptied, \* rmtree has deleted what it can and goes on to rmdir
  escaped, \* a process has left its group (setsid) and may be about for good
  runs, cancels

workVars == <<phase, event, group, rc, memory, timeout>>
dirVars == <<dir, content, emptied, escaped>>
vars == <<at, job, workVars, verdict, dirVars, runs, cancels>>

-----------------------------------------------------------------------------
(* The coroutine *)

Await(j) ==
  /\ at' = j
  /\ job' = [job EXCEPT ![j] = "queued"]

\* mkdtemp is outside the try statement: its error ends the task.
MkdtempReturns ==
  /\ at = "mkdtemp" /\ job["mkdtemp"] = "done"
  /\ \/ dir /\ Await("write")
     \/ ~dir /\ at' = "ended" /\ UNCHANGED job
  /\ UNCHANGED <<workVars, verdict, dirVars, runs, cancels>>

\* _execute_async: a new event, a new worker
StartRun ==
  /\ Await("exec")
  /\ phase' = "files" /\ event' = FALSE
  /\ rc' = "none" /\ memory' = FALSE /\ timeout' = FALSE
  /\ UNCHANGED group

WriteReturns ==
  /\ at = "write" /\ job["write"] = "done"
  /\ \/ StartRun
     \/ Await("rmtree") /\ UNCHANGED workVars  \* the file could not be written
  /\ UNCHANGED <<verdict, dirVars, runs, cancels>>

\* run_case maps what the worker returned; the comparison decides AC or WA.
Verdicts ==
  IF rc = "none" THEN {"UNK"}
  ELSE IF memory THEN {"MLE"}
  ELSE IF timeout \/ rc = "xcpu" THEN {"TLE"}
  ELSE IF rc # "zero" THEN {"RE"}
  ELSE {"AC", "WA"}

\* The run is over: the next one starts, or the finally block (after the last
\* case, a failed compilation or an exception).
ExecReturns ==
  /\ at = "exec" /\ job["exec"] = "done"
  /\ verdict' \in Verdicts
  /\ runs' = runs + 1
  /\ \/ runs' < MaxRuns /\ StartRun
     \/ Await("rmtree") /\ UNCHANGED workVars
  /\ UNCHANGED <<dirVars, cancels>>

\* Mutant: the cancelled await is repeated for ever.
DrainReturns_Again ==
  /\ at = "drain" /\ job["exec"] = "done"
  /\ UNCHANGED vars

DrainReturns ==
  /\ at = "drain" /\ job["exec"] = "done"
  /\ Await("rmtree")
  /\ UNCHANGED <<workVars, verdict, dirVars, runs, cancels>>

RmtreeReturns ==
  /\ at = "rmtree" /\ job["rmtree"] = "done"
  /\ at' = "ended"
  /\ UNCHANGED <<job, workVars, verdict, dirVars, runs, cancels>>

Withdrawn(j) == [job EXCEPT ![j] = IF @ = "queued" THEN "withdrawn" ELSE @]

\* Mutant: the finally block does not wait for the worker.
Cancel_NoDrain ==
  /\ cancels < MaxCancels
  /\ cancels' = cancels + 1
  /\ \/ /\ at \in {"mkdtemp", "rmtree"}
        /\ at' = "ended" /\ job' = Withdrawn(at)
        /\ UNCHANGED event
     \/ /\ at = "write"
        /\ at' = "rmtree" /\ job' = [Withdrawn("write") EXCEPT !["rmtree"] = "queued"]
        /\ UNCHANGED event
     \/ /\ at = "exec"
        /\ Await("rmtree") /\ event' = TRUE
  /\ UNCHANGED <<phase, group, rc, memory, timeout, verdict, dirVars, runs>>

\* Mutant: CancelledError is swallowed while a program runs.
Cancel_Swallowed ==
  /\ cancels < MaxCancels
  /\ cancels' = cancels + 1
  /\ at = "exec" /\ event' = TRUE
  /\ UNCHANGED <<at, job, phase, group, rc, memory, timeout, verdict, dirVars, runs>>

\* CancelledError at the await.  mkdtemp is awaited before the try statement;
\* _execute_async sets the event and awaits the worker once more.
Cancel ==
  /\ cancels < MaxCancels
  /\ cancels' = cancels + 1
  /\ \/ /\ at \in {"mkdtemp", "rmtree"}
        /\ at' = "ended" /\ job' = Withdrawn(at)
        /\ UNCHANGED event
     \/ /\ at = "write"
        /\ at' = "rmtree" /\ job' = [Withdrawn("write") EXCEPT !["rmtree"] = "queued"]
        /\ UNCHANGED event
     \/ /\ at = "exec"
        /\ at' = "drain" /\ event' = TRUE
        /\ UNCHANGED job
     \/ /\ at = "drain"
        /\ Await("rmtree")
        /\ UNCHANGED event
  /\ UNCHANGED <<phase, group, rc, memory, timeout, verdict, dirVars, runs>>

-----------------------------------------------------------------------------
(* The executor's threads *)

PickUp(j) ==
  /\ job[j] = "queued"
  /\ job' = [job EXCEPT ![j] = "running"]
  /\ UNCHANGED <<at, workVars, verdict, dirVars, runs, cancels>>

End(j) == job[j] = "running" /\ job' = [job EXCEPT ![j] = "done"]

MakeDir ==
  /\ End("mkdtemp")
  /\ dir' \in BOOLEAN
  /\ UNCHANGED <<at, workVars, verdict, content, emptied, escaped, runs, cancels>>

\* write_text creates the source file, if the directory is still there.
WriteSource ==
  /\ End("write")
  /\ content' = IF dir THEN "files" ELSE content
  /\ UNCHANGED <<at, workVars, verdict, dir, emptied, escaped, runs, cancels>>

\* Mutant: only the directory itself is removed.
EmptyDir_Shallow ==
  /\ job["rmtree"] = "running" /\ ~emptied
  /\ emptied' = TRUE
  /\ UNCHANGED <<at, job, workVars, verdict, dir, content, escaped, runs, cancels>>

\* ignore_errors=True: rmtree passes over what it cannot delete.
EmptyDir ==
  /\ job["rmtree"] = "running" /\ ~emptied
  /\ content' = IF content = "locked" THEN "locked" ELSE "nothing"
  /\ emptied' = TRUE
  /\ UNCHANGED <<at, job, workVars, verdict, dir, escaped, runs, cancels>>

\* rmdir fails on a directory that is not empty, or was filled again; that
\* error is ignored as well.
RemoveDir ==
  /\ End("rmtree") /\ emptied
  /\ dir' = (dir /\ content # "nothing")
  /\ UNCHANGED <<at, workVars, verdict, content, emptied, escaped, runs, cancels>>

\* The temporary files fail without a directory, a set event returns at once,
\* Popen may fail.
NoProcess ==
  /\ End("exec") /\ phase = "files"
  /\ UNCHANGED <<at, workVars, verdict, dirVars, runs, cancels>>

Popen ==
  /\ job["exec"] = "running" /\ phase = "files"
  /\ dir /\ ~event
  /\ phase' = "polling" /\ group' = {"main"}
  /\ UNCHANGED <<at, job, event, rc, memory, timeout, verdict, dirVars, runs, cancels>>

\* One round of the loop that leaves it: the main process has exited, or the
\* measurements or the event say so.
SeeExit ==
  /\ job["exec"] = "running" /\ phase = "polling" /\ rc # "none"
  /\ phase' = "killing"
  /\ UNCHANGED <<at, job, event, group, rc, memory, timeout, verdict, dirVars, runs, cancels>>

Break ==
  /\ job["exec"] = "running" /\ phase = "polling" /\ rc = "none"
  /\ memory' \in BOOLEAN /\ timeout' \in BOOLEAN
  /\ event \/ memory' \/ timeout'
  /\ phase' = "killing"
  /\ UNCHANGED <<at, job, event, group, rc, verdict, dirVars, runs, cancels>>

\* Mutant: only the main process is killed.
KillGroup_MainOnly ==
  /\ End("exec") /\ phase = "killing"
  /\ group' = group \ {"main"}
  /\ rc' = IF rc = "none" THEN "killed" ELSE rc
  /\ UNCHANGED <<at, phase, event, memory, timeout, verdict, dirVars, runs, cancels>>

\* The finally block: _kill_group and proc.wait
KillGroup ==
  /\ End("exec") /\ phase = "killing"
  /\ group' = {}
  /\ rc' = IF rc = "none" THEN "killed" ELSE rc
  /\ UNCHANGED <<at, phase, event, memory, timeout, verdict, dirVars, runs, cancels>>

-----------------------------------------------------------------------------
(* The submitted program: it forks, writes files and exits when it likes.  *)
(* The main process leads its group and session and stays in them; a child *)
(* may start a session of its own, where os.killpg does not reach it.      *)

Processes ==
  \/ /\ "main" \in group /\ group' = group \cup {"child"}
     /\ UNCHANGED <<rc, escaped>>
  \/ /\ "child" \in group /\ group' = group \ {"child"}
     /\ escaped' \in {escaped, TRUE} /\ UNCHANGED rc
  \/ /\ "main" \in group /\ group' = group \ {"main"}
     /\ rc' \in {"zero", "nonzero", "xcpu"} /\ UNCHANGED escaped

\* It runs under the user of the service: the work directory is its own too.
Files ==
  /\ group # {} \/ escaped
  /\ dir
  /\ \/ content' \in Contents /\ UNCHANGED dir
     \/ content' = "nothing" /\ dir' = FALSE

Program ==
  /\ \/ Processes /\ UNCHANGED <<dir, content>>
     \/ Files /\ UNCHANGED <<group, rc, escaped>>
  /\ UNCHANGED <<at, job, phase, event, memory, timeout, verdict, emptied, runs, cancels>>

AllEnded ==
  /\ at = "ended"
  /\ \A j \in Jobs : job[j] \notin {"queued", "running"}

Init ==
  /\ at = "mkdtemp" /\ job = [j \in Jobs |-> IF j = "mkdtemp" THEN "queued" ELSE "none"]
  /\ phase = "files" /\ event = FALSE /\ group = {} /\ rc = "none"
  /\ memory = FALSE /\ timeout = FALSE /\ verdict = "none"
  /\ dir = FALSE /\ content = "nothing" /\ emptied = FALSE /\ escaped = FALSE
  /\ runs = 0 /\ cancels = 0

Coroutine == MkdtempReturns \/ WriteReturns \/ ExecReturns \/ DrainReturns \/ RmtreeReturns
Threads ==
  \/ \E j \in Jobs : PickUp(j)
  \/ MakeDir \/ WriteSource \/ EmptyDir \/ RemoveDir
Worker == NoProcess \/ Popen \/ SeeExit \/ Break \/ KillGroup

Next ==
  \/ Coroutine \/ Cancel \/ Threads \/ Worker \/ Program
  \/ AllEnded /\ UNCHANGED vars

\* The loop resumes coroutines, the executor serves its queue, and a worker
\* meets its time limit; the program owes nothing.
Spec ==
  /\ Init /\ [][Next]_vars
  /\ WF_vars(Coroutine) /\ WF_vars(Threads) /\ WF_vars(Worker)

-----------------------------------------------------------------------------
(* Properties *)

JobStates == {"none", "queued", "running", "done", "withdrawn"}

FlagsOK ==
  /\ event \in BOOLEAN /\ memory \in BOOLEAN /\ timeout \in BOOLEAN
  /\ dir \in BOOLEAN /\ content \in Contents /\ emptied \in BOOLEAN
  /\ escaped \in BOOLEAN

\* Every variable keeps its kind.
TypeOK ==
  /\ at \in Jobs \cup {"drain", "ended"}
  /\ job \in [Jobs -> JobStates]
  /\ phase \in {"files", "polling", "killing"}
  /\ group \subseteq {"main", "child"}
  /\ rc \in {"none", "zero", "nonzero", "xcpu", "killed"}
  /\ verdict \in {"none", "UNK", "MLE", "TLE", "RE", "AC", "WA"}
  /\ runs \in 0 .. MaxRuns /\ cancels \in 0 .. MaxCancels
  /\ FlagsOK

\* Cancelled at most once, the task deletes its work directory only after the
\* worker has ended: _execute never runs, let alone with processes, in a directory
\* that rmtree is at work on (the second await of _execute_async).
WorkdirOutlivesWorker ==
  cancels <= 1 /\ job["exec"] = "running" => ~emptied /\ job["rmtree"] \notin {"running", "done"}

\* Cancelled at most once, the task leaves no live process in the group of any run
\* when it deletes its directory or ends, children of a finished program included.
\* What left the group by setsid is out of reach of _kill_group and not covered.
NoGroupLeft == cancels <= 1 /\ at \in {"rmtree", "ended"} => group = {}

\* A program is blamed only for what it did: WA, AC and RE are never read off a
\* process that the judge itself has killed, cancelled runs included.
VerdictsEarned ==
  [][ExecReturns => (verdict' \in {"AC", "WA", "RE"} => rc \in {"zero", "nonzero"} /\ ~memory /\ ~timeout)]_vars

\* Never cancelled, the task and its jobs end with the directory gone, with two
\* exceptions: it holds something that rmtree cannot delete, or a process outlives
\* the run outside its group and writes between rmtree's two steps.
WorkdirRemoved == cancels = 0 /\ AllEnded => ~dir \/ content = "locked" \/ escaped

\* A cancelled task ends: cancel_judge, which awaits it, returns.
CancelledEnds == (cancels > 0) ~> (at = "ended")

\* Every process group is reaped in the end, however often the task is cancelled.
GroupsReaped == (group # {}) ~> (group = {})
=============================================================================
