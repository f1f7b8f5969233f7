------------------------------- MODULE AiTask -------------------------------
(***************************************************************************)
(* AI problem-writing tasks: app/services/ai_service.py, the handlers of   *)
(* app/routers/ai.py, the reset and the restart.                           *)
(*                                                                         *)
(* A run is one coroutine _run_task with its ticker.  One action is what   *)
(* runs on the event loop between two awaits.  A run awaits at its pc:     *)
(*   load     the first db.get (or it has not been started yet)            *)
(*   read, write   db.get and commit of _progress(level)                   *)
(*   reference     the parent version or the reference problem             *)
(*   model, bill   the model's answer, the commit of its usage             *)
(*   join     the cancelled ticker, in the finally block                   *)
(*   store, commit    db.get and commit of the result                      *)
(*   excuse, fail     db.get and commit of the except block                *)
(* A database commit is atomic and lands before the awaiting coroutine is  *)
(* resumed.  Progress is abstracted to the order of the values the code    *)
(* uses: 1 = 0.05, 2 = 0.15, 3 and 5 = ticks below and above 0.58,         *)
(* 4 = 0.58, 6 = 0.7, 7 = 0.9, 8 = 1.0.                                    *)
(***************************************************************************)
EXTENDS Integers, Sequences, FiniteSets

CONSTANTS
  MaxIds,      \* bound: task ids the database hands out
  MaxRuns,     \* bound: coroutines ever created
  OldStatuses, \* statuses of rows an earlier process may have left
  Creators, Copiers, Cancellers, Resetters, \* HTTP requests, each arriving at most once
  Streams,     \* event-stream requests
  QueueSize,   \* length of a stream's queue (64 in the code)
  TickLevels,  \* the progress values a tick may report
  MaxFaults,   \* bound: I/O errors
  MaxCrashes   \* bound: process crashes

Requests == Creators \cup Copiers \cup Cancellers \cup Resetters
Statuses == {"absent", "pending", "running", "done", "cancelled", "failed"}
Terminal == {"done", "cancelled", "failed"}

ASSUME BoundsAssumption ==
  /\ MaxIds \in Nat \ {0} /\ MaxRuns \in Nat \ {0} /\ QueueSize \in Nat \ {0}
  /\ MaxFaults \in Nat /\ MaxCrashes \in Nat

ASSUME DataAssumption ==
  OldStatuses \subseteq Statuses \ {"absent"} /\ TickLevels \subseteq {3, 5}

ASSUME RequestsAssumption ==
  /\ Creators \cap (Copiers \cup Cancellers \cup Resetters) = {}
  /\ Copiers \cap (Cancellers \cup Resetters) = {}
  /\ Cancellers \cap Resetters = {}
  /\ IsFiniteSet(Creators \cup Copiers)

Ids == 1 .. MaxIds
Runs == 1 .. MaxRuns
NoId == 0
NoRun == 0

VARIABLES
  life,      \* "down" or "up"
  row,       \* table ai_tasks: id -> row
  cancelled, \* _cancelled
  tasks,     \* _tasks (NoRun: no entry)
  run,       \* per run: place, arguments and locals of _run_task and its ticker
  req,       \* per request: the handler's locals
  stream,    \* per stream: its queue and what it told its client
  faults, crashes, \* I/O errors and crashes so far
  hurt       \* pairs <<id, what>>: what disturbed the task (history)

vars == <<life, row, cancelled, tasks, run, req, stream, faults, crashes, hurt>>
env == <<life, faults, crashes>>

-----------------------------------------------------------------------------
(* Rows *)

NoRow == [status |-> "absent", progress |-> 0, usage |-> 0, parent |-> NoId]

NewRow(parent) == [NoRow EXCEPT !.status = "pending", !.parent = parent]

\* A session flushes only the columns whose value differs from the loaded one;
\* an UPDATE of a vanished row changes nothing.
OrmUpdate(current, loaded, new) ==
  IF current = NoRow THEN NoRow
  ELSE [f \in DOMAIN current |-> IF new[f] = loaded[f] THEN current[f] ELSE new[f]]

\* An UPDATE was due and matched no row: StaleDataError.
UpdateMisses(current, loaded, new) == current = NoRow /\ new # loaded

Finished(i) == row[i].status \in Terminal

Open(i) == row[i].status \in {"pending", "running"}

\* The columns _progress assigns
WithProgress(r, p) ==
  [r EXCEPT !.status = "running", !.progress = IF p > @ THEN p ELSE @]

-----------------------------------------------------------------------------
(* Events: _push to every queue subscribed to task i; a full queue loses its *)
(* oldest event                                                              *)

Enqueued(q, event) == Append(IF Len(q) = QueueSize THEN Tail(q) ELSE q, event)

Pushed(i, event) ==
  [s \in Streams |->
     IF stream[s].listed /\ stream[s].id = i
     THEN [stream[s] EXCEPT !.queue = Enqueued(@, event)]
     ELSE stream[s]]

Push(i, event) == stream' = Pushed(i, event)

-----------------------------------------------------------------------------
(* The run *)

FreeRun ==
  [pc |-> "free", id |-> NoId, parent |-> NoId, quality |-> FALSE, level |-> 0,
   phase |-> "draft", attempt |-> 0, calls |-> 0, answer |-> "none",
   error |-> "none", seen |-> NoRow, stop |-> FALSE,
   tick |-> "off", tickLevel |-> 0, tickSeen |-> NoRow]

At(r, place) == run[r].pc = place /\ ~run[r].stop

Live(r) == run[r].pc \notin {"free", "ended"}

Goto(r, me) == run' = [run EXCEPT ![r] = me] /\ UNCHANGED tasks

\* The finally block: the entry of _tasks goes, whoever it names.
End(r, me) ==
  /\ run' = [run EXCEPT ![r] =
       [FreeRun EXCEPT !.pc = "ended", !.id = me.id, !.calls = me.calls]]
  /\ tasks' = [tasks EXCEPT ![me.id] = NoRun]

\* What follows _progress(level) in _run_task
Proceed(r, me, level) ==
  CASE level = 1 -> Goto(r, [me EXCEPT !.pc = "reference"])
    [] level = 2 -> Goto(r, [me EXCEPT !.pc = "model", !.attempt = 1, !.tick = "sleep"])
    [] level = 4 -> Goto(r, [me EXCEPT !.pc = "model", !.attempt = 1, !.phase = "review"])
    [] level = 6 -> IF me.id \in cancelled THEN End(r, me)
                    ELSE Goto(r, [me EXCEPT !.pc = "read", !.level = 7])
    [] level = 7 -> IF me.id \in cancelled THEN End(r, me)
                    ELSE Goto(r, [me EXCEPT !.pc = "store"])

\* _progress(level) is called; it returns at once for a cancelled task.
Report(r, me, level) ==
  IF me.id \in cancelled
  THEN Proceed(r, me, level)
  ELSE Goto(r, [me EXCEPT !.pc = "read", !.level = level])

InPipeline(me) ==
  \/ me.pc \in {"model", "bill"}
  \/ me.pc \in {"read", "write"} /\ me.level = 4

\* The except block.  The final event goes out even for a cancelled task.
Fail(r, me) ==
  IF me.id \in cancelled
  THEN End(r, me) /\ Push(me.id, "failed")
  ELSE Goto(r, [me EXCEPT !.pc = "excuse"]) /\ UNCHANGED stream

\* An exception: inside the pipeline the finally block stops the ticker first.
Raise(r, me) ==
  IF InPipeline(me)
  THEN /\ Goto(r, [me EXCEPT !.pc = "join", !.error = "error",
                            !.seen = NoRow, !.answer = "none"])
       /\ UNCHANGED stream
  ELSE Fail(r, [me EXCEPT !.seen = NoRow])

\* Mutant: the review stores its own usage only.
Usage_ReviewOnly(me) == IF me.phase = "review" THEN me.attempt ELSE me.calls

\* What record_usage and, with the draft's added, record_review_usage store
Usage(me) == me.calls

\* The row the pending write of run r leaves
Written(me) ==
  LET new == CASE me.pc = "write" -> WithProgress(me.seen, me.level)
               [] me.pc = "commit" -> [me.seen EXCEPT !.status = "done", !.progress = 8]
               [] me.pc = "fail" -> [me.seen EXCEPT !.status = "failed"]
  IN IF me.pc = "bill"
     THEN IF row[me.id] = NoRow THEN NoRow ELSE [row[me.id] EXCEPT !.usage = Usage(me)]
     ELSE OrmUpdate(row[me.id], me.seen, new)

Writing(me) == me.pc \in {"write", "bill", "commit", "fail"}

\* db.get of the row found one that is not finished, and no cancel came.
MayWrite(i) == row[i] # NoRow /\ ~Finished(i) /\ i \notin cancelled

Load(r) ==
  /\ At(r, "load")
  /\ LET me == run[r] IN
       IF row[me.id] = NoRow \/ me.id \in cancelled
       THEN End(r, me)
       ELSE Report(r, [me EXCEPT !.parent = row[me.id].parent], 1)
  /\ UNCHANGED stream

ProgressRead(r) ==
  /\ At(r, "read")
  /\ LET me == run[r] IN
       IF MayWrite(me.id)
       THEN Goto(r, [me EXCEPT !.pc = "write", !.seen = row[me.id]]) /\ UNCHANGED stream
       ELSE Proceed(r, me, me.level) /\ Push(me.id, "progress")

ProgressWrite(r) ==
  /\ At(r, "write")
  /\ LET me == run[r] IN
       IF UpdateMisses(row[me.id], me.seen, WithProgress(me.seen, me.level))
       THEN Raise(r, me) /\ UNCHANGED row
       ELSE /\ row' = [row EXCEPT ![me.id] = Written(me)]
            /\ Proceed(r, [me EXCEPT !.seen = NoRow], me.level)
            /\ Push(me.id, "progress")

\* The parent must be finished; the reference problem may be gone.
Reference(r) ==
  /\ At(r, "reference")
  /\ LET me == run[r] IN
       \/ /\ me.parent # NoId => row[me.parent].status = "done"
          /\ Report(r, me, 2) /\ UNCHANGED stream
       \/ /\ me.parent # NoId => row[me.parent].status # "done"
          /\ Fail(r, me)

\* A well-formed answer: its usage is stored before anything else.  "bad" does
\* not parse as a problem, "length" was cut off, "empty" is asked for again once.
ModelAnswers(r) ==
  /\ At(r, "model")
  /\ \E answer \in {"good", "bad", "length", "empty"} :
       Goto(r, [run[r] EXCEPT !.pc = "bill", !.answer = answer, !.calls = @ + 1])
  /\ UNCHANGED stream

\* The request fails or the answer has no content field.
ModelFails(r) ==
  /\ At(r, "model")
  /\ Raise(r, run[r])

Bill(r) ==
  /\ At(r, "bill")
  /\ LET me == run[r] IN
       /\ row' = [row EXCEPT ![me.id] = Written(me)]
       /\ Push(me.id, "usage")
       /\ CASE me.answer = "empty" /\ me.attempt = 1 ->
                 Goto(r, [me EXCEPT !.pc = "model", !.attempt = 2, !.answer = "none"])
            [] me.answer = "good" /\ me.phase = "draft" /\ me.quality ->
                 Report(r, [me EXCEPT !.answer = "none"], 4)
            [] OTHER -> Goto(r, [me EXCEPT !.pc = "join", !.answer = "none",
                                  !.error = IF me.answer = "good" THEN "none" ELSE "error"])

\* wait_for gives the pipeline up; the write it interrupts may land.
Timeout(r) ==
  /\ ~run[r].stop /\ InPipeline(run[r])
  /\ LET me == run[r] IN
       /\ Goto(r, [me EXCEPT !.pc = "join", !.error = "error", !.seen = NoRow, !.answer = "none"])
       /\ \/ Writing(me) /\ row' = [row EXCEPT ![me.id] = Written(me)] /\ UNCHANGED hurt
          \/ /\ UNCHANGED row
             /\ hurt' = IF me.pc = "bill" THEN hurt \cup {<<me.id, "fault">>} ELSE hurt
  /\ UNCHANGED stream

\* The ticker has ended.  A cancellation that arrives here is swallowed with the
\* ticker's own; a ticker that died of an exception passes it on.
Join(r) ==
  /\ run[r].pc = "join"
  /\ LET me == [run[r] EXCEPT !.stop = FALSE, !.tick = "off", !.tickLevel = 0] IN
       \/ run[r].tick = "died" /\ Fail(r, me)
       \/ /\ run[r].tick = "ended" \/ (run[r].tick = "died" /\ run[r].stop)
          /\ CASE me.error = "none" -> Report(r, me, 6) /\ UNCHANGED stream
               [] me.error = "error" -> Fail(r, me)
               [] me.error = "cancelled" -> End(r, me) /\ UNCHANGED stream

Store(r) ==
  /\ At(r, "store")
  /\ LET me == run[r] IN
       IF MayWrite(me.id)
       THEN Goto(r, [me EXCEPT !.pc = "commit", !.seen = row[me.id]])
       ELSE End(r, me)
  /\ UNCHANGED stream

StoreCommit(r) ==
  /\ At(r, "commit")
  /\ LET me == run[r] IN
       IF row[me.id] = NoRow
       THEN Raise(r, me) /\ UNCHANGED row
       ELSE /\ row' = [row EXCEPT ![me.id] = Written(me)]
            /\ End(r, me)
            /\ Push(me.id, "done")

\* Mutant: the failure is announced but not stored.
Excuse_OnlyPushes(r) ==
  /\ At(r, "excuse")
  /\ End(r, run[r]) /\ Push(run[r].id, "failed")

Excuse(r) ==
  /\ At(r, "excuse")
  /\ LET me == run[r] IN
       IF MayWrite(me.id)
       THEN Goto(r, [me EXCEPT !.pc = "fail", !.seen = row[me.id]]) /\ UNCHANGED stream
       ELSE End(r, me) /\ Push(me.id, "failed")

\* A vanished row raises, which the inner except swallows.
FailCommit(r) ==
  /\ At(r, "fail")
  /\ LET me == run[r] IN
       /\ row' = [row EXCEPT ![me.id] = Written(me)]
       /\ End(r, me)
       /\ Push(me.id, "failed")

\* CancelledError is thrown at the await; the write it interrupts may land.  A
\* coroutine that has not started never reaches its finally block.
Unwind(r) ==
  /\ run[r].stop /\ Live(r) /\ run[r].pc # "join"
  /\ LET me == [run[r] EXCEPT !.stop = FALSE] IN
       /\ \/ /\ InPipeline(me)
             /\ Goto(r, [me EXCEPT !.pc = "join", !.error = "cancelled",
                                   !.seen = NoRow, !.answer = "none"])
          \/ ~InPipeline(me) /\ End(r, me)
          \/ me.pc = "load" /\ Goto(r, [FreeRun EXCEPT !.pc = "ended", !.id = me.id])
       /\ \/ UNCHANGED <<row, hurt>>
          \/ /\ Writing(me)
             /\ row' = [row EXCEPT ![me.id] = Written(me)]
             /\ hurt' = IF me.pc \in {"commit", "fail"}
                        THEN hurt \cup {<<me.id, "late cancel">>} ELSE hurt
  /\ UNCHANGED stream

\* The database fails.  In the except block that is swallowed and the row stays.
RunFault(r) ==
  /\ LET me == run[r] IN
       /\ \/ \E place \in {"load", "read", "write", "reference", "bill", "store", "commit"} :
               At(r, place) /\ Raise(r, me)
          \/ /\ At(r, "excuse") \/ At(r, "fail")
             /\ End(r, me) /\ Push(me.id, "failed")
       /\ hurt' = IF me.pc \in {"bill", "excuse", "fail"}
                  THEN hurt \cup {<<me.id, "fault">>} ELSE hurt

-----------------------------------------------------------------------------
(* The ticker of a run: cancelled once the run is at its join *)

TickAt(r, place) == run[r].tick = place /\ run[r].pc # "join"

\* The loop condition after a _progress
TickLoop(r) ==
  Goto(r, [run[r] EXCEPT !.tickSeen = NoRow,
             !.tick = IF run[r].id \in cancelled THEN "ended" ELSE "sleep"])

\* Two seconds are over; the elapsed time only grows.
TickWake(r) ==
  /\ TickAt(r, "sleep")
  /\ IF run[r].id \in cancelled
     THEN TickLoop(r)
     ELSE \E p \in {q \in TickLevels : q >= run[r].tickLevel} :
            Goto(r, [run[r] EXCEPT !.tick = "read", !.tickLevel = p])
  /\ UNCHANGED stream

TickRead(r) ==
  /\ TickAt(r, "read")
  /\ LET me == run[r] IN
       IF MayWrite(me.id)
       THEN Goto(r, [me EXCEPT !.tick = "write", !.tickSeen = row[me.id]]) /\ UNCHANGED stream
       ELSE TickLoop(r) /\ Push(me.id, "progress")

TickWritten(me) ==
  OrmUpdate(row[me.id], me.tickSeen, WithProgress(me.tickSeen, me.tickLevel))

TickWrite(r) ==
  /\ TickAt(r, "write")
  /\ LET me == run[r] IN
       IF UpdateMisses(row[me.id], me.tickSeen, WithProgress(me.tickSeen, me.tickLevel))
       THEN Goto(r, [me EXCEPT !.tick = "died", !.tickSeen = NoRow]) /\ UNCHANGED <<row, stream>>
       ELSE /\ row' = [row EXCEPT ![me.id] = TickWritten(me)]
            /\ TickLoop(r)
            /\ Push(me.id, "progress")

TickStop(r) ==
  /\ run[r].pc = "join" /\ run[r].tick \in {"sleep", "read", "write"}
  /\ LET me == run[r] IN
       /\ Goto(r, [me EXCEPT !.tick = "ended", !.tickSeen = NoRow])
       /\ \/ UNCHANGED row
          \/ me.tick = "write" /\ row' = [row EXCEPT ![me.id] = TickWritten(me)]
  /\ UNCHANGED <<env, cancelled, req, stream, hurt>>

TickFault(r) ==
  /\ TickAt(r, "read") \/ TickAt(r, "write")
  /\ Goto(r, [run[r] EXCEPT !.tick = "died", !.tickSeen = NoRow])
  /\ UNCHANGED <<stream, hurt>>

-----------------------------------------------------------------------------
(* The handlers *)

NewRequest == [pc |-> "idle", id |-> NoId, parent |-> NoId, seen |-> NoRow, runs |-> {}]

Answer(h, pc) == req' = [req EXCEPT ![h] = [@ EXCEPT !.pc = pc, !.seen = NoRow, !.runs = {}]]

NextRun(r) == run[r].pc = "free" /\ \A q \in Runs : run[q].pc = "free" => r <= q

\* SQLite without AUTOINCREMENT hands out max(id) + 1.
NextId(i) ==
  /\ \A j \in Ids : j >= i => row[j] = NoRow
  /\ i > 1 => row[i - 1] # NoRow

\* retry_task takes a failed source and its parent, refine_task a done source,
\* which becomes the parent.
CopyLoad(h, i) ==
  /\ req[h].pc = "idle"
  /\ CASE row[i].status = "failed" ->
            req' = [req EXCEPT ![h].pc = "insert", ![h].parent = row[i].parent]
       [] row[i].status = "done" ->
            req' = [req EXCEPT ![h].pc = "insert", ![h].parent = i]
       [] OTHER -> Answer(h, "refused")
  /\ UNCHANGED <<row, cancelled, tasks, run, stream, hurt>>

\* _enqueue_task up to its commit
Insert(h, i) ==
  /\ (h \in Creators /\ req[h].pc = "idle") \/ req[h].pc = "insert"
  /\ NextId(i)
  /\ row' = [row EXCEPT ![i] = NewRow(req[h].parent)]
  /\ req' = [req EXCEPT ![h].pc = "enqueue", ![h].id = i]
  /\ UNCHANGED <<cancelled, tasks, run, stream, hurt>>

\* db.refresh, which raises for a vanished row, and the rest of _enqueue_task
Enqueue(h) ==
  /\ req[h].pc = "enqueue"
  /\ LET i == req[h].id IN
       IF row[i] = NoRow
       THEN Answer(h, "broken") /\ UNCHANGED <<cancelled, tasks, run>>
       ELSE \E r \in Runs, quality \in BOOLEAN :
              /\ NextRun(r)
              /\ cancelled' = cancelled \ {i}
              /\ run' = [run EXCEPT ![r] =
                   [FreeRun EXCEPT !.pc = "load", !.id = i, !.quality = quality]]
              /\ tasks' = [tasks EXCEPT ![i] = r]
              /\ Answer(h, "answered")
  /\ UNCHANGED <<row, stream, hurt>>

\* task.cancel() for a set of runs; a run that ended does not notice.
Stopped(rs) == [r \in Runs |-> IF r \in rs /\ Live(r) THEN [run[r] EXCEPT !.stop = TRUE] ELSE run[r]]

CancelLoad(h, i) ==
  /\ req[h].pc = "idle"
  /\ IF ~Open(i)
     THEN /\ req' = [req EXCEPT ![h].pc = "refused", ![h].id = i]
          /\ UNCHANGED <<cancelled, run, hurt>>
     ELSE /\ cancelled' = cancelled \cup {i}
          /\ run' = Stopped({tasks[i]})
          /\ req' = [req EXCEPT ![h].id = i, ![h].runs = {tasks[i]} \ {NoRun},
                       ![h].pc = IF tasks[i] = NoRun THEN "recheck" ELSE "waiting"]
          /\ hurt' = IF \E g \in Requests : req[g].pc = "enqueue" /\ req[g].id = i
                     THEN hurt \cup {<<i, "early cancel">>} ELSE hurt
  /\ UNCHANGED <<row, tasks, stream>>

\* Mutant: gather does not wait.
WaitOver_AtOnce(h) == req[h].pc = "waiting"

\* gather returns: every run it waits for has ended.
WaitOver(h) ==
  /\ req[h].pc = "waiting"
  /\ \A r \in req[h].runs : run[r].pc = "ended"

\* Mutant: the watchers hear of the cancellation before the row is looked at again.
CancelReturns_Announces(h) ==
  /\ WaitOver(h) /\ h \in Cancellers
  /\ Answer(h, "recheck")
  /\ Push(req[h].id, "cancelled")
  /\ UNCHANGED <<row, cancelled, tasks, run, hurt>>

CancelReturns(h) ==
  /\ WaitOver(h) /\ h \in Cancellers
  /\ Answer(h, "recheck")
  /\ UNCHANGED <<row, cancelled, tasks, run, stream, hurt>>

\* Mutant: the second look at the status is left out.
CancelRecheck_None(h) ==
  /\ req[h].pc = "recheck"
  /\ req' = [req EXCEPT ![h].pc = "mark", ![h].seen = row[req[h].id]]
  /\ UNCHANGED <<row, cancelled, tasks, run, stream, hurt>>

\* Reading the status of a vanished row raises.
CancelRecheck(h) ==
  /\ req[h].pc = "recheck"
  /\ LET i == req[h].id IN
       CASE row[i] = NoRow -> Answer(h, "broken")
         [] Finished(i) -> Answer(h, "refused")
         [] OTHER -> req' = [req EXCEPT ![h].pc = "mark", ![h].seen = row[i]]
  /\ UNCHANGED <<row, cancelled, tasks, run, stream, hurt>>

CancelCommit(h) ==
  /\ req[h].pc = "mark"
  /\ LET i == req[h].id
         new == [req[h].seen EXCEPT !.status = "cancelled"]
     IN IF UpdateMisses(row[i], req[h].seen, new)
        THEN Answer(h, "broken") /\ UNCHANGED <<row, stream>>
        ELSE /\ row' = [row EXCEPT ![i] = OrmUpdate(@, req[h].seen, new)]
             /\ Push(i, "cancelled")
             /\ Answer(h, "cancelled")
  /\ UNCHANGED <<cancelled, tasks, run, hurt>>

\* The end of shutdown: all tables of the module are emptied.
ClearAll(h) ==
  /\ tasks' = [i \in Ids |-> NoRun]
  /\ cancelled' = {}
  /\ stream' = [s \in Streams |-> [stream[s] EXCEPT !.listed = FALSE]]
  /\ hurt' = hurt \cup Ids \X {"reset"}
  /\ Answer(h, "drop")

\* reset calls shutdown.
ResetBegin(h) ==
  /\ req[h].pc = "idle"
  /\ LET ids == {i \in Ids : tasks[i] # NoRun}
         rs == {tasks[i] : i \in ids}
     IN IF ids = {}
        THEN ClearAll(h) /\ UNCHANGED run
        ELSE /\ cancelled' = cancelled \cup ids
             /\ run' = Stopped(rs)
             /\ req' = [req EXCEPT ![h].pc = "waiting", ![h].runs = rs]
             /\ UNCHANGED <<tasks, stream, hurt>>
  /\ UNCHANGED <<row>>

ResetReturns(h) ==
  /\ WaitOver(h) /\ h \in Resetters
  /\ ClearAll(h)
  /\ UNCHANGED <<row, run>>

ResetDrop(h) ==
  /\ req[h].pc = "drop"
  /\ row' = [i \in Ids |-> NoRow]
  /\ Answer(h, "answered")
  /\ UNCHANGED <<cancelled, tasks, run, stream, hurt>>

\* The refresh of a create or one of the last two database calls of a cancel fails.
HandlerFault(h) ==
  /\ req[h].pc \in {"enqueue", "recheck", "mark"}
  /\ Answer(h, "broken")
  /\ hurt' = hurt \cup {<<req[h].id, "fault">>}
  /\ UNCHANGED <<tasks, run, stream>>

-----------------------------------------------------------------------------
(* Event streams *)

NewStream == [pc |-> "idle", id |-> NoId, listed |-> FALSE, queue |-> <<>>, told |-> "absent"]

\* The route reads the status ...
Connect(s, i) ==
  /\ stream[s].pc = "idle" /\ row[i] # NoRow
  /\ stream' = [stream EXCEPT ![s] =
       [NewStream EXCEPT !.pc = "connected", !.id = i, !.told = row[i].status]]

\* ... the response starts and subscribes its queue ...
Subscribe(s) ==
  /\ stream[s].pc = "connected"
  /\ stream' = [stream EXCEPT ![s].pc = "reread", ![s].listed = TRUE]

StreamEnd(s, status) ==
  stream' = [stream EXCEPT ![s] =
    [NewStream EXCEPT !.pc = "ended", !.id = stream[s].id, !.told = status]]

\* Mutant: the status the route read is trusted.
StreamReread_Stale(s) ==
  /\ stream[s].pc = "reread"
  /\ IF stream[s].told \in Terminal
     THEN StreamEnd(s, stream[s].told)
     ELSE stream' = [stream EXCEPT ![s].pc = "wait"]

\* ... and reads it again, unless the row is gone.
StreamReread(s) ==
  /\ stream[s].pc = "reread"
  /\ LET i == stream[s].id
         status == IF row[i] = NoRow THEN stream[s].told ELSE row[i].status
     IN IF status \in Terminal
        THEN StreamEnd(s, status)
        ELSE stream' = [stream EXCEPT ![s].pc = "wait", ![s].told = status]

StreamNext(s) ==
  /\ stream[s].pc = "wait" /\ stream[s].queue # <<>>
  /\ LET event == Head(stream[s].queue) IN
       IF event \in Terminal
       THEN StreamEnd(s, event)
       ELSE stream' = [stream EXCEPT ![s].queue = Tail(@)]

\* The client goes away.
Disconnect(s) ==
  /\ stream[s].pc \in {"connected", "reread", "wait"}
  /\ stream' = [stream EXCEPT ![s] = [NewStream EXCEPT !.pc = "dead"]]

\* The second read fails; the client is told that the task did.
StreamFault(s) ==
  /\ stream[s].pc = "reread"
  /\ StreamEnd(s, "failed")
  /\ hurt' = hurt \cup {<<stream[s].id, "fault">>}
  /\ UNCHANGED <<tasks, run>>

-----------------------------------------------------------------------------
(* Crash and restart *)

Settled == {"idle", "answered", "refused", "cancelled", "broken", "dead"}

Crash ==
  /\ life = "up"
  /\ crashes < MaxCrashes
  /\ crashes' = crashes + 1
  /\ life' = "down"
  /\ cancelled' = {}
  /\ tasks' = [i \in Ids |-> NoRun]
  /\ run' = [r \in Runs |-> IF run[r].pc = "free" THEN FreeRun
               ELSE [FreeRun EXCEPT !.pc = "ended", !.id = run[r].id, !.calls = run[r].calls]]
  /\ req' = [h \in Requests |-> IF req[h].pc \in Settled THEN req[h]
               ELSE [NewRequest EXCEPT !.pc = "dead"]]
  /\ stream' = [s \in Streams |-> IF stream[s].pc \in {"idle", "ended"} THEN stream[s]
               ELSE [NewStream EXCEPT !.pc = "dead"]]
  /\ hurt' = hurt \cup {i \in Ids : Open(i)} \X {"crash"}
  /\ UNCHANGED <<row, faults>>

\* Mutant: interrupted tasks are left as they are.
Start_NoSweep ==
  /\ life = "down"
  /\ life' = "up"
  /\ UNCHANGED <<row, faults, crashes, cancelled, tasks, run, req, stream, hurt>>

\* The lifespan with fail_stale_tasks
Start ==
  /\ life = "down"
  /\ life' = "up"
  /\ row' = [i \in Ids |-> IF Open(i) THEN [row[i] EXCEPT !.status = "failed"] ELSE row[i]]
  /\ UNCHANGED <<faults, crashes, cancelled, tasks, run, req, stream, hurt>>

\* Nothing left to do
Quiescent ==
  /\ life = "up"
  /\ \A h \in Requests : req[h].pc \in Settled
  /\ \A r \in Runs : ~Live(r)
  /\ \A s \in Streams : stream[s].pc \in {"idle", "ended", "dead", "wait"}
  /\ UNCHANGED vars

-----------------------------------------------------------------------------
\* A row of an earlier process; ids are left for the requests.
OldRow(status) ==
  [NoRow EXCEPT !.status = status, !.progress = IF status = "done" THEN 8 ELSE 0]

Init ==
  /\ life = "down"
  /\ \E n \in 0 .. MaxIds - Cardinality(Creators \cup Copiers) : \E old \in [1 .. n -> OldStatuses] :
       row = [i \in Ids |-> IF i <= n THEN OldRow(old[i]) ELSE NoRow]
  /\ cancelled = {}
  /\ tasks = [i \in Ids |-> NoRun]
  /\ run = [r \in Runs |-> FreeRun]
  /\ req = [h \in Requests |-> NewRequest]
  /\ stream = [s \in Streams |-> NewStream]
  /\ faults = 0 /\ crashes = 0 /\ hurt = {}

RunStep(r) ==
  /\ life = "up"
  /\ \/ /\ \/ Load(r) \/ ProgressRead(r) \/ Reference(r) \/ ModelAnswers(r)
           \/ ModelFails(r) \/ Join(r) \/ Store(r) \/ Excuse(r)
        /\ UNCHANGED <<row, hurt>>
     \/ /\ ProgressWrite(r) \/ Bill(r) \/ StoreCommit(r) \/ FailCommit(r)
        /\ UNCHANGED hurt
     \/ Timeout(r) \/ Unwind(r)
  /\ UNCHANGED <<env, cancelled, req>>

TickStep(r) ==
  /\ life = "up"
  /\ \/ (TickWake(r) \/ TickRead(r)) /\ UNCHANGED row
     \/ TickWrite(r) \/ TickStop(r)
  /\ UNCHANGED <<env, cancelled, req, hurt>>

\* The steps of a handler that has begun
HandlerStep(h) ==
  /\ life = "up"
  /\ \/ h \in Copiers /\ \E i \in Ids : Insert(h, i)
     \/ Enqueue(h)
     \/ CancelReturns(h) \/ CancelRecheck(h) \/ CancelCommit(h)
     \/ ResetReturns(h) \/ ResetDrop(h)
  /\ UNCHANGED env

Arrive(h) ==
  /\ life = "up"
  /\ \/ h \in Creators /\ \E i \in Ids : Insert(h, i)
     \/ h \in Copiers /\ \E i \in Ids : CopyLoad(h, i)
     \/ h \in Cancellers /\ \E i \in Ids : CancelLoad(h, i)
     \/ h \in Resetters /\ ResetBegin(h)
  /\ UNCHANGED env

StreamFrame == life = "up" /\ UNCHANGED <<env, row, cancelled, tasks, run, req, hurt>>

StreamClient(s) == StreamFrame /\ (Disconnect(s) \/ \E i \in Ids : Connect(s, i))

StreamStep(s) == StreamFrame /\ (Subscribe(s) \/ StreamReread(s) \/ StreamNext(s))

Fault ==
  /\ life = "up" /\ faults < MaxFaults
  /\ faults' = faults + 1
  /\ \/ \E r \in Runs : RunFault(r) /\ UNCHANGED req
     \/ \E r \in Runs : TickFault(r) /\ UNCHANGED req
     \/ \E s \in Streams : StreamFault(s) /\ UNCHANGED req
     \/ \E h \in Requests : HandlerFault(h)
  /\ UNCHANGED <<life, crashes, row, cancelled>>

Next ==
  \/ \E r \in Runs : RunStep(r) \/ TickStep(r)
  \/ \E h \in Requests : Arrive(h) \/ HandlerStep(h)
  \/ Fault
  \/ \E s \in Streams : StreamStep(s) \/ StreamClient(s)
  \/ Crash \/ Start \/ Quiescent

\* The event loop runs every ready coroutine, wait_for ends every wait for the
\* model, and a client reads its stream; nothing else must happen.
Fairness ==
  /\ \A r \in Runs : WF_vars(RunStep(r)) /\ WF_vars(TickStep(r))
  /\ \A h \in Requests : WF_vars(HandlerStep(h))
  /\ \A s \in Streams : WF_vars(StreamStep(s))

Spec == Init /\ [][Next]_vars /\ Fairness

-----------------------------------------------------------------------------
(* What a user sees: the state a row stands for, a request from its arrival to *)
(* its answer, the end a stream told                                           *)

Meaning(status) ==
  CASE status = "absent" -> "none"
    [] status \in {"pending", "running"} -> "open"
    [] OTHER -> status

Asked(q) == [at |-> IF q.pc \in Settled THEN q.pc ELSE "pending", id |-> q.id]

Ending(v) ==
  IF v.pc = "ended" THEN [id |-> v.id, end |-> v.told] ELSE [id |-> NoId, end |-> "nothing"]

State == [i \in Ids |-> Meaning(row[i].status)]
Call  == [h \in Requests |-> Asked(req[h])]
Heard == [s \in Streams |-> Ending(stream[s])]

Life == INSTANCE TaskLife WITH up <- life = "up", state <- State, call <- Call, told <- Heard

-----------------------------------------------------------------------------
(* Properties *)

\* None of these things ever happened to task i.
Spared(i, things) == \A what \in things : <<i, what>> \notin hurt

\* An unfinished task is never abandoned: a run that no cancel told to stop is
\* at work on it, or a request that will schedule, cancel or drop it is under
\* way, or the next start fails it.  (_enqueue_task, the except and finally
\* blocks of _run_task, cancel_task, fail_stale_tasks.)  Only an I/O error while
\* the end is being stored, and a reset that a create overlaps, break this.
NotAbandoned ==
  \A i \in Ids : Open(i) =>
    \/ life = "down" \/ ~Spared(i, {"fault", "reset"})
    \/ \E r \in Runs : run[r].id = i /\ Live(r) /\ i \notin cancelled
    \/ \E h \in Requests : req[h].id = i /\ req[h].pc \in {"enqueue", "waiting", "recheck", "mark"}
    \/ \E h \in Resetters : req[h].pc \in {"waiting", "drop"}

\* A cancel that answers "cancelled" has really ended the work: the row says so
\* for good, and neither the coroutine nor its ticker is left (cancel_task, the
\* finally block around the pipeline), unless the cancel overtook the create.
CancelHonoured ==
  \A h \in Cancellers :
    LET i == req[h].id IN
      req[h].pc = "cancelled" /\ Spared(i, {"early cancel", "reset"}) =>
        /\ row[i].status = "cancelled"
        /\ \A r \in Runs : run[r].id = i =>
             ~Live(r) /\ run[r].tick \notin {"sleep", "read", "write"}

\* Between any two awaits, whatever the coroutines, tickers, handlers, errors and
\* crashes do, the service keeps what TaskLife promises: an end is final, a cancel
\* answers "cancelled" only for a task that has no other end and "refused" only
\* for one that has ended, a created task is answered before it ends, a start
\* leaves no task open, a stream tells the end there was (ai_service.py, ai.py).
ImplementsTaskLife == Life!Spec

\* A done or failed task is charged for every answer the model gave, those
\* of an empty first attempt and of the draft before the review included
\* (record_usage, record_review_usage), if no I/O error, timeout or crash hit
\* the very write of an answer's usage.
EveryAnswerBilled ==
  \A r \in Runs :
    LET i == run[r].id IN
      /\ run[r].pc = "ended"
      /\ row[i].status \in {"done", "failed"}
      /\ Spared(i, {"fault", "crash", "reset"})
      => row[i].usage = run[r].calls

\* What a stream told last is what became of the task: "done" and "cancelled"
\* are the status of the row, "failed" may also be the end of a run that a
\* cancel marks instead.
StreamTellsEnd ==
  \A s \in Streams :
    LET i == stream[s].id IN
      stream[s].pc = "ended" /\ Spared(i, {"fault", "early cancel", "reset", "crash"}) =>
        \/ row[i].status = stream[s].told
        \/ stream[s].told = "failed" /\ (i \in cancelled \/ row[i].status = "cancelled")

\* Every task ends on a server that stays up, whatever the model does, unless
\* an I/O error meets the storing of its end.
TaskSettles ==
  \A i \in Ids : (life = "up" /\ Open(i))
    ~> (~Open(i) \/ life = "down" \/ ~Spared(i, {"fault"}))

\* Every stream comes to its end: the re-read after subscribing, the final
\* events of the run and of the cancel, and the queue that loses its oldest and
\* never its last event.  Exempt are an I/O error, a reset, and a cancel that
\* meets the last commit of the run or overtakes the create.
StreamEnds ==
  \A s \in Streams : stream[s].pc \notin {"idle", "ended", "dead"}
    ~> \/ stream[s].pc \in {"ended", "dead"}
       \/ ~Spared(stream[s].id, {"fault", "early cancel", "late cancel", "reset"})

-----------------------------------------------------------------------------
(* What a comment claims and the code does not keep *)

\* "_cancelled and the status in the database protect a cancelled task from
\* being turned back to done by its coroutine."
CancelledStays ==
  \A h \in Cancellers : req[h].pc = "cancelled" => row[req[h].id].status # "done"
=============================================================================
