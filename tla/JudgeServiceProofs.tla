------------------------- MODULE JudgeServiceProofs -------------------------
(***************************************************************************)
(* What holds of JudgeService for every number of submissions, tasks,      *)
(* requests, faults and crashes.                                           *)
(***************************************************************************)
EXTENDS JudgeService, FiniteSetTheorems, TLAPS

\* Tasks that were created and handlers that work on a submission name one.
TasksLocated == \A t \in Tasks : pc[t] # "free" => tsub[t] \in Subs
HandlersLocated ==
  /\ \A h \in Requests : hpc[h] \in {"schedule", "cancel", "reset"} => hsub[h] \in Subs
  /\ \A h \in Rejudgers : hpc[h] = "waiting" => hsub[h] \in Subs
Located == TasksLocated /\ HandlersLocated

\* A registration of s is a task of s: cancelling it disturbs nobody else.
RegistryMatches ==
  \A s \in Subs : reg[s] # NoTask => pc[reg[s]] # "free" /\ tsub[reg[s]] = s

\* Before it is scheduled a task is not cancelled, and only _finish runs in an
\* except block.
TaskLocals ==
  \A t \in Tasks :
    /\ pc[t] = "free" => ~cancelled[t]
    /\ trap[t] => pc[t] \in {"reread", "commit"}
    /\ out[t].row.status # "pending"

\* Nobody is expected to settle what a reset that failed half-way left.
BrokenHurts == \A h \in Resetters : hpc[h] = "broken" => hurt = Subs

IInv == TypeOK /\ Located /\ TaskLocals /\ RegistryMatches /\ BrokenHurts /\ PendingHasOwner

\* Running tasks were scheduled under a generation that is not ahead of the table.
GenerationsBound == \A t \in Tasks : Running(t) => tgen[t] <= gens[tsub[t]]

Registered == (NoReset => GenerationsBound) /\ CurrentTaskRegistered

-----------------------------------------------------------------------------
USE BoundsAssumption, DataAssumption DEF Subs, Tasks, NoTask, NoSub, Null

(* Rows and results have the types the tables give them. *)

LEMMA CounterType ==
  ASSUME NEW n \in Nat, NEW rs \in [1 .. n -> Verdicts]
  PROVE  Counter(rs) \in [Verdicts -> Nat]
<1> SUFFICES ASSUME NEW v \in Verdicts
             PROVE  Cardinality({i \in DOMAIN rs : rs[i] = v}) \in Nat
  BY DEF Counter
<1>1. IsFiniteSet(1 .. n)
  BY FS_Interval
<1>2. IsFiniteSet({i \in DOMAIN rs : rs[i] = v})
  BY <1>1, FS_Subset
<1> QED BY <1>2, FS_CardinalityType

LEMMA FinishedRowType ==
  ASSUME NEW n \in Nat, NEW rs \in [1 .. n -> Verdicts]
  PROVE  FinishedRow(rs) \in Rows /\ FinishedRow(rs).status \in {"success", "error"}
<1>1. Counter(rs) \in [Verdicts -> Nat]
  BY CounterType
<1>2. Counter(rs)["AC"] \in Nat
  BY <1>1 DEF Verdicts, NormalVerdicts
<1>3. Len(rs) = n
  OBVIOUS
<1> QED BY <1>1, <1>2, <1>3 DEF FinishedRow, Rows

LEMMA FixedRowTypes ==
  /\ NoRow \in Rows /\ PendingRow \in Rows
  /\ \A v \in Verdicts, total \in Nat \cup {Null} : ErrorRow(v, total) \in Rows
  BY DEF NoRow, PendingRow, ErrorRow, NoCounts, Rows

LEMMA OutcomeTypes ==
  /\ NoOutcome \in Results
  /\ \A o \in JudgeOutcomes : o \in Results /\ o.row.status \in {"success", "error"}
<1>1. NoOutcome \in Results
  BY FixedRowTypes DEF NoOutcome, Results
<1>2. InternalError \in Results /\ InternalError.row.status = "error"
  BY FixedRowTypes DEF InternalError, Results, ErrorRow, Verdicts
<1>3. ASSUME NEW n \in 1 .. MaxCases
      PROVE  LET o == [row |-> ErrorRow("CE", 10 * n), cases |-> <<>>]
             IN  o \in Results /\ o.row.status = "error"
  BY FixedRowTypes DEF Results, ErrorRow, Verdicts
<1>4. ASSUME NEW rs \in CaseRuns
      PROVE  LET o == [row |-> FinishedRow(rs), cases |-> rs]
             IN  o \in Results /\ o.row.status \in {"success", "error"}
  <2>1. PICK n \in 1 .. MaxCases : rs \in [1 .. n -> CaseVerdicts]
    BY <1>4 DEF CaseRuns
  <2>2. n \in Nat /\ rs \in [1 .. n -> Verdicts]
    BY <2>1 DEF Verdicts
  <2>3. rs \in Seq(Verdicts)
    BY <2>2
  <2> QED BY <2>2, <2>3, FinishedRowType DEF Results
<1> QED BY <1>1, <1>2, <1>3, <1>4 DEF JudgeOutcomes

LEMMA UpdateType ==
  ASSUME NEW a \in Rows, NEW b \in Rows, NEW c \in Rows
  PROVE  OrmUpdate(a, b, c) \in Rows
  BY DEF OrmUpdate, Flushed, Rows

LEMMA NormalizedType ==
  ASSUME NEW row \in Rows
  PROVE  /\ Normalized(row) \in Rows
         /\ Normalized(row).status = "pending" => row.status = "pending"
  BY DEF Normalized, Rows

-----------------------------------------------------------------------------
(* Types and locations: the part every other argument stands on. *)

Shape == TypeOK /\ Located

LEMMA ShapeInit == Init => Shape
<1> SUFFICES ASSUME Init PROVE Shape
  OBVIOUS
<1>1. sub \in [Subs -> Rows] /\ cases \in [Subs -> Seq(Verdicts)]
  <2>0. PICK n \in 0 .. MaxSubs : \E runs \in [1 .. n -> {<<>>} \cup LegacyRuns] :
          /\ sub = [s \in Subs |-> IF s > n THEN NoRow
                                   ELSE IF runs[s] = <<>> THEN PendingRow
                                   ELSE LegacyRow(runs[s])]
          /\ cases = [s \in Subs |-> IF s > n THEN <<>> ELSE runs[s]]
    BY DEF Init
  <2>1. PICK runs \in [1 .. n -> {<<>>} \cup LegacyRuns] :
          /\ sub = [s \in Subs |-> IF s > n THEN NoRow
                                   ELSE IF runs[s] = <<>> THEN PendingRow
                                   ELSE LegacyRow(runs[s])]
          /\ cases = [s \in Subs |-> IF s > n THEN <<>> ELSE runs[s]]
    BY <2>0
  <2>2. ASSUME NEW s \in Subs, ~(s > n)
        PROVE  /\ runs[s] \in Seq(Verdicts)
               /\ runs[s] # <<>> => LegacyRow(runs[s]) \in Rows
    <3>1. runs[s] = <<>> \/ runs[s] \in LegacyRuns
      BY <2>2
    <3>2. CASE runs[s] = <<>>
      BY <3>2
    <3>3. CASE runs[s] \in LegacyRuns
      <4>1. runs[s] \in Seq(Verdicts)
        BY <3>3 DEF Verdicts
      <4>2. PICK m \in Nat : runs[s] \in [1 .. m -> Verdicts]
        BY <4>1
      <4>3. FinishedRow(runs[s]) \in Rows
        BY <4>2, FinishedRowType
      <4> QED BY <4>1, <4>3 DEF LegacyRow, Rows
    <3> QED BY <3>1, <3>2, <3>3
  <2> QED BY <2>1, <2>2, FixedRowTypes
<1>2. ServerOK /\ MemoryOK
  BY DEF Init, ServerOK, MemoryOK
<1>3. TasksOK /\ TasksLocated
  BY FixedRowTypes, OutcomeTypes DEF Init, TasksOK, TasksLocated, TaskPlaces
<1>4. HandlersOK /\ HandlersLocated
  BY FixedRowTypes DEF Init, HandlersOK, HandlersLocated, HandlerPlaces, Requests
<1>5. emptied \subseteq Subs
  BY DEF Init
<1> QED BY <1>1, <1>2, <1>3, <1>4, <1>5 DEF Shape, TypeOK, TablesOK, Located

\* A part of the state that a step leaves alone keeps its shape.
LEMMA Frames ==
  ASSUME Shape
  PROVE  /\ UNCHANGED envVars => ServerOK'
         /\ UNCHANGED dbVars => TablesOK'
         /\ UNCHANGED memVars => MemoryOK'
         /\ UNCHANGED taskVars => TasksOK' /\ TasksLocated'
         /\ UNCHANGED handlerVars => HandlersOK' /\ HandlersLocated'
<1> USE DEF Shape, TypeOK, Located
<1>1. UNCHANGED envVars => ServerOK'
  BY DEF ServerOK, envVars
<1>2. UNCHANGED dbVars => TablesOK'
  BY DEF TablesOK, dbVars
<1>3. UNCHANGED memVars => MemoryOK'
  BY DEF MemoryOK, memVars
<1>4. UNCHANGED taskVars => TasksOK' /\ TasksLocated'
  BY DEF TasksOK, TasksLocated, taskVars
<1>5. UNCHANGED handlerVars => HandlersOK' /\ HandlersLocated'
  BY DEF HandlersOK, HandlersLocated, handlerVars
<1> QED BY <1>1, <1>2, <1>3, <1>4, <1>5

LEMMA ScheduleShape ==
  ASSUME Shape, NEW s \in Subs, NEW t \in Tasks, Schedule(s, t)
  PROVE  MemoryOK' /\ TasksOK' /\ TasksLocated'
<1> USE DEF Shape, TypeOK, Schedule
<1>1. MemoryOK'
  BY DEF MemoryOK
<1>2. pc' \in [Tasks -> TaskPlaces]
  BY DEF TasksOK, TaskPlaces
<1>3. tsub' \in [Tasks -> Subs \cup {NoSub}] /\ tgen' \in [Tasks -> Nat]
  BY DEF TasksOK, MemoryOK
<1>4. TasksLocated'
  BY DEF TasksOK, TasksLocated, Located
<1> QED BY <1>1, <1>2, <1>3, <1>4 DEF TasksOK

LEMMA StoreShape ==
  ASSUME Shape, NEW t \in Tasks, pc[t] # "free", StoreResult(t)
  PROVE  TablesOK'
<1>1. tsub[t] \in Subs /\ seen[t] \in Rows /\ out[t] \in Results
  BY DEF Shape, TypeOK, TasksOK, TasksLocated, Located
<1>2. OrmUpdate(sub[tsub[t]], seen[t], out[t].row) \in Rows
  BY <1>1, UpdateType DEF Shape, TypeOK, TablesOK, Results
<1> QED BY <1>1, <1>2 DEF Shape, TypeOK, TablesOK, StoreResult, Results

\* What a step of a task makes of its own locals
LocalsShape(t) ==
  /\ pc' \in [Tasks -> TaskPlaces] /\ trap' \in [Tasks -> BOOLEAN]
  /\ seen' \in [Tasks -> Rows] /\ out' \in [Tasks -> Results]
  /\ \A u \in Tasks : u # t => pc'[u] = pc[u]

LEMMA LeaveShape ==
  ASSUME Shape, NEW t \in Tasks, NEW where \in {"cleanup", "done"}, Leave(t, where)
  PROVE  LocalsShape(t)
<1> USE DEF Shape, TypeOK, TasksOK, Leave
<1>1. pc' \in [Tasks -> TaskPlaces]
  BY DEF TaskPlaces
<1>2. trap' \in [Tasks -> BOOLEAN]
  OBVIOUS
<1>3. seen' \in [Tasks -> Rows]
  BY FixedRowTypes
<1>4. out' \in [Tasks -> Results]
  BY OutcomeTypes
<1>5. \A u \in Tasks : u # t => pc'[u] = pc[u]
  OBVIOUS
<1> QED BY <1>1, <1>2, <1>3, <1>4, <1>5 DEF LocalsShape

LEMMA FinishShape ==
  ASSUME Shape, NEW t \in Tasks, NEW o \in Results, NEW x \in BOOLEAN, EnterFinish(t, o, x)
  PROVE  LocalsShape(t)
<1>1. CASE ~Current(t)
  BY <1>1, LeaveShape DEF EnterFinish
<1>2. CASE Current(t)
  <2> USE <1>2 DEF Shape, TypeOK, TasksOK, EnterFinish
  <2>1. pc' \in [Tasks -> TaskPlaces]
    BY DEF TaskPlaces
  <2>2. trap' \in [Tasks -> BOOLEAN]
    OBVIOUS
  <2>3. seen' \in [Tasks -> Rows]
    BY FixedRowTypes
  <2>4. out' \in [Tasks -> Results]
    OBVIOUS
  <2>5. \A u \in Tasks : u # t => pc'[u] = pc[u]
    OBVIOUS
  <2> QED BY <2>1, <2>2, <2>3, <2>4, <2>5 DEF LocalsShape
<1> QED BY <1>1, <1>2

LEMMA RaiseShape ==
  ASSUME Shape, NEW t \in Tasks, Raise(t)
  PROVE  LocalsShape(t)
<1>1. InternalError \in Results
  BY OutcomeTypes DEF JudgeOutcomes
<1> QED BY <1>1, LeaveShape, FinishShape DEF Raise

LEMMA LocalsSuffice ==
  ASSUME Shape, NEW t \in Tasks, pc[t] # "free", LocalsShape(t), TaskFrame
  PROVE  MemoryOK' /\ TasksOK' /\ TasksLocated' /\ HandlersOK' /\ HandlersLocated'
<1>1. TasksOK' /\ TasksLocated'
  BY DEF Shape, TypeOK, TasksOK, Located, TasksLocated, LocalsShape, TaskFrame
<1> QED BY <1>1, Frames DEF TaskFrame

LEMMA TaskShape ==
  ASSUME Shape, NEW t \in Tasks, TaskStep(t) \/ TaskFault(t)
  PROVE  Shape'
<1> USE DEF At
<1>1. CASE TLoad(t)
  <2>1. LocalsShape(t)
    BY <1>1 DEF TLoad, LocalsShape, Shape, TypeOK, TasksOK, TaskPlaces
  <2> QED BY <1>1, <2>1, Frames, LocalsSuffice DEF TLoad, Shape, TypeOK, Located
<1>2. CASE TJudge(t)
  <2>1. LocalsShape(t)
    BY <1>2, FinishShape, OutcomeTypes DEF TJudge
  <2> QED BY <1>2, <2>1, Frames, LocalsSuffice DEF TJudge, Shape, TypeOK, Located
<1>3. CASE TJudgeRaises(t)
  <2>1. LocalsShape(t)
    BY <1>3, RaiseShape DEF TJudgeRaises
  <2> QED BY <1>3, <2>1, Frames, LocalsSuffice DEF TJudgeRaises, Shape, TypeOK, Located
<1>4. CASE TReread(t)
  <2>1. LocalsShape(t)
    <3>1. pc[t] = "reread" /\ tsub[t] \in Subs
      BY <1>4 DEF TReread, Shape, Located, TasksLocated
    <3>2. sub[tsub[t]] \in Rows
      BY <3>1 DEF Shape, TypeOK, TablesOK
    <3>3. CASE Leave(t, "cleanup")
      BY <3>3, LeaveShape
    <3>4. CASE ~Leave(t, "cleanup")
      <4>1. /\ pc' = [pc EXCEPT ![t] = "commit"] /\ seen' = [seen EXCEPT ![t] = sub[tsub[t]]]
            /\ UNCHANGED <<trap, out>>
        BY <1>4, <3>4 DEF TReread
      <4> QED BY <3>2, <4>1 DEF LocalsShape, Shape, TypeOK, TasksOK, TaskPlaces
    <3> QED BY <3>3, <3>4
  <2> QED BY <1>4, <2>1, Frames, LocalsSuffice DEF TReread, Shape, TypeOK, Located
<1>5. CASE TCommit(t)
  <2>1. LocalsShape(t)
    BY <1>5, LeaveShape, RaiseShape DEF TCommit
  <2>2. TablesOK'
    BY <1>5, StoreShape, Frames DEF TCommit
  <2> QED BY <1>5, <2>1, <2>2, Frames, LocalsSuffice DEF TCommit, Shape, TypeOK, Located
<1>6. CASE TCleanup(t)
  <2>1. LocalsShape(t)
    BY <1>6 DEF TCleanup, LocalsShape, Shape, TypeOK, TasksOK, TaskPlaces
  <2> QED BY <1>6, <2>1, Frames, LocalsSuffice DEF TCleanup, Shape, TypeOK, Located
<1>7. CASE Unwind(t)
  <2>1. LocalsShape(t)
    BY <1>7, LeaveShape DEF Unwind
  <2>2. TablesOK'
    BY <1>7, StoreShape, Frames DEF Unwind
  <2> QED BY <1>7, <2>1, <2>2, Frames, LocalsSuffice DEF Unwind, Shape, TypeOK, Located
<1>8. CASE Reap(t)
  <2>1. MemoryOK'
    BY <1>8 DEF Reap, Shape, TypeOK, MemoryOK
  <2>2. TasksOK' /\ TasksLocated'
    BY <1>8 DEF Reap, Shape, TypeOK, TasksOK, TaskPlaces, Located, TasksLocated
  <2> QED BY <1>8, <2>1, <2>2, Frames DEF Reap, Shape, TypeOK, Located
<1>9. CASE TaskFault(t)
  <2>1. LocalsShape(t) /\ pc[t] # "free" /\ tsub[t] \in Subs
    BY <1>9, LeaveShape, RaiseShape DEF Shape, Located, TasksLocated, TaskFault
  <2>2. ServerOK'
    <3>1. faults' \in 0 .. MaxFaults
      BY <1>9 DEF TaskFault, Shape, TypeOK, ServerOK
    <3> QED BY <1>9, <2>1, <3>1 DEF TaskFault, Shape, TypeOK, ServerOK
  <2> QED BY <1>9, <2>1, <2>2, Frames, LocalsSuffice DEF TaskFault, Shape, TypeOK, Located
<1> QED BY <1>1, <1>2, <1>3, <1>4, <1>5, <1>6, <1>7, <1>8, <1>9 DEF TaskStep

LEMMA CancelShape ==
  ASSUME Shape, NEW h \in Requests, hsub[h] \in Subs, CancelJudge(h, hsub[h], "reset"),
         UNCHANGED <<hsub, hseen, htodo>>
  PROVE  MemoryOK' /\ TasksOK' /\ TasksLocated' /\ HandlersOK' /\ HandlersLocated'
<1> USE DEF Shape, TypeOK, CancelJudge, StopAndWait
<1>1. MemoryOK'
  BY DEF MemoryOK
<1>2. TasksOK' /\ TasksLocated'
  BY DEF MemoryOK, TasksOK, TasksLocated, Located
<1>3. hwait' \in [Requests -> Tasks \cup {NoTask}]
  BY DEF MemoryOK, HandlersOK
<1>4. hpc' \in [Requests -> HandlerPlaces]
  BY DEF HandlersOK, HandlerPlaces
<1>5. HandlersLocated'
  <2>1. \A k \in Requests : k # h => hpc'[k] = hpc[k]
    BY DEF HandlersOK
  <2> QED BY <2>1 DEF HandlersLocated, Located, Requests
<1> QED BY <1>1, <1>2, <1>3, <1>4, <1>5 DEF HandlersOK

\* What shutdown does up to its next wait: it waits for one task or is through.
LEMMA ShutdownDoes ==
  ASSUME Shape, NEW h \in Resetters, NEW rest \in SUBSET Subs, Shutdown(h, rest)
  PROVE  /\ UNCHANGED <<pc, tsub, tgen, trap, seen, out>>
         /\ hpc' = [hpc EXCEPT ![h] = hpc'[h]] /\ hpc'[h] \in {"waiting", "drop"}
         /\ reg' = reg \/ reg' = [s \in Subs |-> NoTask]
         /\ \/ UNCHANGED cancelled
            \/ \E s \in Subs : MustCancel(s) /\ cancelled' = [cancelled EXCEPT ![reg[s]] = TRUE]
         /\ hwait' \in [Requests -> Tasks \cup {NoTask}] /\ htodo' \in [Requests -> SUBSET Subs]
         /\ gens' \in [Subs -> Nat]
<1> USE DEF Shutdown, StopAndWait, Shape, TypeOK, MemoryOK, HandlersOK, Requests
<1>1. UNCHANGED <<pc, tsub, tgen, trap, seen, out>> /\ (reg' = reg \/ reg' = [s \in Subs |-> NoTask])
  OBVIOUS
<1>2. hpc' = [hpc EXCEPT ![h] = hpc'[h]] /\ hpc'[h] \in {"waiting", "drop"}
  OBVIOUS
<1>3. \/ UNCHANGED cancelled
      \/ \E s \in Subs : MustCancel(s) /\ cancelled' = [cancelled EXCEPT ![reg[s]] = TRUE]
  OBVIOUS
<1>4. hwait' \in [Requests -> Tasks \cup {NoTask}] /\ htodo' \in [Requests -> SUBSET Subs]
  BY ZenonT(30)
<1>5. gens' \in [Subs -> Nat]
  OBVIOUS
<1> QED BY <1>1, <1>2, <1>3, <1>4, <1>5

LEMMA ShutdownShape ==
  ASSUME Shape, NEW h \in Resetters, NEW rest \in SUBSET Subs, Shutdown(h, rest),
         UNCHANGED <<hsub, hseen>>
  PROVE  MemoryOK' /\ TasksOK' /\ TasksLocated' /\ HandlersOK' /\ HandlersLocated'
<1> USE ShutdownDoes DEF Shape, TypeOK
<1>1. MemoryOK'
  BY DEF MemoryOK
<1>2. TasksOK' /\ TasksLocated'
  BY DEF MemoryOK, TasksOK, TasksLocated, Located
<1>3. HandlersOK'
  BY DEF HandlersOK, HandlerPlaces, Requests
<1>4. HandlersLocated'
  <2>1. h \in Requests /\ h \notin Rejudgers
    BY RequestsAssumption DEF Requests
  <2>2. \A k \in Requests : k # h => hpc'[k] = hpc[k]
    BY DEF HandlersOK
  <2>3. hpc'[h] \in {"waiting", "drop"}
    OBVIOUS
  <2> QED BY <2>1, <2>2, <2>3 DEF HandlersLocated, Located, Requests
<1> QED BY <1>1, <1>2, <1>3, <1>4

LEMMA HandlerShape ==
  ASSUME Shape, NEW h \in Requests, Arrive(h) \/ HandlerStep(h) \/ HandlerFault(h)
  PROVE  Shape'
<1> DEFINE Fine == HandlersOK' /\ HandlersLocated'
<1> USE DEF Answer
<1>1. ASSUME NEW s \in Subs, CreateCommit(h, s) PROVE Shape'
  <2>1. Fine
    BY <1>1 DEF CreateCommit, Shape, TypeOK, Located, HandlersOK, HandlersLocated, HandlerPlaces, Ended
  <2>2. TablesOK'
    BY <1>1, FixedRowTypes DEF CreateCommit, Shape, TypeOK, TablesOK
  <2> QED BY <1>1, <2>1, <2>2, Frames DEF CreateCommit, Shape, TypeOK, Located
<1>2. CASE CreateSchedule(h)
  <2>1. Fine
    <3>1. hpc' = [hpc EXCEPT ![h] = hpc'[h]] /\ hpc'[h] \in {"failed", "answered"}
      BY <1>2 DEF CreateSchedule, Shape, TypeOK, HandlersOK
    <3> QED BY <1>2, <3>1 DEF CreateSchedule, Shape, TypeOK, Located, HandlersOK,
                              HandlersLocated, HandlerPlaces, Ended, Requests
  <2>2. MemoryOK' /\ TasksOK' /\ TasksLocated'
    BY <1>2, ScheduleShape, Frames DEF CreateSchedule, Shape, Located, HandlersLocated
  <2> QED BY <1>2, <2>1, <2>2, Frames DEF CreateSchedule, Shape, TypeOK, Located
<1>3. ASSUME NEW s \in Subs, RejudgeLoad(h, s) PROVE Shape'
  <2>1. Fine
    BY <1>3 DEF RejudgeLoad, Shape, TypeOK, Located, HandlersOK, HandlersLocated, HandlerPlaces, Ended, TablesOK
  <2> QED BY <1>3, <2>1, Frames DEF RejudgeLoad, Shape, TypeOK, Located
<1>4. CASE h \in Rejudgers /\ RejudgeCancel(h)
  <2>1. hsub[h] \in Subs
    BY <1>4 DEF RejudgeCancel, Shape, Located, HandlersLocated
  <2>2. Fine /\ MemoryOK' /\ TasksOK' /\ TasksLocated'
    BY <1>4, <2>1, CancelShape DEF RejudgeCancel
  <2> QED BY <1>4, <2>2, Frames DEF RejudgeCancel, Shape, TypeOK, Located
<1>5. CASE RejudgeCancelReturns(h)
  <2>1. Fine
    BY <1>5 DEF RejudgeCancelReturns, WaitOver, Shape, TypeOK, Located, HandlersOK, HandlersLocated, HandlerPlaces, Ended
  <2> QED BY <1>5, <2>1, Frames DEF RejudgeCancelReturns, WaitOver, Shape, TypeOK, Located
<1>6. CASE RejudgeCommit(h)
  <2>1. Fine
    <3>1. hpc' = [hpc EXCEPT ![h] = hpc'[h]] /\ hpc'[h] \in {"failed", "schedule"}
      BY <1>6 DEF RejudgeCommit, Shape, TypeOK, HandlersOK
    <3>2. hsub[h] \in Subs /\ hseen' \in [Requests -> Rows]
      BY <1>6, FixedRowTypes
         DEF RejudgeCommit, Shape, TypeOK, HandlersOK, Located, HandlersLocated
    <3> QED BY <1>6, <3>1, <3>2 DEF RejudgeCommit, Shape, TypeOK, Located, HandlersOK,
                                    HandlersLocated, HandlerPlaces, Ended, Requests
  <2>2. TablesOK'
    <3>1. OrmUpdate(sub[hsub[h]], hseen[h], PendingRow) \in Rows
      BY <1>6, FixedRowTypes, UpdateType
         DEF RejudgeCommit, Shape, TypeOK, TablesOK, HandlersOK, Located, HandlersLocated
    <3>2. sub' \in [Subs -> Rows]
      BY <1>6, <3>1 DEF RejudgeCommit, Shape, TypeOK, TablesOK, dbVars
    <3>3. cases' \in [Subs -> Seq(Verdicts)]
      <4>1. cases' = cases \/ cases' = [cases EXCEPT ![hsub[h]] = <<>>]
        BY <1>6 DEF RejudgeCommit, dbVars
      <4>2. cases \in [Subs -> Seq(Verdicts)] /\ <<>> \in Seq(Verdicts)
        BY DEF Shape, TypeOK, TablesOK
      <4> QED BY <4>1, <4>2
    <3>4. emptied' \subseteq Subs
      <4>1. emptied \subseteq Subs /\ hsub[h] \in Subs
        BY <1>6 DEF RejudgeCommit, Shape, TypeOK, TablesOK, Located, HandlersLocated
      <4>2. emptied' \subseteq emptied \cup {hsub[h]}
        BY <1>6 DEF RejudgeCommit, dbVars
      <4> QED BY <4>1, <4>2
    <3> QED BY <3>2, <3>3, <3>4 DEF TablesOK
  <2> QED BY <1>6, <2>1, <2>2, Frames DEF RejudgeCommit, Shape, TypeOK, Located
<1>7. CASE RejudgeSchedule(h)
  <2>1. Fine
    BY <1>7 DEF RejudgeSchedule, Shape, TypeOK, Located, HandlersOK, HandlersLocated, HandlerPlaces, Ended
  <2>2. MemoryOK' /\ TasksOK' /\ TasksLocated'
    BY <1>7, ScheduleShape DEF RejudgeSchedule, Shape, Located, HandlersLocated
  <2> QED BY <1>7, <2>1, <2>2, Frames DEF RejudgeSchedule, Shape, TypeOK, Located
<1>8. CASE h \in Resetters /\ (ResetBegin(h) \/ ResetCancelReturns(h))
  <2>1. PICK rest \in SUBSET Subs : Shutdown(h, rest)
    BY <1>8 DEF ResetBegin, ResetCancelReturns, Shape, TypeOK, HandlersOK
  <2>2. Fine /\ MemoryOK' /\ TasksOK' /\ TasksLocated'
    BY <1>8, <2>1, ShutdownShape DEF ResetBegin, ResetCancelReturns
  <2> QED BY <1>8, <2>2, Frames DEF ResetBegin, ResetCancelReturns, Shape, TypeOK, Located
<1>9. CASE ResetDropDetails(h) \/ ResetDrop(h)
  <2>1. Fine
    <3>1. hpc' = [hpc EXCEPT ![h] = hpc'[h]] /\ hpc'[h] \in {"dropping", "answered"} /\ UNCHANGED <<hsub, hseen, hwait, htodo>>
      BY <1>9 DEF ResetDropDetails, ResetDrop, Shape, TypeOK, HandlersOK
    <3> QED BY <3>1 DEF Shape, TypeOK, Located, HandlersOK, HandlersLocated, HandlerPlaces, Ended, Requests
  <2>2. TablesOK'
    <3>1. CASE ResetDropDetails(h)
      <4>1. UNCHANGED <<sub, emptied>> /\ cases' = [s \in Subs |-> <<>>]
        BY <3>1 DEF ResetDropDetails
      <4>2. sub \in [Subs -> Rows] /\ emptied \subseteq Subs
        BY DEF Shape, TypeOK, TablesOK
      <4>3. cases' \in [Subs -> Seq(Verdicts)]
        BY <4>1
      <4> QED BY <4>1, <4>2, <4>3 DEF TablesOK
    <3>2. CASE ResetDrop(h)
      BY <3>2, FixedRowTypes DEF ResetDrop, Shape, TypeOK, TablesOK
    <3> QED BY <1>9, <3>1, <3>2
  <2> QED BY <1>9, <2>1, <2>2, Frames DEF ResetDropDetails, ResetDrop, Shape, TypeOK, Located
<1>10. CASE HandlerFault(h)
  <2>1. Fine /\ (hurt' = Subs \/ (hurt' = hurt \cup {hsub[h]} /\ hsub[h] \in Subs))
    <3>1. hpc' = [hpc EXCEPT ![h] = hpc'[h]] /\ hpc'[h] \in {"failed", "broken"} /\ UNCHANGED <<hsub, hseen, hwait, htodo>>
      BY <1>10 DEF HandlerFault, Shape, TypeOK, HandlersOK
    <3>2. Fine
      BY <3>1 DEF Shape, TypeOK, Located, HandlersOK, HandlersLocated, HandlerPlaces, Ended, Requests
    <3>3. hurt' = Subs \/ (hurt' = hurt \cup {hsub[h]} /\ hsub[h] \in Subs)
      BY <1>10 DEF HandlerFault, Shape, Located, HandlersLocated
    <3> QED BY <3>2, <3>3
  <2>2. ServerOK'
    <3>1. faults' \in 0 .. MaxFaults
      BY <1>10 DEF HandlerFault, Shape, TypeOK, ServerOK
    <3> QED BY <1>10, <2>1, <3>1 DEF HandlerFault, Shape, TypeOK, ServerOK
  <2> QED BY <1>10, <2>1, <2>2, Frames DEF HandlerFault, Shape, TypeOK, Located
<1> QED BY <1>1, <1>2, <1>3, <1>4, <1>5, <1>6, <1>7, <1>8, <1>9, <1>10
        DEF Arrive, HandlerStep

LEMMA ServerShape ==
  ASSUME Shape, Crash \/ Start \/ StartStep
  PROVE  Shape'
<1>1. CASE Crash
  <2>1. ServerOK' /\ MemoryOK'
    BY <1>1 DEF Crash, Shape, TypeOK, ServerOK, MemoryOK
  <2>2. TasksOK' /\ TasksLocated'
    BY <1>1, FixedRowTypes, OutcomeTypes
       DEF Crash, Shape, TypeOK, TasksOK, TaskPlaces, Located, TasksLocated
  <2>3. HandlersOK' /\ HandlersLocated'
    BY <1>1, FixedRowTypes
       DEF Crash, Shape, TypeOK, HandlersOK, HandlerPlaces, Ended, HandlersLocated, Requests
  <2> QED BY <1>1, <2>1, <2>2, <2>3, Frames DEF Crash, Shape, TypeOK, Located
<1>2. CASE Start
  <2>1. ServerOK'
    BY <1>2 DEF Start, Shape, TypeOK, ServerOK
  <2>2. TablesOK'
    BY <1>2, NormalizedType DEF Start, Shape, TypeOK, TablesOK
  <2> QED BY <1>2, <2>1, <2>2, Frames DEF Start, Shape, TypeOK, Located
<1>3. ASSUME NEW s \in Subs, Requeue(s) PROVE Shape'
  <2>1. ServerOK'
    BY <1>3 DEF Requeue, Shape, TypeOK, ServerOK
  <2>2. MemoryOK' /\ TasksOK' /\ TasksLocated'
    BY <1>3, ScheduleShape DEF Requeue
  <2> QED BY <1>3, <2>1, <2>2, Frames DEF Requeue, Shape, TypeOK, Located
<1>4. CASE Serve
  <2>1. ServerOK'
    BY <1>4 DEF Serve, Shape, TypeOK, ServerOK
  <2> QED BY <1>4, <2>1, Frames DEF Serve, Shape, TypeOK, Located
<1> QED BY <1>1, <1>2, <1>3, <1>4 DEF StartStep

LEMMA ShapeStep == Shape /\ [Next]_vars => Shape'
<1> SUFFICES ASSUME Shape, [Next]_vars PROVE Shape'
  OBVIOUS
<1>1. CASE UNCHANGED vars
  BY <1>1, Frames DEF Shape, TypeOK, Located, vars
<1> QED BY <1>1, TaskShape, HandlerShape, ServerShape DEF Next, Quiescent

\* Every reachable state is well typed, for any number of submissions, tasks and
\* requests: in particular every registration and every argument of a created
\* task names a submission the tables know.
THEOREM TypeCorrect == Spec => []TypeOK
<1>1. Shape /\ [Next]_vars => Shape'
  BY ShapeStep
<1>2. Shape => TypeOK
  BY DEF Shape
<1> QED BY ShapeInit, <1>1, <1>2, PTL DEF Spec

-----------------------------------------------------------------------------
(* A pending submission always has an owner. *)

\* All that a step of task t can do to tasks, registry and handlers
Moves(t) ==
  /\ life = "up" /\ UNCHANGED <<life, todo, gens, tsub, tgen, cancelled, handlerVars>>
  /\ hurt \subseteq hurt'
  /\ \A s \in Subs : reg'[s] \in {reg[s], NoTask}
  /\ pc[t] # "free" /\ pc'[t] # "free"
  /\ \A u \in Tasks : u # t => /\ pc'[u] = pc[u] /\ trap'[u] = trap[u]
                               /\ seen'[u] = seen[u] /\ out'[u] = out[u]
  /\ trap'[t] => pc'[t] \in {"reread", "commit"}
  /\ out'[t].row.status # "pending"

LEMMA LeaveMoves ==
  ASSUME Shape, NEW t \in Tasks, NEW where \in {"cleanup", "done"}, Leave(t, where)
  PROVE  /\ pc'[t] = where /\ ~trap'[t] /\ out'[t].row.status # "pending"
         /\ \A u \in Tasks : u # t => /\ pc'[u] = pc[u] /\ trap'[u] = trap[u]
                                      /\ seen'[u] = seen[u] /\ out'[u] = out[u]
  BY DEF Leave, Shape, TypeOK, TasksOK, NoOutcome, NoRow

LEMMA FinishMoves ==
  ASSUME Shape, NEW t \in Tasks, NEW o \in JudgeOutcomes, NEW x \in BOOLEAN, EnterFinish(t, o, x)
  PROVE  /\ pc'[t] = IF Current(t) THEN "reread" ELSE "cleanup"
         /\ trap'[t] => pc'[t] = "reread"
         /\ out'[t].row.status # "pending"
         /\ \A u \in Tasks : u # t => /\ pc'[u] = pc[u] /\ trap'[u] = trap[u]
                                      /\ seen'[u] = seen[u] /\ out'[u] = out[u]
<1>1. CASE ~Current(t)
  BY <1>1, LeaveMoves DEF EnterFinish
<1>2. CASE Current(t)
  BY <1>2, OutcomeTypes DEF EnterFinish, Shape, TypeOK, TasksOK
<1> QED BY <1>1, <1>2

LEMMA RaiseMoves ==
  ASSUME Shape, NEW t \in Tasks, Raise(t)
  PROVE  /\ pc'[t] = IF Current(t) /\ ~trap[t] THEN "reread" ELSE "cleanup"
         /\ trap'[t] => pc'[t] = "reread"
         /\ out'[t].row.status # "pending"
         /\ \A u \in Tasks : u # t => /\ pc'[u] = pc[u] /\ trap'[u] = trap[u]
                                      /\ seen'[u] = seen[u] /\ out'[u] = out[u]
<1>1. CASE trap[t]
  BY <1>1, LeaveMoves DEF Raise
<1>2. CASE ~trap[t]
  <2>1. InternalError \in JudgeOutcomes
    BY DEF JudgeOutcomes
  <2> QED BY <1>2, <2>1, FinishMoves DEF Raise
<1> QED BY <1>1, <1>2

LEMMA TaskMoves ==
  ASSUME Shape, TaskLocals, NEW t \in Tasks, TaskStep(t) \/ TaskFault(t)
  PROVE  Moves(t)
<1> USE DEF Moves, TaskFrame, memVars, envVars, At
<1>1. CASE TLoad(t)
  BY <1>1 DEF TLoad, Shape, TypeOK, TasksOK, TaskLocals
<1>2. CASE TJudge(t)
  BY <1>2, FinishMoves DEF TJudge
<1>3. CASE TJudgeRaises(t)
  BY <1>3, RaiseMoves DEF TJudgeRaises
<1>4. CASE TReread(t)
  BY <1>4, LeaveMoves DEF TReread, Shape, TypeOK, TasksOK, TaskLocals
<1>5. CASE TCommit(t)
  BY <1>5, LeaveMoves, RaiseMoves DEF TCommit
<1>6. CASE TCleanup(t)
  BY <1>6 DEF TCleanup, Shape, TypeOK, TasksOK, TaskLocals
<1>7. CASE Unwind(t)
  BY <1>7, LeaveMoves DEF Unwind
<1>8. CASE Reap(t)
  BY <1>8 DEF Reap, Shape, TypeOK, TasksOK, MemoryOK, TaskLocals
<1>9. CASE TaskFault(t)
  BY <1>9, LeaveMoves, RaiseMoves DEF TaskFault
<1> QED BY <1>1, <1>2, <1>3, <1>4, <1>5, <1>6, <1>7, <1>8, <1>9 DEF TaskStep

\* A commit makes no row pending, and the commit of a task that is to settle its
\* submission does settle it.
LEMMA StoreSettles ==
  ASSUME Shape, TaskLocals, NEW t \in Tasks, pc[t] # "free", StoreResult(t),
         NEW s \in Subs, sub'[s].status = "pending"
  PROVE  sub[s].status = "pending" /\ (tsub[t] = s => seen[t].status # "pending")
<1>1. CASE tsub[t] # s
  BY <1>1 DEF StoreResult, Shape, TypeOK, TablesOK
<1>2. CASE tsub[t] = s
  <2>1. sub'[s].status = Flushed(sub[s].status, seen[t].status, out[t].row.status)
    BY <1>2 DEF StoreResult, OrmUpdate, Shape, TypeOK, TablesOK
  <2> QED BY <2>1, <1>2 DEF Flushed, TaskLocals
<1> QED BY <1>1, <1>2

\* One step of a task: a pending row was pending before, and if the task was
\* to settle it, it still is, unless the step met an I/O error or a reset.
LEMMA TaskKeeps ==
  ASSUME Shape, TaskLocals, NEW t \in Tasks, TaskStep(t) \/ TaskFault(t),
         NEW s \in Subs, sub'[s].status = "pending"
  PROVE  /\ sub[s].status = "pending"
         /\ tsub[t] = s /\ Settles(t) => Settles(t)' \/ s \in hurt' \/ DetailsGone
<1>0. Moves(t)
  BY TaskMoves
<1>1. Current(t)' <=> Current(t)
  BY <1>0 DEF Moves, Current
<1>2. tsub[t] = s /\ sub[s].status = "pending" => sub[tsub[t]] # NoRow
  BY DEF NoRow
<1> USE DEF At, Settles, dbVars
<1>3. CASE TLoad(t)
  <2>1. UNCHANGED <<sub, cancelled>>
    BY <1>3 DEF TLoad, TaskFrame
  <2>2. sub[tsub[t]] # NoRow => pc'[t] = "run"
    BY <1>3 DEF TLoad, Shape, TypeOK, TasksOK
  <2> QED BY <1>1, <1>2, <2>1, <2>2
<1>4. CASE TJudge(t)
  <2>1. Current(t) => pc'[t] = "reread"
    BY <1>4, FinishMoves DEF TJudge
  <2> QED BY <1>4, <1>1, <2>1 DEF TJudge, TaskFrame
<1>5. CASE TJudgeRaises(t)
  <2>1. Current(t) => pc'[t] = "reread"
    BY <1>5, RaiseMoves DEF TJudgeRaises, TaskLocals
  <2> QED BY <1>5, <1>1, <2>1 DEF TJudgeRaises, TaskFrame
<1>6. CASE TReread(t)
  <2>1. sub[tsub[t]] # NoRow /\ Current(t) => pc'[t] = "commit" /\ seen'[t] = sub[tsub[t]]
    BY <1>6 DEF TReread, Shape, TypeOK, TasksOK
  <2> QED BY <1>6, <1>1, <1>2, <2>1 DEF TReread, TaskFrame
<1>7. CASE TCommit(t)
  <2>1. CASE CommitRaises(t)
    BY <1>7, <1>2, <2>1 DEF TCommit, CommitRaises, UpdateMisses
  <2>2. CASE StoreResult(t)
    BY <1>7, <2>2, StoreSettles DEF TCommit
  <2> QED BY <1>7, <2>1, <2>2 DEF TCommit
<1>8. CASE TCleanup(t)
  BY <1>8 DEF TCleanup
<1>9. CASE Unwind(t)
  BY <1>9, StoreSettles DEF Unwind
<1>10. CASE Reap(t)
  BY <1>10 DEF Reap
<1>11. CASE TaskFault(t)
  BY <1>11 DEF TaskFault
<1> QED BY <1>3, <1>4, <1>5, <1>6, <1>7, <1>8, <1>9, <1>10, <1>11 DEF TaskStep

\* While the results have no table, the reset under way drops the rows too, or it
\* failed and every submission is hurt.
LEMMA NobodyLost ==
  ASSUME DetailsGone, BrokenHurts, hurt \subseteq hurt', NEW s \in Subs,
         \A k \in Resetters : hpc'[k] = hpc[k]
  PROVE  HasOwner(s)'
  BY DEF DetailsGone, BrokenHurts, HasOwner

LEMMA TaskOwner ==
  ASSUME Shape, TaskLocals, BrokenHurts, PendingHasOwner, NEW t \in Tasks, TaskStep(t) \/ TaskFault(t)
  PROVE  PendingHasOwner'
<1> SUFFICES ASSUME NEW s \in Subs, sub'[s].status = "pending"
             PROVE  HasOwner(s)'
  BY DEF PendingHasOwner
<1>1. Moves(t)
  BY TaskMoves
<1>2. HasOwner(s)
  BY TaskKeeps DEF PendingHasOwner
<1>3. CASE \E u \in Tasks : tsub[u] = s /\ Settles(u)
  <2>1. PICK u \in Tasks : tsub[u] = s /\ Settles(u)
    BY <1>3
  <2>2. CASE u = t /\ ~DetailsGone
    BY <1>1, <2>1, <2>2, TaskKeeps DEF HasOwner, Moves
  <2>3. CASE u # t
    <3>1. tsub'[u] = s /\ Settles(u)'
      BY <1>1, <2>1, <2>3 DEF Moves, Settles, Current
    <3> QED BY <3>1 DEF HasOwner
  <2>4. CASE DetailsGone
    BY <1>1, <2>4, NobodyLost DEF Moves, handlerVars
  <2> QED BY <2>2, <2>3, <2>4
<1>4. CASE ~\E u \in Tasks : tsub[u] = s /\ Settles(u)
  BY <1>1, <1>2, <1>4 DEF HasOwner, Moves, handlerVars
<1> QED BY <1>3, <1>4

\* The new task of a submission is its owner; the others keep theirs.
LEMMA ScheduleOwner ==
  ASSUME Shape, TaskLocals, NEW r \in Subs, NEW t \in Tasks, Schedule(r, t)
  PROVE  /\ tsub'[t] = r /\ Settles(t)'
         /\ \A s \in Subs \ {r} : \A u \in Tasks :
              tsub[u] = s /\ Settles(u) => tsub'[u] = s /\ Settles(u)'
<1> USE DEF Schedule, Shape, TypeOK, TasksOK, MemoryOK, Settles, Current
<1>1. tsub'[t] = r /\ Settles(t)'
  BY DEF NextTask, TaskLocals
<1>2. ASSUME NEW s \in Subs \ {r}, NEW u \in Tasks, tsub[u] = s, Settles(u)
      PROVE  tsub'[u] = s /\ Settles(u)'
  <2>1. u # t
    BY <1>2 DEF NextTask
  <2> QED BY <1>2, <2>1
<1> QED BY <1>1, <1>2

\* Cancelling the judgement of r takes no other submission's owner away.
LEMMA CancelOwner ==
  ASSUME Shape, RegistryMatches, NEW r \in Subs, NEW h \in Requests, NEW next, CancelJudge(h, r, next)
  PROVE  \A s \in Subs \ {r} : \A u \in Tasks :
           tsub[u] = s /\ Settles(u) => tsub'[u] = s /\ Settles(u)'
<1> SUFFICES ASSUME NEW s \in Subs \ {r}, NEW u \in Tasks, tsub[u] = s, Settles(u)
             PROVE  tsub'[u] = s /\ Settles(u)'
  OBVIOUS
<1>1. u # reg[r] \/ reg[r] = NoTask
  BY DEF RegistryMatches
<1>2. cancelled'[u] = cancelled[u]
  BY <1>1 DEF CancelJudge, StopAndWait, MustCancel, Shape, TypeOK, TasksOK, MemoryOK
<1>3. gens'[s] = gens[s]
  BY DEF CancelJudge, StopAndWait, Shape, TypeOK, MemoryOK
<1> QED BY <1>2, <1>3 DEF CancelJudge, StopAndWait, Settles, Current

\* The handler clauses of HasOwner, for one handler
Owns(h, s) ==
  \/ h \in Creators /\ hsub[h] = s /\ hpc[h] = "schedule"
  \/ h \in Rejudgers /\ hsub[h] = s /\ hpc[h] \in {"waiting", "reset", "schedule"}
  \/ h \in Resetters /\ hpc[h] \in {"waiting", "drop", "dropping"}

TaskOwns(s) == \E u \in Tasks : tsub[u] = s /\ Settles(u)

LEMMA OwnersAre ==
  ASSUME NEW s \in Subs
  PROVE  /\ HasOwner(s) <=> \/ life = "down" \/ s \in todo \/ s \in hurt
                            \/ TaskOwns(s) \/ \E h \in Requests : Owns(h, s)
         /\ HasOwner(s)' <=> \/ life' = "down" \/ s \in todo' \/ s \in hurt'
                             \/ TaskOwns(s)' \/ \E h \in Requests : Owns(h, s)'
  BY DEF HasOwner, Owns, TaskOwns, Requests

LEMMA Kept ==
  ASSUME NEW s \in Subs, HasOwner(s), NEW h \in Requests,
         UNCHANGED <<life, todo>>, hurt \subseteq hurt',
         \A k \in Requests : k # h => hpc'[k] = hpc[k] /\ hsub'[k] = hsub[k],
         TaskOwns(s) => TaskOwns(s)' \/ Owns(h, s)',
         Owns(h, s) => Owns(h, s)' \/ TaskOwns(s)' \/ s \in hurt'
  PROVE  HasOwner(s)'
<1>1. ASSUME NEW k \in Requests, k # h, Owns(k, s) PROVE Owns(k, s)'
  BY <1>1 DEF Owns
<1> QED BY <1>1, OwnersAre

LEMMA HandlerOwner ==
  ASSUME Shape, TaskLocals, RegistryMatches, BrokenHurts, PendingHasOwner,
         NEW h \in Requests, Arrive(h) \/ HandlerStep(h) \/ HandlerFault(h)
  PROVE  PendingHasOwner'
<1> SUFFICES ASSUME NEW s \in Subs, sub'[s].status = "pending"
             PROVE  HasOwner(s)'
  BY DEF PendingHasOwner
<1>0. sub[s].status = "pending" => HasOwner(s)
  BY DEF PendingHasOwner
<1>00. UNCHANGED taskVars /\ UNCHANGED gens /\ TaskOwns(s) => TaskOwns(s)'
  BY DEF TaskOwns, Settles, Current, taskVars
<1> DEFINE Others == \A k \in Requests : k # h => hpc'[k] = hpc[k] /\ hsub'[k] = hsub[k]
<1> USE DEF Answer, envVars, dbVars, memVars, Owns
<1>1. ASSUME NEW r \in Subs, h \in Creators, CreateCommit(h, r) PROVE HasOwner(s)'
  <2>1. Others /\ hpc'[h] = "schedule" /\ hsub'[h] = r
    BY <1>1 DEF CreateCommit, Shape, TypeOK, HandlersOK
  <2>2. CASE s = r
    BY <1>1, <2>1, <2>2, OwnersAre
  <2>3. CASE s # r
    <3>1. sub'[s] = sub[s]
      BY <1>1, <2>3 DEF CreateCommit, Shape, TypeOK, TablesOK
    <3> QED BY <1>0, <1>00, <1>1, <2>1, <3>1, Kept DEF CreateCommit
  <2> QED BY <2>2, <2>3
<1>2. CASE h \in Creators /\ CreateSchedule(h)
  <2>1. Others /\ hsub'[h] = hsub[h] /\ hsub[h] \in Subs /\ sub' = sub /\ hpc[h] = "schedule"
    BY <1>2 DEF CreateSchedule, Shape, TypeOK, HandlersOK, Located, HandlersLocated
  <2>2. CASE sub[hsub[h]] = NoRow
    <3>1. s # hsub[h] /\ UNCHANGED <<taskVars, gens>>
      BY <1>2, <2>1, <2>2 DEF CreateSchedule, NoRow
    <3>2. ~Owns(h, s)
      BY <1>2, <3>1, RequestsAssumption
    <3> QED BY <1>0, <1>00, <1>2, <2>1, <3>1, <3>2, Kept DEF CreateSchedule
  <2>3. CASE sub[hsub[h]] # NoRow
    <3>1. PICK t \in Tasks : Schedule(hsub[h], t)
      BY <1>2, <2>3 DEF CreateSchedule
    <3>2. s = hsub[h] => TaskOwns(s)'
      BY <2>1, <3>1, ScheduleOwner DEF TaskOwns
    <3>3. s # hsub[h] => (TaskOwns(s) => TaskOwns(s)')
      BY <2>1, <3>1, ScheduleOwner DEF TaskOwns
    <3>4. s # hsub[h] => ~Owns(h, s)
      BY <1>2, RequestsAssumption
    <3> QED BY <1>0, <1>2, <2>1, <3>2, <3>3, <3>4, Kept, OwnersAre DEF CreateSchedule
  <2> QED BY <2>2, <2>3
<1>3. ASSUME NEW r \in Subs, RejudgeLoad(h, r) PROVE HasOwner(s)'
  <2>1. Others /\ sub' = sub /\ ~Owns(h, s) /\ UNCHANGED <<taskVars, gens>>
    BY <1>3 DEF RejudgeLoad, Shape, TypeOK, HandlersOK
  <2> QED BY <1>0, <1>00, <1>3, <2>1, Kept DEF RejudgeLoad
<1>4. CASE h \in Rejudgers /\ RejudgeCancel(h)
  <2>1. /\ Others /\ hsub' = hsub /\ hsub[h] \in Subs /\ sub' = sub
        /\ hpc[h] = "cancel" /\ hpc'[h] \in {"waiting", "reset"}
    BY <1>4 DEF RejudgeCancel, CancelJudge, StopAndWait, Shape, TypeOK, HandlersOK, Located, HandlersLocated
  <2>2. s = hsub[h] => Owns(h, s)'
    BY <1>4, <2>1
  <2>3. s # hsub[h] => (TaskOwns(s) => TaskOwns(s)')
    BY <1>4, <2>1, CancelOwner DEF RejudgeCancel, TaskOwns
  <2>4. ~Owns(h, s)
    BY <1>4, <2>1, RequestsAssumption
  <2> QED BY <1>0, <1>4, <2>1, <2>2, <2>3, <2>4, Kept, OwnersAre DEF RejudgeCancel
<1>5. CASE RejudgeCancelReturns(h)
  <2>1. Others /\ hsub' = hsub /\ sub' = sub /\ hpc'[h] = "reset"
    BY <1>5 DEF RejudgeCancelReturns, WaitOver, Shape, TypeOK, HandlersOK
  <2>2. Owns(h, s) => Owns(h, s)'
    BY <1>5, <2>1, RequestsAssumption DEF RejudgeCancelReturns, WaitOver
  <2> QED BY <1>0, <1>00, <1>5, <2>1, <2>2, Kept DEF RejudgeCancelReturns, WaitOver
<1>6. CASE h \in Rejudgers /\ RejudgeCommit(h)
  <2>1. Others /\ hsub' = hsub /\ hsub[h] \in Subs
    BY <1>6 DEF RejudgeCommit, Shape, TypeOK, HandlersOK, Located, HandlersLocated
  <2>2. s # hsub[h] => sub'[s] = sub[s] /\ ~Owns(h, s)
    BY <1>6, <2>1, RequestsAssumption DEF RejudgeCommit, Shape, TypeOK, TablesOK
  <2>3. s = hsub[h] /\ ~DetailsGone => hpc'[h] = "schedule"
    BY <1>6, <2>1 DEF RejudgeCommit, UpdateMisses, NoRow, Shape, TypeOK, HandlersOK
  <2>4. s = hsub[h] /\ ~DetailsGone => Owns(h, s)'
    BY <1>6, <2>1, <2>3
  <2>5. DetailsGone => HasOwner(s)'
    <3>1. \A k \in Resetters : hpc'[k] = hpc[k]
      BY <1>6, <2>1, RequestsAssumption DEF Requests
    <3> QED BY <1>6, <3>1, NobodyLost DEF RejudgeCommit
  <2> QED BY <1>0, <1>00, <1>6, <2>1, <2>2, <2>4, <2>5, Kept, OwnersAre DEF RejudgeCommit
<1>7. CASE h \in Rejudgers /\ RejudgeSchedule(h)
  <2>1. Others /\ hsub' = hsub /\ hsub[h] \in Subs /\ sub' = sub
    BY <1>7 DEF RejudgeSchedule, Shape, TypeOK, HandlersOK, Located, HandlersLocated
  <2>2. PICK t \in Tasks : Schedule(hsub[h], t)
    BY <1>7 DEF RejudgeSchedule
  <2>3. s = hsub[h] => TaskOwns(s)'
    BY <2>1, <2>2, ScheduleOwner DEF TaskOwns
  <2>4. s # hsub[h] => (TaskOwns(s) => TaskOwns(s)')
    BY <2>1, <2>2, ScheduleOwner DEF TaskOwns
  <2>5. s # hsub[h] => ~Owns(h, s)
    BY <1>7, RequestsAssumption
  <2> QED BY <1>0, <1>7, <2>1, <2>3, <2>4, <2>5, Kept, OwnersAre DEF RejudgeSchedule
<1>8. CASE h \in Resetters /\ (ResetBegin(h) \/ ResetCancelReturns(h))
  <2>1. PICK rest \in SUBSET Subs : Shutdown(h, rest)
    BY <1>8 DEF ResetBegin, ResetCancelReturns, Shape, TypeOK, HandlersOK
  <2>2. Owns(h, s)'
    BY <1>8, <2>1, ShutdownDoes
  <2> QED BY <2>2, OwnersAre
<1>9. CASE ResetDrop(h)
  BY <1>9 DEF ResetDrop, NoRow
<1>10. CASE h \in Resetters /\ ResetDropDetails(h)
  <2>1. Owns(h, s)'
    BY <1>10 DEF ResetDropDetails, Shape, TypeOK, HandlersOK
  <2> QED BY <2>1, OwnersAre
<1>11. CASE HandlerFault(h)
  <2>1. Others /\ hsub' = hsub /\ sub' = sub
    BY <1>11 DEF HandlerFault, Shape, TypeOK, HandlersOK
  <2>2. Owns(h, s) => s \in hurt'
    BY <1>11, RequestsAssumption DEF HandlerFault
  <2>3. hurt \subseteq hurt'
    BY <1>11 DEF HandlerFault, Shape, TypeOK, ServerOK
  <2> QED BY <1>0, <1>00, <1>11, <2>1, <2>2, <2>3, Kept DEF HandlerFault
<1> QED BY <1>1, <1>2, <1>3, <1>4, <1>5, <1>6, <1>7, <1>8, <1>9, <1>10, <1>11
        DEF Arrive, HandlerStep

LEMMA ServerOwner ==
  ASSUME Shape, TaskLocals, PendingHasOwner, Crash \/ Start \/ StartStep
  PROVE  PendingHasOwner'
<1> SUFFICES ASSUME NEW s \in Subs, sub'[s].status = "pending"
             PROVE  HasOwner(s)'
  BY DEF PendingHasOwner
<1>1. CASE Crash
  BY <1>1 DEF Crash, HasOwner
<1>2. CASE Start
  <2>1. sub[s].status = "pending"
    BY <1>2, NormalizedType DEF Start, Shape, TypeOK, TablesOK
  <2> QED BY <1>2, <2>1 DEF Start, HasOwner
<1>3. ASSUME NEW r \in Subs, Requeue(r) PROVE HasOwner(s)'
  <2>1. HasOwner(s) /\ life # "down"
    BY <1>3 DEF Requeue, PendingHasOwner, dbVars
  <2>2. PICK t \in Tasks : Schedule(r, t)
    BY <1>3 DEF Requeue
  <2>3. s = r => TaskOwns(s)'
    BY <2>2, ScheduleOwner DEF TaskOwns
  <2>4. s # r => (TaskOwns(s) => TaskOwns(s)')
    BY <2>2, ScheduleOwner DEF TaskOwns
  <2>5. \A h \in Requests : Owns(h, s) => Owns(h, s)'
    BY <1>3 DEF Requeue, handlerVars, Owns
  <2> QED BY <1>3, <2>1, <2>3, <2>4, <2>5, OwnersAre DEF Requeue
<1>4. CASE Serve
  BY <1>4 DEF Serve, PendingHasOwner, HasOwner, Settles, Current,
              dbVars, memVars, taskVars, handlerVars
<1> QED BY <1>1, <1>2, <1>3, <1>4 DEF StartStep

\* What every step that is not a task's makes of tasks and registry
LEMMA OtherMoves ==
  ASSUME Shape,
         \/ \E h \in Requests : Arrive(h) \/ HandlerStep(h) \/ HandlerFault(h)
         \/ Start \/ StartStep
  PROVE  \/ \E s \in Subs, t \in Tasks : Schedule(s, t)
         \/ \E s \in Subs, h \in Requests : CancelJudge(h, s, "reset")
         \/ \E h \in Resetters, rest \in SUBSET Subs : Shutdown(h, rest)
         \/ UNCHANGED <<taskVars, memVars>>
<1>1. ASSUME NEW h \in Requests, Arrive(h) \/ HandlerFault(h)
      PROVE  \/ UNCHANGED <<taskVars, memVars>>
             \/ h \in Resetters /\ Shutdown(h, {s \in Subs : reg[s] # NoTask})
  BY <1>1 DEF Arrive, HandlerFault, CreateCommit, RejudgeLoad, ResetBegin
<1>2. ASSUME NEW h \in Requests, RejudgeCancel(h) \/ CreateSchedule(h) \/ RejudgeSchedule(h)
      PROVE  hsub[h] \in Subs
  BY <1>2 DEF RejudgeCancel, CreateSchedule, RejudgeSchedule, Shape, Located, HandlersLocated
<1>3. ASSUME NEW h \in Requests, HandlerStep(h)
      PROVE  \/ \E t \in Tasks : hsub[h] \in Subs /\ Schedule(hsub[h], t)
             \/ hsub[h] \in Subs /\ CancelJudge(h, hsub[h], "reset")
             \/ UNCHANGED <<taskVars, memVars>>
             \/ h \in Resetters /\ Shutdown(h, htodo[h])
  BY <1>2, <1>3 DEF HandlerStep, CreateSchedule, RejudgeCancel, RejudgeCancelReturns,
     RejudgeCommit, RejudgeSchedule, ResetCancelReturns, ResetDropDetails, ResetDrop
<1>4. ASSUME Start \/ StartStep
      PROVE  (\E s \in Subs, t \in Tasks : Schedule(s, t)) \/ UNCHANGED <<taskVars, memVars>>
  BY <1>4 DEF Start, StartStep, Requeue, Serve
<1>5. \A h \in Requests : htodo[h] \in SUBSET Subs
  BY DEF Shape, TypeOK, HandlersOK
<1>6. {s \in Subs : reg[s] # NoTask} \in SUBSET Subs
  OBVIOUS
<1> QED BY <1>1, <1>3, <1>4, <1>5, <1>6

LEMMA RegistryStep == Shape /\ TaskLocals /\ RegistryMatches /\ [Next]_vars => RegistryMatches'
<1> SUFFICES ASSUME Shape, TaskLocals, RegistryMatches, [Next]_vars PROVE RegistryMatches'
  OBVIOUS
<1> USE DEF RegistryMatches
<1>1. ASSUME NEW t \in Tasks, TaskStep(t) \/ TaskFault(t) PROVE RegistryMatches'
  <2> SUFFICES ASSUME NEW s \in Subs, reg'[s] # NoTask
               PROVE  pc'[reg'[s]] # "free" /\ tsub'[reg'[s]] = s
    OBVIOUS
  <2>1. reg'[s] = reg[s] /\ reg[s] \in Tasks /\ tsub' = tsub
    BY <1>1, TaskMoves DEF Moves, Shape, TypeOK, MemoryOK
  <2>2. pc'[reg[s]] # "free"
    BY <1>1, <2>1, TaskMoves DEF Moves
  <2> QED BY <2>1, <2>2
<1>2. ASSUME NEW s \in Subs, NEW t \in Tasks, Schedule(s, t) PROVE RegistryMatches'
  BY <1>2 DEF Schedule, NextTask, Shape, TypeOK, MemoryOK, TasksOK
<1>3. ASSUME NEW s \in Subs, NEW h \in Requests, CancelJudge(h, s, "reset")
      PROVE  RegistryMatches'
  BY <1>3 DEF CancelJudge
<1>4. CASE UNCHANGED <<taskVars, memVars>>
  BY <1>4 DEF taskVars, memVars
<1>5. ASSUME NEW h \in Resetters, NEW rest \in SUBSET Subs, Shutdown(h, rest)
      PROVE  RegistryMatches'
  BY <1>5, ShutdownDoes
<1>6. CASE Crash
  BY <1>6 DEF Crash
<1>7. Quiescent \/ UNCHANGED vars => UNCHANGED <<taskVars, memVars>>
  BY DEF Quiescent, vars
<1> QED BY <1>1, <1>2, <1>3, <1>4, <1>5, <1>6, <1>7, OtherMoves DEF Next

LEMMA LocalsStep == Shape /\ TaskLocals /\ RegistryMatches /\ [Next]_vars => TaskLocals'
<1> SUFFICES ASSUME Shape, TaskLocals, RegistryMatches, [Next]_vars PROVE TaskLocals'
  OBVIOUS
<1> USE DEF TaskLocals
<1>1. ASSUME NEW t \in Tasks, TaskStep(t) \/ TaskFault(t) PROVE TaskLocals'
  BY <1>1, TaskMoves DEF Moves
<1>2. ASSUME NEW s \in Subs, NEW t \in Tasks, Schedule(s, t) PROVE TaskLocals'
  BY <1>2 DEF Schedule, NextTask, Shape, TypeOK, TasksOK
<1>3. ASSUME NEW s \in Subs, NEW h \in Requests, CancelJudge(h, s, "reset")
      PROVE  TaskLocals'
  BY <1>3 DEF RegistryMatches, CancelJudge, StopAndWait, MustCancel, Running, Shape, TypeOK, TasksOK, MemoryOK
<1>4. CASE UNCHANGED taskVars
  BY <1>4 DEF taskVars
<1>5. CASE Crash
  BY <1>5 DEF Crash, NoOutcome, NoRow
<1>6. Quiescent \/ UNCHANGED vars => UNCHANGED taskVars
  BY DEF Quiescent, vars
<1>7. ASSUME NEW h \in Resetters, NEW rest \in SUBSET Subs, Shutdown(h, rest)
      PROVE  TaskLocals'
  BY ZenonT(30), <1>7, ShutdownDoes DEF RegistryMatches, MustCancel, Running, Shape, TypeOK, TasksOK, MemoryOK
<1> QED BY <1>1, <1>2, <1>3, <1>4, <1>5, <1>6, <1>7, OtherMoves DEF Next

\* Only a failed reset is broken, and it hurts every submission; a crash ends both.
LEMMA BrokenStep == Shape /\ TaskLocals /\ BrokenHurts /\ [Next]_vars => BrokenHurts'
<1> SUFFICES ASSUME Shape, TaskLocals, BrokenHurts, [Next]_vars,
                    NEW h \in Resetters, hpc'[h] = "broken"
             PROVE  hurt' = Subs
  BY DEF BrokenHurts
<1>0. h \in Requests /\ hurt \subseteq Subs /\ (hpc[h] = "broken" => hurt = Subs)
  BY DEF BrokenHurts, Requests, Shape, TypeOK, ServerOK
<1> USE DEF HandlersOK
<1>1. ASSUME NEW t \in Tasks, TaskStep(t) \/ TaskFault(t) PROVE hurt' = Subs
  <2>1. hpc' = hpc /\ hurt \subseteq hurt'
    BY <1>1, TaskMoves DEF Moves, handlerVars
  <2>2. hurt' \subseteq Subs
    BY <1>1, ShapeStep DEF Next, Shape, TypeOK, ServerOK
  <2> QED BY <1>0, <2>1, <2>2
<1>2. ASSUME NEW g \in Requests, Arrive(g) \/ HandlerStep(g) PROVE hurt' = Subs
  <2>1. hpc'[h] = "broken" => hpc[h] = "broken"
    <3>1. CASE Arrive(g)
      BY <1>0, <3>1 DEF Arrive, CreateCommit, RejudgeLoad, ResetBegin, Shutdown, StopAndWait,
                        Answer, Shape, TypeOK
    <3>2. CASE HandlerStep(g)
      BY <1>0, <3>2
         DEF HandlerStep, CreateSchedule, RejudgeCancel, RejudgeCancelReturns, CancelJudge,
             RejudgeCommit, RejudgeSchedule, ResetCancelReturns, ResetDropDetails, ResetDrop,
             Shutdown, StopAndWait, Answer, Shape, TypeOK
    <3> QED BY <1>2, <3>1, <3>2
  <2>2. UNCHANGED hurt
    BY <1>2 DEF Arrive, HandlerStep, CreateCommit, CreateSchedule, RejudgeLoad, RejudgeCancel,
       RejudgeCancelReturns, RejudgeCommit, RejudgeSchedule, ResetBegin, ResetCancelReturns,
       ResetDropDetails, ResetDrop, envVars
  <2> QED BY <1>0, <2>1, <2>2
<1>3. ASSUME NEW g \in Requests, HandlerFault(g) PROVE hurt' = Subs
  <2>1. CASE hurt' = Subs
    BY <2>1
  <2>2. CASE hurt' # Subs
    <3>1. hpc'[h] = "broken" => hpc[h] = "broken"
      BY <1>0, <1>3, <2>2 DEF HandlerFault, Answer, Shape, TypeOK
    <3>2. hurt' = Subs \/ \E x \in Requests : hurt' = hurt \cup {hsub[x]}
      BY <1>3 DEF HandlerFault
    <3>3. hurt' \subseteq Subs
      BY <1>3, ShapeStep DEF Next, Shape, TypeOK, ServerOK
    <3> QED BY <1>0, <3>1, <3>2, <3>3
  <2> QED BY <2>1, <2>2
<1>4. CASE Crash
  BY <1>0, <1>4 DEF Crash, Ended
<1>5. CASE Start \/ StartStep \/ Quiescent \/ UNCHANGED vars
  BY <1>0, <1>5 DEF Start, StartStep, Requeue, Serve, Quiescent, vars, handlerVars, envVars
<1> QED BY <1>1, <1>2, <1>3, <1>4, <1>5 DEF Next

LEMMA Initially == Init => IInv
<1> SUFFICES ASSUME Init PROVE IInv
  OBVIOUS
<1>1. Shape
  BY ShapeInit
<1>2. TaskLocals /\ RegistryMatches
  BY DEF Init, TaskLocals, RegistryMatches, NoOutcome, NoRow
<1>3. PendingHasOwner
  BY DEF Init, PendingHasOwner, HasOwner
<1>4. BrokenHurts
  BY DEF Init, BrokenHurts, Requests
<1> QED BY <1>1, <1>2, <1>3, <1>4 DEF IInv, Shape

LEMMA Inductive == IInv /\ [Next]_vars => IInv'
<1> SUFFICES ASSUME IInv, [Next]_vars PROVE IInv'
  OBVIOUS
<1>0. Shape /\ TaskLocals /\ RegistryMatches /\ BrokenHurts /\ PendingHasOwner
  BY DEF IInv, Shape
<1>1. Shape' /\ TaskLocals' /\ RegistryMatches' /\ BrokenHurts'
  BY <1>0, ShapeStep, LocalsStep, RegistryStep, BrokenStep
<1>2. PendingHasOwner'
  <2>1. CASE UNCHANGED vars
    BY <1>0, <2>1 DEF PendingHasOwner, HasOwner, Settles, Current,
                      vars, dbVars, memVars, taskVars, handlerVars, envVars
  <2> QED BY <1>0, <2>1, TaskOwner, HandlerOwner, ServerOwner DEF Next, Quiescent
<1> QED BY <1>1, <1>2 DEF IInv, Shape

\* No pending submission is ever forgotten, whatever the number of submissions,
\* of overlapping creates, rejudges and resets, of crashes and of I/O errors.
THEOREM NothingForgotten == Spec => []PendingHasOwner
<1>1. IInv => PendingHasOwner
  BY DEF IInv
<1> QED BY Initially, Inductive, <1>1, PTL DEF Spec

-----------------------------------------------------------------------------
(* Until a reset clears the tables, the registry leads to the current task. *)

\* Only the done-callback takes a registration away, its own and after the end.
LEMMA TaskEnds ==
  ASSUME Shape, NEW t \in Tasks, TaskStep(t) \/ TaskFault(t)
  PROVE  /\ Running(t)' => Running(t)
         /\ \A s \in Subs : reg'[s] = reg[s] \/ (reg[s] = t /\ ~Running(t))
<1>1. CASE Reap(t)
  BY <1>1 DEF Reap, Running, Shape, TypeOK, TasksOK, MemoryOK
<1>2. CASE ~Reap(t)
  <2>1. Running(t)
    BY <1>2 DEF TaskStep, TaskFault, At, Running,
                TLoad, TJudge, TJudgeRaises, TReread, TCommit, TCleanup, Unwind
  <2>2. UNCHANGED reg
    BY <1>2 DEF TaskStep, TaskFault, TaskFrame, memVars,
                TLoad, TJudge, TJudgeRaises, TReread, TCommit, TCleanup, Unwind
  <2> QED BY <2>1, <2>2
<1> QED BY <1>1, <1>2

\* A request that has arrived never counts as one that has not.
LEMMA IdleStays ==
  ASSUME [Next]_vars, Shape, TaskLocals, NEW h \in Requests, hpc'[h] = "idle"
  PROVE  hpc[h] = "idle"
<1> USE DEF Shape, TypeOK, HandlersOK
<1>1. CASE \E t \in Tasks : TaskStep(t) \/ TaskFault(t)
  BY <1>1, TaskMoves DEF Moves, handlerVars
<1>2. CASE \E g \in Requests : Arrive(g) \/ HandlerStep(g) \/ HandlerFault(g)
  <2> PICK g \in Requests : Arrive(g) \/ HandlerStep(g) \/ HandlerFault(g)
    BY <1>2
  <2>1. CASE Arrive(g) \/ HandlerFault(g)
    BY <2>1 DEF Arrive, HandlerFault, CreateCommit, RejudgeLoad, ResetBegin,
                Shutdown, StopAndWait, Answer
  <2>2. CASE HandlerStep(g)
    BY <2>2 DEF HandlerStep, CreateSchedule, RejudgeCancel, RejudgeCancelReturns, CancelJudge,
                RejudgeCommit, RejudgeSchedule, ResetCancelReturns, ResetDropDetails, ResetDrop,
                Shutdown, StopAndWait, Answer
  <2> QED BY <2>1, <2>2
<1>3. CASE Crash
  BY <1>3 DEF Crash
<1>4. CASE Start \/ StartStep \/ Quiescent \/ UNCHANGED vars
  BY <1>4 DEF Start, StartStep, Requeue, Serve, Quiescent, vars, handlerVars
<1> QED BY <1>1, <1>2, <1>3, <1>4 DEF Next

LEMMA RegisteredStep ==
  Shape /\ TaskLocals /\ RegistryMatches /\ Registered /\ [Next]_vars => Registered'
<1> SUFFICES ASSUME Shape, TaskLocals, RegistryMatches, Registered, [Next]_vars, NoReset'
             PROVE  GenerationsBound' /\ CurrentTaskRegistered'
  BY DEF Registered, CurrentTaskRegistered
<1>0. NoReset /\ GenerationsBound
  BY IdleStays DEF NoReset, Requests, Registered
<1> USE <1>0 DEF Registered, GenerationsBound, CurrentTaskRegistered
<1>1. ASSUME NEW t \in Tasks, TaskStep(t) \/ TaskFault(t)
      PROVE  GenerationsBound' /\ CurrentTaskRegistered'
  <2> SUFFICES ASSUME NEW u \in Tasks, Running(u)'
               PROVE  /\ tgen'[u] <= gens'[tsub'[u]]
                      /\ Current(u)' /\ ~cancelled'[u] => reg'[tsub'[u]] = u
    OBVIOUS
  <2>1. Moves(t)
    BY <1>1, TaskMoves
  <2>2. Running(u)
    BY <1>1, <2>1, TaskEnds DEF Moves, Running
  <2>3. UNCHANGED <<gens, tsub, tgen, cancelled>> /\ tsub[u] \in Subs
    BY <2>1, <2>2 DEF Moves, Running, Shape, Located, TasksLocated
  <2>4. reg[tsub[u]] = u => reg'[tsub[u]] = u
    BY <1>1, <2>2, <2>3, TaskEnds
  <2> QED BY <2>2, <2>3, <2>4 DEF Current
<1>2. ASSUME NEW s \in Subs, NEW t \in Tasks, Schedule(s, t)
      PROVE  GenerationsBound' /\ CurrentTaskRegistered'
  <2> SUFFICES ASSUME NEW u \in Tasks, Running(u)'
               PROVE  /\ tgen'[u] <= gens'[tsub'[u]]
                      /\ Current(u)' /\ ~cancelled'[u] => reg'[tsub'[u]] = u
    OBVIOUS
  <2> USE <1>2 DEF Schedule, Shape, TypeOK, MemoryOK, TasksOK
  <2>1. CASE u = t
    BY <2>1
  <2>2. CASE u # t
    <3>1. Running(u) /\ tsub'[u] = tsub[u] /\ tgen'[u] = tgen[u] /\ tsub[u] \in Subs
      BY <2>2 DEF Running, Located, TasksLocated
    <3>2. tgen[u] <= gens[tsub[u]] /\ tgen[u] \in Nat /\ gens[tsub[u]] \in Nat
      BY <3>1
    <3>3. CASE tsub[u] = s
      BY <3>1, <3>2, <3>3 DEF Current
    <3>4. CASE tsub[u] # s
      BY <3>1, <3>2, <3>4 DEF Current
    <3> QED BY <3>3, <3>4
  <2> QED BY <2>1, <2>2
<1>3. ASSUME NEW s \in Subs, NEW h \in Requests, CancelJudge(h, s, "reset")
      PROVE  GenerationsBound' /\ CurrentTaskRegistered'
  <2> SUFFICES ASSUME NEW u \in Tasks, Running(u)'
               PROVE  /\ tgen'[u] <= gens'[tsub'[u]]
                      /\ Current(u)' /\ ~cancelled'[u] => reg'[tsub'[u]] = u
    OBVIOUS
  <2> USE <1>3 DEF CancelJudge, StopAndWait, Shape, TypeOK, MemoryOK, TasksOK
  <2>1. Running(u) /\ UNCHANGED <<tsub, tgen, reg>> /\ tsub[u] \in Subs
    BY DEF Running, Located, TasksLocated
  <2>2. tgen[u] <= gens[tsub[u]] /\ tgen[u] \in Nat /\ gens[tsub[u]] \in Nat
    BY <2>1
  <2>3. gens'[s] = gens[s] + 1 /\ \A r \in Subs : r # s => gens'[r] = gens[r]
    OBVIOUS
  <2>4. ~cancelled'[u] => ~cancelled[u]
    OBVIOUS
  <2> QED BY <2>1, <2>2, <2>3, <2>4 DEF Current
<1>4. CASE UNCHANGED <<taskVars, memVars>>
  BY <1>4 DEF taskVars, memVars, Running, Current
<1>5. CASE Crash
  BY <1>5 DEF Crash, Running
<1>6. Quiescent \/ UNCHANGED vars => UNCHANGED <<taskVars, memVars>>
  BY DEF Quiescent, vars
<1>7. ASSUME NEW h \in Resetters, NEW rest \in SUBSET Subs, Shutdown(h, rest)
      PROVE  FALSE
  BY <1>7 DEF Shutdown, StopAndWait, NoReset, Requests, Shape, TypeOK, HandlersOK
<1> QED BY <1>1, <1>2, <1>3, <1>4, <1>5, <1>6, <1>7, OtherMoves DEF Next

\* Until a reset, cancel_judge always finds the task it has to stop: the task
\* of the current generation is the registered one, however rejudges, finished
\* tasks and their done-callbacks interleave.
THEOREM CurrentIsRegistered == Spec => []CurrentTaskRegistered
<1> DEFINE Inv == Shape /\ TaskLocals /\ RegistryMatches /\ Registered
<1>1. Init => Inv
  <2> SUFFICES ASSUME Init PROVE Inv
    OBVIOUS
  <2>1. Shape /\ TaskLocals /\ RegistryMatches
    BY Initially DEF IInv, Shape
  <2> QED BY <2>1 DEF Init, Registered, GenerationsBound, CurrentTaskRegistered, Running
<1>2. Inv /\ [Next]_vars => Inv'
  BY ShapeStep, LocalsStep, RegistryStep, RegisteredStep
<1>3. Inv => CurrentTaskRegistered
  BY DEF Registered
<1> QED BY <1>1, <1>2, <1>3, PTL DEF Spec

-----------------------------------------------------------------------------
(* What is stored about a submission is one result. *)

\* What may still store a result of s: tasks in judge_submission, and the create
\* or the start-up that is about to schedule one.
Active == {"load", "run", "reread", "commit"}
Tokens == ({"task"} \X Tasks) \cup ({"create"} \X Creators) \cup {<<"todo", 0>>}
Works(s, x) ==
  \/ x[1] = "task" /\ tsub[x[2]] = s /\ pc[x[2]] \in Active
  \/ x[1] = "create" /\ hsub[x[2]] = s /\ hpc[x[2]] = "schedule"
  \/ x[1] = "todo" /\ s \in todo
Sources(s) == {x \in Tokens : Works(s, x)}

AtMost(S, n) ==
  \/ S = {}
  \/ n >= 1 /\ \E x \in S : S \subseteq {x}
  \/ n >= 2 /\ \E x, y \in S : S \subseteq {x, y}

\* A pending row allows for one source, a rejudge that is over for another.
Rejudging(h) == hpc[h] \in {"cancel", "waiting", "reset", "schedule"}
Over(s) == \E h \in Rejudgers : hsub[h] = s /\ ~Rejudging(h)
Credits(s) ==
  (IF sub[s].status = "pending" THEN 1 ELSE 0) + (IF Over(s) THEN 1 ELSE 0)

Accounted(s) ==
  /\ AtMost(Sources(s), Credits(s))
  /\ sub[s] = NoRow =>
       Sources(s) = {} /\ \A h \in Rejudgers : hsub[h] = s => ~Rejudging(h)

\* Nobody has loaded a row that another one replaces before it writes, unless
\* that row was pending: then every column it writes differs from what it has loaded.
Loaded(s, row) == 
  \/ row = PendingRow
  \/ row = sub[s] /\ sub[s].status # "pending"
Views(s) ==
  /\ \A t \in Tasks : tsub[t] = s /\ pc[t] = "commit" => Loaded(s, seen[t])
  /\ \A h \in Rejudgers :
       hsub[h] = s /\ hpc[h] \in {"cancel", "waiting", "reset"} => Loaded(s, hseen[h])

\* A row and the details beside it
Final(row, rs) ==
  /\ row.status \in {"success", "error"} /\ row.counts # NoCounts
  /\ rs # <<>> =>
       /\ row.score = FinishedRow(rs).score /\ row.total = FinishedRow(rs).total
       /\ row.counts = Counter(rs)
Marked(row) == row.status = "error" => row.counts["UNK"] > 0 \/ row.counts["CE"] > 0
Whole(s) ==
  \/ sub[s] \in {NoRow, PendingRow} /\ cases[s] = <<>>
  \/ Final(sub[s], cases[s]) /\ (life # "down" => Marked(sub[s]))

Undisturbed(s) == NoReset /\ RejudgedOnce(s)
Agreement == \A s \in Subs : Undisturbed(s) => Accounted(s) /\ Views(s) /\ Whole(s)

\* Nothing runs while the server is down, a request that has not arrived names
\* no submission, and a task in _finish has a result in hand.
Between ==
  /\ life = "down" => /\ todo = {} /\ \A t \in Tasks : pc[t] \in {"free", "reaped"}
                      /\ \A h \in Requests : hpc[h] \in Ended
  /\ \A h \in Requests : hpc[h] = "idle" => hsub[h] = NoSub
  /\ \A t \in Tasks : pc[t] \in {"reread", "commit"} => out[t] \in JudgeOutcomes

\* Sets of at most zero, one or two elements
LEMMA AtMostOne ==
  ASSUME NEW T, NEW a, T \subseteq {a}, NEW n \in 1 .. 2
  PROVE  AtMost(T, n)
<1>1. T = {} \/ (a \in T /\ T \subseteq {a})
  OBVIOUS
<1> QED BY <1>1 DEF AtMost

LEMMA AtMostTwo ==
  ASSUME NEW T, NEW a, NEW b, T \subseteq {a, b}
  PROVE  AtMost(T, 2)
<1>1. CASE a \in T /\ b \in T
  BY <1>1 DEF AtMost
<1>2. CASE a \notin T
  <2>1. T \subseteq {b} /\ 2 \in 1 .. 2
    BY <1>2
  <2> QED BY <2>1, AtMostOne
<1>3. CASE b \notin T
  <2>1. T \subseteq {a} /\ 2 \in 1 .. 2
    BY <1>3
  <2> QED BY <2>1, AtMostOne
<1> QED BY <1>1, <1>2, <1>3

LEMMA NoMore ==
  ASSUME NEW S, NEW n \in 0 .. 2, AtMost(S, n), NEW T, T \subseteq S, NEW m \in n .. 2
  PROVE  AtMost(T, m)
<1>1. CASE S = {}
  BY <1>1 DEF AtMost
<1>2. ASSUME n >= 1, NEW a \in S, S \subseteq {a} PROVE AtMost(T, m)
  <2>1. m \in 1 .. 2 /\ T \subseteq {a}
    BY <1>2
  <2> QED BY <2>1, AtMostOne
<1>3. ASSUME n >= 2, NEW a \in S, NEW b \in S, S \subseteq {a, b} PROVE AtMost(T, m)
  <2>1. m = 2 /\ T \subseteq {a, b}
    BY <1>3
  <2> QED BY <2>1, AtMostTwo
<1> QED BY <1>1, <1>2, <1>3 DEF AtMost

LEMMA OneLess ==
  ASSUME NEW S, NEW n \in 0 .. 2, AtMost(S, n), NEW x \in S, NEW T, T \subseteq S \ {x}
  PROVE  AtMost(T, n - 1)
<1>1. ASSUME n >= 1, NEW a \in S, S \subseteq {a} PROVE AtMost(T, n - 1)
  <2>1. T = {}
    BY <1>1
  <2> QED BY <2>1 DEF AtMost
<1>2. ASSUME n >= 2, NEW a \in S, NEW b \in S, S \subseteq {a, b} PROVE AtMost(T, n - 1)
  <2>1. n - 1 = 1 /\ 1 \in 1 .. 2
    BY <1>2
  <2>2. PICK c : T \subseteq {c}
    <3>1. CASE x = a
      <4>1. T \subseteq {b}
        BY <1>2, <3>1
      <4> QED BY <4>1
    <3>2. CASE x # a
      <4>1. T \subseteq {a}
        BY <1>2, <3>2
      <4> QED BY <4>1
    <3> QED BY <3>1, <3>2
  <2>3. AtMost(T, 1)
    BY <2>1, <2>2, AtMostOne
  <2> QED BY <2>1, <2>3
<1> QED BY <1>1, <1>2 DEF AtMost

LEMMA OneMore ==
  ASSUME NEW S, NEW n \in 0 .. 1, AtMost(S, n), NEW y, NEW T, T \subseteq S \cup {y}
  PROVE  AtMost(T, n + 1)
<1>1. CASE S = {}
  <2>1. n + 1 \in 1 .. 2 /\ T \subseteq {y}
    BY <1>1
  <2> QED BY <2>1, AtMostOne
<1>2. ASSUME n >= 1, NEW a \in S, S \subseteq {a} PROVE AtMost(T, n + 1)
  <2>1. n + 1 = 2 /\ T \subseteq {a, y}
    BY <1>2
  <2>2. AtMost(T, 2)
    BY <2>1, AtMostTwo
  <2> QED BY <2>1, <2>2
<1>3. ~(n >= 2)
  OBVIOUS
<1>4. S = {} \/ (n >= 1 /\ \E a \in S : S \subseteq {a})
  BY <1>3 DEF AtMost
<1> QED BY <1>1, <1>2, <1>4

LEMMA Exchanged ==
  ASSUME NEW S, NEW n \in 0 .. 2, AtMost(S, n), NEW x \in S, NEW y, NEW T,
         T \subseteq (S \ {x}) \cup {y}
  PROVE  AtMost(T, n)
<1>1. ASSUME n >= 1, NEW a \in S, S \subseteq {a} PROVE AtMost(T, n)
  <2>1. T \subseteq {y} /\ n \in 1 .. 2
    BY <1>1
  <2> QED BY <2>1, AtMostOne
<1>2. ASSUME n >= 2, NEW a \in S, NEW b \in S, S \subseteq {a, b} PROVE AtMost(T, n)
  <2>1. n = 2 /\ (T \subseteq {a, y} \/ T \subseteq {b, y})
    BY <1>2
  <2>2. AtMost(T, 2)
    BY <2>1, AtMostTwo
  <2> QED BY <2>1, <2>2
<1> QED BY <1>1, <1>2 DEF AtMost

LEMMA SourcesAre ==
  ASSUME NEW s \in Subs
  PROVE  /\ \A t \in Tasks : <<"task", t>> \in Sources(s) <=> tsub[t] = s /\ pc[t] \in Active
         /\ \A h \in Creators : <<"create", h>> \in Sources(s) <=> hsub[h] = s /\ hpc[h] = "schedule"
         /\ <<"todo", 0>> \in Sources(s) <=> s \in todo
  BY DEF Sources, Tokens, Works

LEMMA SourcesWithin ==
  ASSUME NEW s \in Subs, NEW T,
         \A t \in Tasks : tsub'[t] = s /\ pc'[t] \in Active => <<"task", t>> \in T,
         \A h \in Creators : hsub'[h] = s /\ hpc'[h] = "schedule" => <<"create", h>> \in T,
         s \in todo' => <<"todo", 0>> \in T
  PROVE  Sources(s)' \subseteq T
<1> SUFFICES ASSUME NEW x \in Tokens, Works(s, x)'
             PROVE  x \in T
  BY DEF Sources, Tokens
<1>1. CASE x \in {"task"} \X Tasks
  BY <1>1 DEF Works
<1>2. CASE x \in {"create"} \X Creators
  BY <1>2 DEF Works
<1>3. CASE x = <<"todo", 0>>
  BY <1>3 DEF Works
<1> QED BY <1>1, <1>2, <1>3 DEF Tokens

\* Every result of a judgement is a whole one.
LEMMA CountedOnce ==
  ASSUME NEW n \in Nat, NEW rs \in [1 .. n -> Verdicts], NEW i \in 1 .. n
  PROVE  Counter(rs)[rs[i]] > 0
<1>1. IsFiniteSet({j \in DOMAIN rs : rs[j] = rs[i]})
  BY FS_Interval, FS_Subset
<1>2. {j \in DOMAIN rs : rs[j] = rs[i]} # {}
  OBVIOUS
<1>3. Cardinality({j \in DOMAIN rs : rs[j] = rs[i]}) \in Nat \ {0}
  BY <1>1, <1>2, FS_EmptySet, FS_CardinalityType
<1> QED BY <1>3 DEF Counter

LEMMA OutcomesWhole ==
  ASSUME NEW o \in JudgeOutcomes
  PROVE  /\ Final(o.row, o.cases) /\ Marked(o.row)
         /\ o.cases # <<>> => o.row.score # Null /\ o.row.total # Null
<1>1. CASE o = InternalError
  BY <1>1 DEF InternalError, ErrorRow, NoCounts, Verdicts, Final, Marked
<1>2. ASSUME NEW n \in 1 .. MaxCases, o = [row |-> ErrorRow("CE", 10 * n), cases |-> <<>>]
      PROVE  Final(o.row, o.cases) /\ Marked(o.row) /\ o.cases = <<>>
  BY <1>2 DEF ErrorRow, NoCounts, Verdicts, Final, Marked
<1>3. ASSUME NEW rs \in CaseRuns, o = [row |-> FinishedRow(rs), cases |-> rs]
      PROVE  /\ Final(o.row, o.cases) /\ Marked(o.row)
             /\ o.row.score # Null /\ o.row.total # Null
  <2>1. PICK n \in 1 .. MaxCases : rs \in [1 .. n -> CaseVerdicts]
    BY DEF CaseRuns
  <2>2. n \in Nat /\ rs \in [1 .. n -> Verdicts] /\ 1 \in 1 .. n
    BY <2>1 DEF Verdicts
  <2>3. FinishedRow(rs) \in Rows /\ FinishedRow(rs).status \in {"success", "error"}
    BY <2>2, FinishedRowType
  <2>4. Counter(rs)[rs[1]] > 0 /\ rs[1] \in Verdicts
    BY <2>2, CountedOnce
  <2>5. FinishedRow(rs).counts = Counter(rs) /\ Counter(rs) # NoCounts
    BY <2>4 DEF FinishedRow, NoCounts
  <2>6. FinishedRow(rs).score \in Nat /\ FinishedRow(rs).total \in Nat
    <3>1. Counter(rs)["AC"] \in Nat
      BY <2>2, CounterType DEF Verdicts, NormalVerdicts
    <3>2. Len(rs) = n
      BY <2>2
    <3> QED BY <3>1, <3>2 DEF FinishedRow
  <2>7. FinishedRow(rs).status = "error" => Counter(rs)["UNK"] > 0
    <3>1. FinishedRow(rs).status = "error" => \E i \in 1 .. n : rs[i] = "UNK"
      BY <2>2 DEF FinishedRow
    <3> QED BY <2>2, <3>1, CountedOnce
  <2> QED BY <1>3, <2>3, <2>5, <2>6, <2>7 DEF Final, Marked
<1> QED BY <1>1, <1>2, <1>3 DEF JudgeOutcomes

\* Whatever the row has become meanwhile: who saw it pending replaces all of it,
\* or at least all that the details do not depend on.
LEMMA StoredWhole ==
  ASSUME NEW row \in Rows, NEW o \in JudgeOutcomes, NEW loaded \in {PendingRow, row},
         row.status \in {"pending", "success", "error"}
  PROVE  LET new == OrmUpdate(row, loaded, o.row)
         IN  Final(new, o.cases) /\ Marked(new)
<1>1. /\ Final(o.row, o.cases) /\ Marked(o.row) /\ o.row \in Rows
      /\ o.cases # <<>> => o.row.score # Null /\ o.row.total # Null
  BY OutcomesWhole, OutcomeTypes DEF Results
<1> DEFINE new == OrmUpdate(row, loaded, o.row)
<1>2. CASE loaded = row
  <2>1. new.status = o.row.status /\ new.score = o.row.score
        /\ new.total = o.row.total /\ new.counts = o.row.counts
    BY <1>2 DEF OrmUpdate, Flushed
  <2> QED BY <1>1, <2>1 DEF Final, Marked
<1>3. CASE loaded = PendingRow
  <2>1. PendingRow.status = "pending" /\ PendingRow.score = Null /\ PendingRow.total = Null
        /\ PendingRow.counts = NoCounts
    BY DEF PendingRow, NoRow
  <2>2. new.status = o.row.status /\ new.counts = o.row.counts
    BY <1>1, <1>3, <2>1 DEF OrmUpdate, Flushed, Final
  <2>3. o.cases # <<>> => new.score = o.row.score /\ new.total = o.row.total
    BY <1>1, <1>3, <2>1 DEF OrmUpdate, Flushed
  <2> QED BY <1>1, <2>2, <2>3 DEF Final, Marked
<1> QED BY <1>2, <1>3

LEMMA NormalizedWhole ==
  ASSUME NEW row \in Rows, NEW rs, Final(row, rs)
  PROVE  Final(Normalized(row), rs) /\ Marked(Normalized(row))
<1>1. CASE {v \in Verdicts : row.counts[v] > 0} \subseteq NormalVerdicts
  <2>1. Normalized(row) = [row EXCEPT !.status = "success"]
    BY <1>1 DEF Normalized, Final
  <2> QED BY <2>1 DEF Final, Marked, Rows
<1>2. CASE ~({v \in Verdicts : row.counts[v] > 0} \subseteq NormalVerdicts)
  <2>1. Normalized(row) = row
    BY <1>2 DEF Normalized
  <2>2. row.counts["UNK"] > 0 \/ row.counts["CE"] > 0
    BY <1>2 DEF Verdicts
  <2> QED BY <2>1, <2>2 DEF Final, Marked
<1> QED BY <1>1, <1>2

LEMMA Counted ==
  ASSUME NEW s \in Subs, Accounted(s)
  PROVE  /\ Credits(s) \in 0 .. 2
         /\ sub[s].status # "pending" /\ ~Over(s) => Sources(s) = {}
         /\ sub[s].status # "pending" => \A x, y \in Sources(s) : x = y
  BY DEF Accounted, Credits, AtMost

\* A step that leaves the row of s alone and brings nobody to work on it
LEMMA LeftAlone ==
  ASSUME NEW s \in Subs, Accounted(s), Views(s), Whole(s),
         sub'[s] = sub[s], cases'[s] = cases[s], life = "down" => life' = "down",
         Sources(s)' \subseteq Sources(s), Over(s) => Over(s)',
         \A t \in Tasks : tsub'[t] = s /\ pc'[t] = "commit" =>
           tsub[t] = s /\ pc[t] = "commit" /\ seen'[t] = seen[t],
         \A h \in Rejudgers : hsub'[h] = s /\ Rejudging(h)' =>
           /\ hsub[h] = s /\ Rejudging(h)
           /\ hpc'[h] # "schedule" => hpc[h] # "schedule" /\ hseen'[h] = hseen[h]
  PROVE  Accounted(s)' /\ Views(s)' /\ Whole(s)'
<1>1. Credits(s) \in 0 .. 2 /\ Credits(s)' \in Credits(s) .. 2
  BY DEF Credits
<1>2. AtMost(Sources(s), Credits(s))
  BY DEF Accounted
<1>3. AtMost(Sources(s)', Credits(s)')
  BY <1>1, <1>2, NoMore
<1>4. AtMost(Sources(s), Credits(s))'
  BY <1>3 DEF AtMost
<1>5. Accounted(s)'
  BY <1>4 DEF Accounted
<1>6. Views(s)'
  BY DEF Views, Loaded, Rejudging
<1>7. Whole(s)'
  BY DEF Whole
<1> QED BY <1>5, <1>6, <1>7

\* All that a step of task t can do to the tables
StepOf(t) ==
  /\ pc'[t] \in Active => pc[t] \in Active
  /\ pc'[t] \in {"reread", "commit"} => out'[t] \in JudgeOutcomes
  /\ \/ /\ UNCHANGED dbVars
        /\ pc'[t] = "commit" => seen'[t] = sub[tsub[t]] /\ sub[tsub[t]] # NoRow
     \/ StoreResult(t) /\ pc[t] = "commit" /\ pc'[t] \notin Active

LEMMA LeaveStops ==
  ASSUME Shape, NEW t \in Tasks, NEW where \in {"cleanup", "done"}, Leave(t, where)
  PROVE  pc'[t] = where
  BY DEF Leave, Shape, TypeOK, TasksOK

LEMMA FinishBegins ==
  ASSUME Shape, NEW t \in Tasks, NEW o \in JudgeOutcomes, NEW x \in BOOLEAN, EnterFinish(t, o, x)
  PROVE  pc'[t] \in {"reread", "cleanup"} /\ (pc'[t] = "reread" => out'[t] \in JudgeOutcomes)
<1>1. CASE ~Current(t)
  BY <1>1, LeaveStops DEF EnterFinish
<1>2. CASE Current(t)
  BY <1>2 DEF EnterFinish, Shape, TypeOK, TasksOK
<1> QED BY <1>1, <1>2

LEMMA RaiseBegins ==
  ASSUME Shape, NEW t \in Tasks, Raise(t)
  PROVE  pc'[t] \in {"reread", "cleanup"} /\ (pc'[t] = "reread" => out'[t] \in JudgeOutcomes)
<1>1. CASE trap[t]
  BY <1>1, LeaveStops DEF Raise
<1>2. CASE ~trap[t]
  <2>1. InternalError \in JudgeOutcomes
    BY DEF JudgeOutcomes
  <2> QED BY <1>2, <2>1, FinishBegins DEF Raise
<1> QED BY <1>1, <1>2

LEMMA TaskSteps ==
  ASSUME Shape, Between, NEW t \in Tasks, TaskStep(t) \/ TaskFault(t)
  PROVE  StepOf(t)
<1> USE DEF StepOf, Active, At, dbVars
<1>1. CASE TLoad(t)
  BY <1>1 DEF TLoad, Shape, TypeOK, TasksOK
<1>2. CASE TJudge(t)
  BY <1>2, FinishBegins DEF TJudge
<1>3. CASE TJudgeRaises(t)
  BY <1>3, RaiseBegins DEF TJudgeRaises
<1>4. CASE TReread(t)
  BY <1>4, LeaveStops DEF TReread, Between, Shape, TypeOK, TasksOK
<1>5. CASE TCommit(t)
  BY <1>5, LeaveStops, RaiseBegins DEF TCommit
<1>6. CASE TCleanup(t)
  BY <1>6 DEF TCleanup, Shape, TypeOK, TasksOK
<1>7. CASE Unwind(t)
  BY <1>7, LeaveStops DEF Unwind
<1>8. CASE Reap(t)
  BY <1>8 DEF Reap, Shape, TypeOK, TasksOK
<1>9. CASE TaskFault(t)
  BY <1>9, LeaveStops, RaiseBegins DEF TaskFault
<1> QED BY <1>1, <1>2, <1>3, <1>4, <1>5, <1>6, <1>7, <1>8, <1>9 DEF TaskStep

\* A task that stores its result was the only one to have loaded a settled row.
LEMMA StoreAgrees ==
  ASSUME Shape, Between, NEW s \in Subs, NEW t \in Tasks, Moves(t), Undisturbed(s),
         Accounted(s), Views(s), Whole(s),
         tsub[t] = s, pc[t] = "commit", pc'[t] \notin Active, StoreResult(t)
  PROVE  Accounted(s)' /\ Views(s)' /\ Whole(s)'
<1>1. <<"task", t>> \in Sources(s)
  BY SourcesAre DEF Active
<1>2. sub[s] # NoRow /\ sub[s] \in Rows /\ sub[s].status \in {"pending", "success", "error"}
  BY <1>1 DEF Accounted, Whole, Final, PendingRow, NoRow, Shape, TypeOK, TablesOK
<1>3. /\ sub'[s] = OrmUpdate(sub[s], seen[t], out[t].row) /\ cases'[s] = out[t].cases
      /\ out[t] \in JudgeOutcomes /\ seen[t] \in {PendingRow, sub[s]}
  BY DEF StoreResult, Shape, TypeOK, TablesOK, Between, Views, Loaded
<1>4. Final(sub'[s], cases'[s]) /\ Marked(sub'[s])
  BY <1>2, <1>3, StoredWhole
<1>5. Whole(s)'
  BY <1>4 DEF Whole
<1>6. sub'[s].status # "pending" /\ sub'[s] # NoRow
  BY <1>4 DEF Final, NoRow
<1>7. Sources(s)' \subseteq Sources(s) \ {<<"task", t>>}
  <2> DEFINE T == Sources(s) \ {<<"task", t>>}
  <2>1. ASSUME NEW u \in Tasks, tsub'[u] = s, pc'[u] \in Active PROVE <<"task", u>> \in T
    <3>1. u # t /\ tsub[u] = s /\ pc[u] \in Active
      BY <2>1 DEF Moves
    <3> QED BY <3>1, SourcesAre
  <2>2. ASSUME NEW h \in Creators, hsub'[h] = s, hpc'[h] = "schedule" PROVE <<"create", h>> \in T
    BY <2>2, SourcesAre DEF Moves, handlerVars
  <2>3. s \in todo' => <<"todo", 0>> \in T
    BY SourcesAre DEF Moves
  <2> HIDE DEF T
  <2>4. Sources(s)' \subseteq T
    BY <2>1, <2>2, <2>3, SourcesWithin
  <2> QED BY <2>4 DEF T
<1>8. Over(s)' <=> Over(s)
  BY DEF Moves, handlerVars, Over, Rejudging
<1>9. Accounted(s)'
  <2>1. Credits(s) \in 0 .. 2 /\ AtMost(Sources(s), Credits(s))
    BY Counted DEF Accounted
  <2>2. CASE sub[s].status = "pending"
    <3>1. Credits(s)' = Credits(s) - 1
      BY <1>6, <1>8, <2>2 DEF Credits
    <3>2. AtMost(Sources(s)', Credits(s) - 1)
      BY <1>1, <1>7, <2>1, OneLess
    <3> QED BY <1>6, <3>1, <3>2 DEF Accounted, AtMost
  <2>3. CASE sub[s].status # "pending"
    <3>1. Credits(s)' = Credits(s) /\ Credits(s) \in Credits(s) .. 2
      BY <1>6, <1>8, <2>1, <2>3 DEF Credits
    <3>2. AtMost(Sources(s)', Credits(s))
      BY <1>7, <2>1, <3>1, NoMore
    <3> QED BY <1>6, <3>1, <3>2 DEF Accounted, AtMost
  <2> QED BY <2>2, <2>3
<1>10. Views(s)'
  <2>1. ASSUME NEW u \in Tasks, tsub'[u] = s, pc'[u] = "commit"
        PROVE  seen'[u] = PendingRow
    <3>1. u # t /\ tsub[u] = s /\ pc[u] = "commit" /\ seen'[u] = seen[u]
      BY <2>1 DEF Moves, Active
    <3>2. <<"task", u>> \in Sources(s) /\ <<"task", u>> # <<"task", t>>
      BY <3>1, SourcesAre DEF Active
    <3>3. sub[s].status = "pending"
      BY <1>1, <3>2, Counted
    <3> QED BY <3>1, <3>3 DEF Views, Loaded
  <2>2. ASSUME NEW h \in Rejudgers, hsub'[h] = s, hpc'[h] \in {"cancel", "waiting", "reset"}
        PROVE  hseen'[h] = PendingRow
    <3>1. hsub[h] = s /\ hpc[h] = hpc'[h] /\ hseen'[h] = hseen[h]
      BY <2>2 DEF Moves, handlerVars
    <3>2. ~Over(s)
      BY <2>2, <3>1 DEF Undisturbed, RejudgedOnce, Over, Rejudging
    <3>3. sub[s].status = "pending"
      BY <1>1, <3>2, Counted
    <3> QED BY <2>2, <3>1, <3>3 DEF Views, Loaded
  <2> QED BY <2>1, <2>2 DEF Views, Loaded
<1> QED BY <1>5, <1>9, <1>10

LEMMA TaskAgrees ==
  ASSUME Shape, TaskLocals, Between, NEW s \in Subs, NEW t \in Tasks, TaskStep(t) \/ TaskFault(t),
         Undisturbed(s), Accounted(s), Views(s), Whole(s)
  PROVE  Accounted(s)' /\ Views(s)' /\ Whole(s)'
<1>1. Moves(t) /\ StepOf(t)
  BY TaskMoves, TaskSteps
<1>2. CASE StoreResult(t) /\ pc[t] = "commit" /\ pc'[t] \notin Active /\ tsub[t] = s
  BY <1>1, <1>2, StoreAgrees
<1>3. CASE \/ UNCHANGED dbVars /\ (pc'[t] = "commit" => seen'[t] = sub[tsub[t]] /\ sub[tsub[t]] # NoRow)
           \/ StoreResult(t) /\ pc'[t] \notin Active /\ tsub[t] # s
  <2>1. sub'[s] = sub[s] /\ cases'[s] = cases[s] /\ life' = life
    BY <1>1, <1>3 DEF Moves, StoreResult, dbVars, Shape, TypeOK, TablesOK
  <2>2. Sources(s)' \subseteq Sources(s)
    BY <1>1, SourcesAre, SourcesWithin DEF Moves, StepOf, handlerVars
  <2>3. Over(s)' <=> Over(s)
    BY <1>1 DEF Moves, handlerVars, Over, Rejudging
  <2>4. Credits(s) \in 0 .. 2 /\ Credits(s)' = Credits(s)
    BY <2>1, <2>3 DEF Credits
  <2>5. AtMost(Sources(s)', Credits(s))
    BY <2>2, <2>4, NoMore DEF Accounted
  <2>6. Accounted(s)'
    BY <1>1, <2>1, <2>2, <2>4, <2>5 DEF Accounted, AtMost, Moves, handlerVars, Rejudging
  <2>7. Whole(s)'
    BY <2>1 DEF Whole
  <2>8. Views(s)'
    <3>1. ASSUME NEW u \in Tasks, tsub'[u] = s, pc'[u] = "commit"
          PROVE  Loaded(s, seen[u])'
      <4>1. CASE u # t
        BY <1>1, <2>1, <3>1, <4>1 DEF Moves, Views, Loaded
      <4>2. CASE u = t
        <5>1. seen'[t] = sub[s] /\ sub[s] # NoRow
          BY <1>1, <1>3, <3>1, <4>2 DEF Moves, Active
        <5> QED BY <2>1, <4>2, <5>1 DEF Whole, Final, Loaded
      <4> QED BY <4>1, <4>2
    <3>2. ASSUME NEW h \in Rejudgers, hsub'[h] = s, hpc'[h] \in {"cancel", "waiting", "reset"}
          PROVE  Loaded(s, hseen[h])'
      BY <1>1, <2>1, <3>2 DEF Moves, handlerVars, Views, Loaded
    <3> QED BY <3>1, <3>2 DEF Views, Loaded
  <2> QED BY <2>6, <2>7, <2>8
<1> QED BY <1>1, <1>2, <1>3 DEF StepOf

\* A new task takes the place of a source x, or comes beside the others.
LEMMA ScheduledFor ==
  ASSUME Shape, NEW s \in Subs, NEW t \in Tasks, Schedule(s, t), NEW T, <<"task", t>> \in T,
         \A x \in Sources(s) : x[1] = "task" => x \in T,
         \A h \in Creators : hsub'[h] = s /\ hpc'[h] = "schedule" => <<"create", h>> \in T,
         s \in todo' => <<"todo", 0>> \in T
  PROVE  /\ Sources(s)' \subseteq T
         /\ \A u \in Tasks : tsub'[u] = s /\ pc'[u] = "commit" =>
              tsub[u] = s /\ pc[u] = "commit" /\ seen'[u] = seen[u]
<1>1. \A u \in Tasks : u # t => tsub'[u] = tsub[u] /\ pc'[u] = pc[u] /\ seen'[u] = seen[u]
  BY DEF Schedule, Shape, TypeOK, TasksOK
<1>2. pc'[t] = "load"
  BY DEF Schedule, Shape, TypeOK, TasksOK
<1>3. \A u \in Tasks : tsub'[u] = s /\ pc'[u] \in Active => <<"task", u>> \in T
  BY <1>1, SourcesAre
<1> QED BY <1>1, <1>2, <1>3, SourcesWithin

LEMMA ScheduledElsewhere ==
  ASSUME Shape, NEW s \in Subs, NEW r \in Subs \ {s}, NEW t \in Tasks, Schedule(r, t),
         \A h \in Creators : hsub'[h] = s /\ hpc'[h] = "schedule" => hsub[h] = s /\ hpc[h] = "schedule",
         s \in todo' => s \in todo
  PROVE  /\ Sources(s)' \subseteq Sources(s)
         /\ \A u \in Tasks : tsub'[u] = s /\ pc'[u] = "commit" =>
              tsub[u] = s /\ pc[u] = "commit" /\ seen'[u] = seen[u]
<1>1. \A u \in Tasks : u # t => tsub'[u] = tsub[u] /\ pc'[u] = pc[u] /\ seen'[u] = seen[u]
  BY DEF Schedule, Shape, TypeOK, TasksOK
<1>2. tsub'[t] = r
  BY DEF Schedule, Shape, TypeOK, TasksOK
<1> QED BY <1>1, <1>2, SourcesAre, SourcesWithin

\* A source x of s has become the task t; the row and the rejudges are as before.
LEMMA Replaced ==
  ASSUME Shape, NEW s \in Subs, Accounted(s), Views(s), Whole(s), NEW t \in Tasks, Schedule(s, t),
         NEW x \in Sources(s), x[1] # "task",
         \A h \in Creators : hsub'[h] = s /\ hpc'[h] = "schedule" => <<"create", h>> \in Sources(s) \ {x},
         s \in todo' => <<"todo", 0>> \in Sources(s) \ {x},
         UNCHANGED <<sub, cases, life, hseen>>,
         \A h \in Rejudgers : hsub'[h] = hsub[h] /\ hpc'[h] = hpc[h]
  PROVE  Accounted(s)' /\ Views(s)' /\ Whole(s)'
<1> DEFINE T == (Sources(s) \ {x}) \cup {<<"task", t>>}
<1>1. /\ Sources(s)' \subseteq T
      /\ \A u \in Tasks : tsub'[u] = s /\ pc'[u] = "commit" =>
           tsub[u] = s /\ pc[u] = "commit" /\ seen'[u] = seen[u]
  <2>1. <<"task", t>> \in T /\ \A y \in Sources(s) : y[1] = "task" => y \in T
    OBVIOUS
  <2>2. \A h \in Creators : hsub'[h] = s /\ hpc'[h] = "schedule" => <<"create", h>> \in T
    OBVIOUS
  <2>3. s \in todo' => <<"todo", 0>> \in T
    OBVIOUS
  <2> HIDE DEF T
  <2> QED BY <2>1, <2>2, <2>3, ScheduledFor
<1>2. Credits(s)' = Credits(s) /\ Credits(s) \in 0 .. 2
  BY DEF Credits, Over, Rejudging
<1>3. AtMost(Sources(s), Credits(s)) /\ sub[s] # NoRow
  BY DEF Accounted
<1>4. AtMost(Sources(s)', Credits(s))
  <2>1. Sources(s)' \subseteq (Sources(s) \ {x}) \cup {<<"task", t>>}
    BY <1>1
  <2>2. ASSUME NEW U, U = Sources(s)' PROVE AtMost(U, Credits(s))
    <3>1. U \subseteq (Sources(s) \ {x}) \cup {<<"task", t>>}
      BY <2>1, <2>2
    <3> HIDE DEF T
    <3> QED BY <1>2, <1>3, <3>1, Exchanged
  <2> QED BY <2>2
<1>5. Accounted(s)'
  BY <1>2, <1>3, <1>4 DEF Accounted, AtMost
<1>6. Views(s)'
  BY <1>1 DEF Views, Loaded
<1>7. Whole(s)'
  BY DEF Whole
<1> QED BY <1>5, <1>6, <1>7

LEMMA CreateAgrees ==
  ASSUME Shape, Between, NEW s \in Subs, Accounted(s), Views(s), Whole(s), NEW h \in Creators,
         CreateSchedule(h) \/ \E r \in Subs : CreateCommit(h, r)
  PROVE  Accounted(s)' /\ Views(s)' /\ Whole(s)'
<1>0. /\ h \notin Rejudgers
      /\ \A k \in Requests : k # h => hpc'[k] = hpc[k] /\ hsub'[k] = hsub[k]
      /\ UNCHANGED <<hseen, life, todo>>
  BY RequestsAssumption DEF CreateSchedule, CreateCommit, Answer, envVars, Shape, TypeOK, HandlersOK
<1>1. Over(s)' <=> Over(s)
  BY <1>0 DEF Over, Rejudging, Requests
<1>2. ASSUME NEW r \in Subs, CreateCommit(h, r)
      PROVE  Accounted(s)' /\ Views(s)' /\ Whole(s)'
  <2>1. hpc'[h] = "schedule" /\ hsub'[h] = r /\ UNCHANGED <<cases, taskVars>>
    BY <1>2 DEF CreateCommit, Shape, TypeOK, HandlersOK, Requests
  <2>2. CASE r = s
    <3>1. sub[s] = NoRow /\ sub'[s] = PendingRow /\ cases[s] = <<>>
      BY <1>2, <2>2 DEF CreateCommit, NextId, Whole, Final, NoRow, PendingRow, Shape, TypeOK, TablesOK
    <3>2. Sources(s) = {} /\ \A k \in Rejudgers : hsub[k] = s => ~Rejudging(k)
      BY <3>1 DEF Accounted
    <3>3. \A t \in Tasks : ~(tsub[t] = s /\ pc[t] \in Active)
      BY <3>2, SourcesAre
    <3>4. Sources(s)' \subseteq {<<"create", h>>}
      <4>1. \A k \in Creators : k # h => ~(hsub'[k] = s /\ hpc'[k] = "schedule")
        <5> SUFFICES ASSUME NEW k \in Creators, k # h, hsub'[k] = s, hpc'[k] = "schedule"
                     PROVE  FALSE
          OBVIOUS
        <5>1. hsub[k] = s /\ hpc[k] = "schedule"
          BY <1>0 DEF Requests
        <5> QED BY <5>1, <3>2, SourcesAre
      <4>2. s \notin todo'
        BY <1>0, <3>2, SourcesAre
      <4>3. \A t \in Tasks : ~(tsub'[t] = s /\ pc'[t] \in Active)
        BY <2>1, <3>3 DEF taskVars
      <4> DEFINE T == {<<"create", h>>}
      <4>4. \A k \in Creators : hsub'[k] = s /\ hpc'[k] = "schedule" => <<"create", k>> \in T
        BY <4>1
      <4> HIDE DEF T
      <4>5. Sources(s)' \subseteq T
        BY <4>2, <4>3, <4>4, SourcesWithin
      <4> QED BY <4>5 DEF T
    <3>5. Credits(s)' \in 1 .. 2 /\ sub'[s] # NoRow
      BY <3>1 DEF Credits, PendingRow, NoRow
    <3>6. AtMost(Sources(s)', Credits(s)')
      BY <3>4, <3>5, AtMostOne
    <3>7. Accounted(s)'
      BY <3>5, <3>6 DEF Accounted, AtMost
    <3>8. Views(s)'
      BY <1>0, <2>1, <3>2, <3>3 DEF Views, Active, taskVars, Rejudging, Requests
    <3>9. Whole(s)'
      BY <2>1, <3>1 DEF Whole
    <3> QED BY <3>7, <3>8, <3>9
  <2>3. CASE r # s
    <3>1. sub'[s] = sub[s]
      BY <1>2, <2>3 DEF CreateCommit, Shape, TypeOK, TablesOK
    <3>2. Sources(s)' \subseteq Sources(s)
      BY <1>0, <2>1, <2>3, SourcesAre, SourcesWithin DEF taskVars, Requests
    <3> QED BY <1>0, <1>1, <2>1, <3>1, <3>2, LeftAlone DEF taskVars, Rejudging, Requests
  <2> QED BY <2>2, <2>3
<1>3. CASE CreateSchedule(h)
  <2>1. hpc[h] = "schedule" /\ hpc'[h] # "schedule" /\ hsub' = hsub /\ hsub[h] \in Subs /\ UNCHANGED dbVars
    BY <1>3 DEF CreateSchedule, Answer, Shape, TypeOK, HandlersOK, Located, HandlersLocated, Requests
  <2>2. CASE sub[hsub[h]] = NoRow
    <3>1. UNCHANGED taskVars
      BY <1>3, <2>2 DEF CreateSchedule
    <3>2. Sources(s)' \subseteq Sources(s)
      BY <1>0, <2>1, <3>1, SourcesAre, SourcesWithin DEF taskVars, Requests
    <3> QED BY <1>0, <1>1, <2>1, <3>1, <3>2, LeftAlone DEF taskVars, dbVars, Rejudging, Requests
  <2>3. CASE sub[hsub[h]] # NoRow
    <3>1. PICK t \in Tasks : Schedule(hsub[h], t)
      BY <1>3, <2>3 DEF CreateSchedule
    <3>2. CASE hsub[h] # s
      <4>1. /\ Sources(s)' \subseteq Sources(s)
            /\ \A u \in Tasks : tsub'[u] = s /\ pc'[u] = "commit" =>
                 tsub[u] = s /\ pc[u] = "commit" /\ seen'[u] = seen[u]
        BY <1>0, <2>1, <3>1, <3>2, ScheduledElsewhere DEF Requests
      <4> QED BY <1>0, <1>1, <2>1, <4>1, LeftAlone DEF dbVars, Rejudging, Requests
    <3>3. CASE hsub[h] = s
      <4>1. <<"create", h>> \in Sources(s)
        BY <2>1, <3>3, SourcesAre
      <4>2. ASSUME NEW k \in Creators, hsub'[k] = s, hpc'[k] = "schedule"
            PROVE  <<"create", k>> \in Sources(s) \ {<<"create", h>>}
        <5>1. k # h /\ hsub[k] = s /\ hpc[k] = "schedule"
          BY <1>0, <2>1, <4>2 DEF Requests
        <5> QED BY <5>1, SourcesAre
      <4>3. s \in todo' => <<"todo", 0>> \in Sources(s) \ {<<"create", h>>}
        BY <1>0, SourcesAre
      <4>4. \A k \in Rejudgers : hsub'[k] = hsub[k] /\ hpc'[k] = hpc[k]
        BY <1>0 DEF Requests
      <4>5. Schedule(s, t) /\ UNCHANGED <<sub, cases, life, hseen>> /\ <<"create", h>>[1] # "task"
        BY <1>0, <2>1, <3>1, <3>3 DEF dbVars
      <4> HIDE <1>3
      <4> QED BY <4>1, <4>2, <4>3, <4>4, <4>5, Replaced
    <3> QED BY <3>2, <3>3
  <2> QED BY <2>2, <2>3
<1> QED BY <1>2, <1>3

\* The steps of a rejudge of another submission, and those that touch no row
LEMMA RejudgeElsewhere ==
  ASSUME Shape, Between, NEW s \in Subs, Accounted(s), Views(s), Whole(s), NEW h \in Rejudgers,
         \A k \in Requests : k # h => hpc'[k] = hpc[k] /\ hsub'[k] = hsub[k] /\ hseen'[k] = hseen[k],
         UNCHANGED <<life, todo>>, sub'[s] = sub[s], cases'[s] = cases[s],
         UNCHANGED <<pc, tsub, seen>> \/ \E r \in Subs \ {s}, t \in Tasks : Schedule(r, t),
         hsub[h] = s <=> hsub'[h] = s,
         \/ hsub[h] # s
         \/ ~Rejudging(h)'
         \/ /\ hpc[h] \in {"cancel", "waiting", "reset"} /\ hseen'[h] = hseen[h]
            /\ hpc'[h] \in {"cancel", "waiting", "reset"}
  PROVE  Accounted(s)' /\ Views(s)' /\ Whole(s)'
<1>1. h \notin Creators
  BY RequestsAssumption
<1>2. /\ Sources(s)' \subseteq Sources(s)
      /\ \A u \in Tasks : tsub'[u] = s /\ pc'[u] = "commit" =>
           tsub[u] = s /\ pc[u] = "commit" /\ seen'[u] = seen[u]
  <2>0. \A k \in Creators : hsub'[k] = hsub[k] /\ hpc'[k] = hpc[k]
    BY <1>1 DEF Requests
  <2>1. CASE UNCHANGED <<pc, tsub, seen>>
    BY <2>0, <2>1, SourcesAre, SourcesWithin
  <2>2. CASE \E r \in Subs \ {s}, t \in Tasks : Schedule(r, t)
    <3> PICK r \in Subs \ {s}, t \in Tasks : Schedule(r, t)
      BY <2>2
    <3> QED BY <2>0, ScheduledElsewhere
  <2> QED BY <2>1, <2>2
<1>3. ASSUME NEW k \in Rejudgers, hsub'[k] = s, Rejudging(k)'
      PROVE  /\ hsub[k] = s /\ Rejudging(k)
             /\ hpc'[k] # "schedule" => hpc[k] # "schedule" /\ hseen'[k] = hseen[k]
  <2>1. CASE k # h
    BY <1>3, <2>1 DEF Rejudging, Requests
  <2>2. CASE k = h
    BY <1>3, <2>2 DEF Rejudging
  <2> QED BY <2>1, <2>2
<1>4. Over(s) => Over(s)'
  <2> SUFFICES ASSUME NEW k \in Rejudgers, hsub[k] = s, ~Rejudging(k)
               PROVE  hsub'[k] = s /\ ~Rejudging(k)'
    BY DEF Over
  <2>1. CASE k # h
    BY <2>1 DEF Rejudging, Requests
  <2>2. CASE k = h
    BY <2>2 DEF Rejudging
  <2> QED BY <2>1, <2>2
<1> QED BY <1>2, <1>3, <1>4, LeftAlone

LEMMA RejudgeAgrees ==
  ASSUME Shape, Between, NEW s \in Subs, Accounted(s), Views(s), Whole(s), NEW h \in Rejudgers,
         Undisturbed(s), Undisturbed(s)',
         \/ RejudgeCancel(h) \/ RejudgeCancelReturns(h) \/ RejudgeCommit(h) \/ RejudgeSchedule(h)
         \/ HandlerFault(h) \/ \E r \in Subs : RejudgeLoad(h, r)
  PROVE  Accounted(s)' /\ Views(s)' /\ Whole(s)'
<1>0. h \in Requests /\ h \notin Creators /\ h \notin Resetters
  BY RequestsAssumption DEF Requests
<1> USE DEF Shape, TypeOK, HandlersOK, Answer, envVars
<1>1. CASE RejudgeCancel(h)
  <2>1. /\ \A k \in Requests : k # h => hpc'[k] = hpc[k]
        /\ hpc[h] = "cancel" /\ hpc'[h] \in {"waiting", "reset"}
        /\ UNCHANGED <<hsub, hseen, life, todo, sub, cases, pc, tsub, seen>>
    BY <1>0, <1>1 DEF RejudgeCancel, CancelJudge, StopAndWait, dbVars
  <2> QED BY <2>1, RejudgeElsewhere
<1>2. CASE RejudgeCancelReturns(h)
  <2>1. /\ \A k \in Requests : k # h => hpc'[k] = hpc[k]
        /\ hpc[h] = "waiting" /\ hpc'[h] = "reset"
        /\ UNCHANGED <<hsub, hseen, life, todo, sub, cases, pc, tsub, seen>>
    BY <1>0, <1>2 DEF RejudgeCancelReturns, WaitOver, dbVars, taskVars
  <2> QED BY <2>1, RejudgeElsewhere
<1>3. CASE HandlerFault(h)
  <2>1. /\ \A k \in Requests : k # h => hpc'[k] = hpc[k]
        /\ hpc'[h] \in {"failed", "broken"}
        /\ UNCHANGED <<hsub, hseen, life, todo, sub, cases, pc, tsub, seen>>
    BY <1>0, <1>3 DEF HandlerFault, dbVars, taskVars
  <2> QED BY <2>1, RejudgeElsewhere DEF Rejudging
<1>4. ASSUME NEW r \in Subs, RejudgeLoad(h, r)
      PROVE  Accounted(s)' /\ Views(s)' /\ Whole(s)'
  <2>1. /\ \A k \in Requests : k # h => hpc'[k] = hpc[k] /\ hsub'[k] = hsub[k] /\ hseen'[k] = hseen[k]
        /\ hpc[h] = "idle" /\ hsub[h] = NoSub /\ hsub'[h] = r /\ hseen'[h] = sub[r]
        /\ hpc'[h] = (IF sub[r] = NoRow THEN "failed" ELSE "cancel")
        /\ UNCHANGED <<life, todo, sub, cases, pc, tsub, seen>>
    BY <1>0, <1>4 DEF RejudgeLoad, dbVars, taskVars, Between
  <2>2. CASE r # s
    BY <2>1, <2>2, RejudgeElsewhere
  <2>3. CASE r = s
    <3>1. \A k \in Rejudgers : hsub'[k] = s => k = h
      BY <2>1, <2>3 DEF Undisturbed, RejudgedOnce
    <3>2. ~Over(s)
      BY <2>1, <3>1 DEF Over, Requests
    <3>3. Sources(s)' \subseteq Sources(s)
      BY <1>0, <2>1, SourcesAre, SourcesWithin DEF Requests
    <3>4. Credits(s)' \in Credits(s) .. 2 /\ Credits(s) \in 0 .. 2
      BY <2>1, <3>2 DEF Credits
    <3>5. AtMost(Sources(s)', Credits(s)')
      BY <3>3, <3>4, NoMore DEF Accounted
    <3>6. Accounted(s)'
      <4>1. sub'[s] = NoRow => Sources(s)' = {}
        BY <2>1, <3>3 DEF Accounted
      <4>2. sub'[s] = NoRow => \A k \in Rejudgers : hsub'[k] = s => ~Rejudging(k)'
        BY <2>1, <2>3, <3>1 DEF Rejudging
      <4> QED BY <3>5, <4>1, <4>2 DEF Accounted, AtMost
    <3>7. Views(s)'
      <4>1. \A t \in Tasks : tsub'[t] = s /\ pc'[t] = "commit" => Loaded(s, seen[t])'
        BY <2>1 DEF Views, Loaded
      <4>2. ASSUME NEW k \in Rejudgers, hsub'[k] = s, hpc'[k] \in {"cancel", "waiting", "reset"}
            PROVE  Loaded(s, hseen[k])'
        <5>1. k = h /\ sub[s] # NoRow /\ hseen'[k] = sub[s]
          BY <2>1, <2>3, <3>1, <4>2
        <5> QED BY <2>1, <5>1 DEF Whole, Final, Loaded
      <4> QED BY <4>1, <4>2 DEF Views
    <3>8. Whole(s)'
      BY <2>1 DEF Whole
    <3> QED BY <3>6, <3>7, <3>8
  <2> QED BY <2>2, <2>3
<1>5. CASE RejudgeCommit(h)
  <2>1. /\ \A k \in Requests : k # h => hpc'[k] = hpc[k] /\ hseen'[k] = hseen[k]
        /\ hpc[h] = "reset" /\ hpc'[h] \in {"failed", "schedule"} /\ hsub[h] \in Subs
        /\ UNCHANGED <<hsub, life, todo, pc, tsub, seen>>
    BY <1>0, <1>5 DEF RejudgeCommit, taskVars, Located, HandlersLocated
  <2>2. CASE hsub[h] # s
    <3>1. sub'[s] = sub[s] /\ cases'[s] = cases[s]
      BY <1>5, <2>1, <2>2 DEF RejudgeCommit, TablesOK, dbVars
    <3> QED BY <2>1, <2>2, <3>1, RejudgeElsewhere
  <2>3. CASE hsub[h] = s
    <3>1. sub[s] # NoRow /\ Loaded(s, hseen[h])
      BY <2>1, <2>3 DEF Accounted, Views, Rejudging
    <3>2. /\ sub'[s] = OrmUpdate(sub[s], hseen[h], PendingRow) /\ cases'[s] = <<>>
          /\ hpc'[h] = "schedule"
      <4>1. ~DetailsGone
        BY DEF Undisturbed, NoReset, DetailsGone
      <4> QED BY <1>0, <1>5, <2>3, <3>1, <4>1 DEF RejudgeCommit, UpdateMisses, TablesOK
    <3>3. \A k \in Rejudgers : hsub[k] = s => k = h
      BY <2>3 DEF Undisturbed, RejudgedOnce
    <3>4. ~Over(s) /\ ~Over(s)'
      BY <2>1, <3>2, <3>3 DEF Over, Rejudging
    <3>5. sub'[s] \in {sub[s], PendingRow}
      BY <3>1, <3>2 DEF Loaded, OrmUpdate, Flushed, PendingRow, NoRow, TablesOK, Rows
    <3>6. sub[s].status = "pending" => sub'[s].status = "pending"
      BY <3>5 DEF PendingRow, NoRow
    <3>7. Sources(s)' \subseteq Sources(s)
      <4>1. \A k \in Creators : hsub'[k] = hsub[k] /\ hpc'[k] = hpc[k]
        BY <1>0, <2>1 DEF Requests
      <4> QED BY <2>1, <4>1, SourcesAre, SourcesWithin
    <3>8. Credits(s)' \in Credits(s) .. 2 /\ Credits(s) \in 0 .. 2
      BY <3>4, <3>6 DEF Credits
    <3>9. AtMost(Sources(s)', Credits(s)')
      BY <3>7, <3>8, NoMore DEF Accounted
    <3>10. sub'[s] # NoRow
      BY <3>1, <3>5 DEF PendingRow, NoRow
    <3>11. Accounted(s)'
      BY <3>9, <3>10 DEF Accounted, AtMost
    <3>12. Views(s)'
      <4>1. ASSUME NEW t \in Tasks, tsub'[t] = s, pc'[t] = "commit" PROVE Loaded(s, seen[t])'
        <5>1. tsub[t] = s /\ pc[t] = "commit" /\ seen'[t] = seen[t]
          BY <2>1, <4>1
        <5>2. <<"task", t>> \in Sources(s)
          BY <5>1, SourcesAre DEF Active
        <5>3. sub[s].status = "pending"
          BY <3>4, <5>2, Counted
        <5> QED BY <5>1, <5>3 DEF Views, Loaded
      <4>2. \A k \in Rejudgers : hsub'[k] = s => hpc'[k] = "schedule"
        BY <2>1, <3>2, <3>3
      <4> QED BY <4>1, <4>2 DEF Views
    <3>13. Whole(s)'
      <4>1. CASE sub'[s] = PendingRow
        BY <3>2, <4>1 DEF Whole
      <4>2. CASE sub'[s] = sub[s] /\ sub[s] # PendingRow
        BY <2>1, <3>1, <3>2, <4>2 DEF Whole, Final
      <4> QED BY <3>5, <4>1, <4>2
    <3> QED BY <3>11, <3>12, <3>13
  <2> QED BY <2>2, <2>3
<1>6. CASE RejudgeSchedule(h)
  <2>1. /\ \A k \in Requests : k # h => hpc'[k] = hpc[k]
        /\ hpc[h] = "schedule" /\ hpc'[h] = "answered" /\ hsub[h] \in Subs
        /\ UNCHANGED <<hsub, hseen, life, todo, sub, cases>>
    BY <1>0, <1>6 DEF RejudgeSchedule, dbVars, Located, HandlersLocated
  <2>2. PICK t \in Tasks : Schedule(hsub[h], t)
    BY <1>6 DEF RejudgeSchedule
  <2>3. CASE hsub[h] # s
    BY <2>1, <2>2, <2>3, RejudgeElsewhere
  <2>4. CASE hsub[h] = s
    <3>1. sub[s] # NoRow /\ ~Over(s) /\ Over(s)'
      BY <2>1, <2>4 DEF Accounted, Rejudging, Over, Undisturbed, RejudgedOnce
    <3> DEFINE T == Sources(s) \cup {<<"task", t>>}
    <3>2. /\ Sources(s)' \subseteq T
          /\ \A u \in Tasks : tsub'[u] = s /\ pc'[u] = "commit" =>
               tsub[u] = s /\ pc[u] = "commit" /\ seen'[u] = seen[u]
      <4>1. \A k \in Creators : hsub'[k] = s /\ hpc'[k] = "schedule" => <<"create", k>> \in T
        BY <1>0, <2>1, SourcesAre DEF Requests
      <4>2. s \in todo' => <<"todo", 0>> \in T
        BY <2>1, SourcesAre
      <4>3. <<"task", t>> \in T /\ \A x \in Sources(s) : x[1] = "task" => x \in T
        OBVIOUS
      <4>4. Shape /\ Schedule(s, t)
        BY <2>2, <2>4
      <4> HIDE DEF T, Shape
      <4> QED BY <4>1, <4>2, <4>3, <4>4, ScheduledFor
    <3>3. Credits(s) \in 0 .. 1 /\ Credits(s)' = Credits(s) + 1
      BY <2>1, <3>1 DEF Credits
    <3>4. AtMost(Sources(s)', Credits(s) + 1)
      BY <3>2, <3>3, OneMore DEF Accounted
    <3>5. Accounted(s)'
      BY <2>1, <3>1, <3>3, <3>4 DEF Accounted, AtMost
    <3>6. Views(s)'
      <4>1. \A k \in Rejudgers : hsub'[k] = s => hpc'[k] = "answered"
        BY <2>1, <2>4 DEF Undisturbed, RejudgedOnce
      <4> QED BY <2>1, <3>2, <4>1 DEF Views, Loaded
    <3>7. Whole(s)'
      BY <2>1 DEF Whole
    <3> QED BY <3>5, <3>6, <3>7
  <2> QED BY <2>3, <2>4
<1> QED BY <1>1, <1>2, <1>3, <1>4, <1>5, <1>6

LEMMA ServerAgrees ==
  ASSUME Shape, Between, NEW s \in Subs, Accounted(s), Views(s), Whole(s),
         Crash \/ Start \/ StartStep
  PROVE  Accounted(s)' /\ Views(s)' /\ Whole(s)'
<1>1. CASE Crash
  <2>1. /\ \A t \in Tasks : pc'[t] \in {"free", "reaped"}
        /\ \A h \in Requests : hpc'[h] \in Ended /\ hsub'[h] = hsub[h]
        /\ UNCHANGED <<sub, cases>> /\ life' = "down" /\ todo' = {}
    BY <1>1 DEF Crash, dbVars, Shape, TypeOK, TasksOK, Ended
  <2>2. Sources(s)' \subseteq Sources(s)
    BY <2>1, SourcesWithin DEF Active, Ended, Requests
  <2>3. \A h \in Rejudgers : ~Rejudging(h)'
    BY <2>1 DEF Rejudging, Ended, Requests
  <2>4. Over(s) => Over(s)'
    BY <2>1, <2>3 DEF Over, Requests
  <2> QED BY <2>1, <2>2, <2>3, <2>4, LeftAlone
<1>2. CASE Start
  <2>1. /\ \A t \in Tasks : pc'[t] \in {"free", "reaped"} /\ pc[t] \in {"free", "reaped"}
        /\ \A h \in Requests : hpc'[h] \in Ended /\ hpc'[h] = hpc[h] /\ hsub'[h] = hsub[h]
        /\ sub'[s] = Normalized(sub[s]) /\ cases' = cases
        /\ s \in todo' => sub[s].status = "pending"
    BY <1>2 DEF Start, Between, taskVars, handlerVars
  <2>2. /\ sub[s].status = "pending" <=> sub'[s].status = "pending"
        /\ sub[s] = NoRow <=> sub'[s] = NoRow
    BY <2>1, NormalizedType DEF Normalized, NoRow, Shape, TypeOK, TablesOK, Rows
  <2>3. Sources(s)' \subseteq {<<"todo", 0>>} /\ (sub'[s].status # "pending" => Sources(s)' = {})
    <3> DEFINE T == {x \in {<<"todo", 0>>} : sub'[s].status = "pending"}
    <3>1. \A t \in Tasks : pc'[t] \notin Active
      BY <2>1 DEF Active
    <3>2. \A h \in Creators : hpc'[h] # "schedule"
      BY <2>1 DEF Ended, Requests
    <3>3. s \in todo' => <<"todo", 0>> \in T
      BY <2>1, <2>2
    <3> HIDE DEF T
    <3>4. Sources(s)' \subseteq T
      BY <3>1, <3>2, <3>3, SourcesWithin
    <3> QED BY <3>4 DEF T
  <2>4. Accounted(s)'
    <3>1. CASE sub'[s].status = "pending"
      <4>1. Credits(s)' \in 1 .. 2
        BY <3>1 DEF Credits
      <4>2. AtMost(Sources(s)', Credits(s)')
        BY <2>3, <4>1, AtMostOne
      <4> QED BY <3>1, <4>2 DEF Accounted, AtMost, NoRow
    <3>2. CASE sub'[s].status # "pending"
      <4>1. \A h \in Rejudgers : ~Rejudging(h)'
        BY <2>1 DEF Rejudging, Ended, Requests
      <4> QED BY <2>3, <3>2, <4>1 DEF Accounted, AtMost
    <3> QED BY <3>1, <3>2
  <2>5. Views(s)'
    BY <2>1 DEF Views, Ended, Requests
  <2>6. Whole(s)'
    <3>1. CASE sub[s] \in {NoRow, PendingRow} /\ cases[s] = <<>>
      <4>1. Normalized(NoRow) = NoRow /\ Normalized(PendingRow) = PendingRow
        BY DEF Normalized, NoRow, PendingRow
      <4> QED BY <2>1, <3>1, <4>1 DEF Whole
    <3>2. CASE Final(sub[s], cases[s])
      <4>1. Final(Normalized(sub[s]), cases[s]) /\ Marked(Normalized(sub[s]))
        BY <3>2, NormalizedWhole DEF Shape, TypeOK, TablesOK
      <4> QED BY <2>1, <4>1 DEF Whole
    <3> QED BY <3>1, <3>2 DEF Whole
  <2> QED BY <2>4, <2>5, <2>6
<1>3. ASSUME NEW r \in Subs, Requeue(r)
      PROVE  Accounted(s)' /\ Views(s)' /\ Whole(s)'
  <2>1. UNCHANGED <<sub, cases, hpc, hsub, hseen, life>> /\ r \in todo /\ todo' = todo \ {r}
    BY <1>3 DEF Requeue, dbVars, handlerVars
  <2>2. PICK t \in Tasks : Schedule(r, t)
    BY <1>3 DEF Requeue
  <2>3. CASE r # s
    <3>1. /\ Sources(s)' \subseteq Sources(s)
          /\ \A u \in Tasks : tsub'[u] = s /\ pc'[u] = "commit" =>
               tsub[u] = s /\ pc[u] = "commit" /\ seen'[u] = seen[u]
      BY <2>1, <2>2, <2>3, ScheduledElsewhere
    <3> QED BY <2>1, <3>1, LeftAlone DEF Over, Rejudging
  <2>4. CASE r = s
    <3>1. <<"todo", 0>> \in Sources(s) /\ <<"todo", 0>>[1] # "task" /\ s \notin todo'
      BY <2>1, <2>4, SourcesAre
    <3>2. ASSUME NEW h \in Creators, hsub'[h] = s, hpc'[h] = "schedule"
          PROVE  <<"create", h>> \in Sources(s) \ {<<"todo", 0>>}
      <4>1. <<"create", h>> \in Sources(s)
        BY <2>1, <3>2, SourcesAre
      <4> QED BY <4>1
    <3> QED BY <2>1, <2>2, <2>4, <3>1, <3>2, Replaced
  <2> QED BY <2>3, <2>4
<1>4. CASE Serve
  <2>1. UNCHANGED <<sub, cases, pc, tsub, seen, hpc, hsub, hseen, todo>> /\ life # "down"
    BY <1>4 DEF Serve, dbVars, taskVars, handlerVars
  <2>2. Sources(s)' \subseteq Sources(s)
    BY <2>1, SourcesAre, SourcesWithin
  <2> QED BY <2>1, <2>2, LeftAlone DEF Over, Rejudging
<1> QED BY <1>1, <1>2, <1>3, <1>4 DEF StartStep

\* Once disturbed, always disturbed.
LEMMA UndisturbedBefore ==
  ASSUME Shape, TaskLocals, Between, [Next]_vars, NEW s \in Subs, Undisturbed(s)'
  PROVE  Undisturbed(s)
<1>1. NoReset
  BY IdleStays DEF Undisturbed, NoReset, Requests
<1>2. \A h \in Rejudgers : hsub[h] = s => hsub'[h] = s
  <2> SUFFICES ASSUME NEW h \in Rejudgers, hsub[h] = s PROVE hsub'[h] = s
    OBVIOUS
  <2>0. h \in Requests /\ h \notin Creators /\ hpc[h] # "idle"
    BY RequestsAssumption DEF Requests, Between
  <2> USE DEF Shape, TypeOK, HandlersOK
  <2>1. CASE \E t \in Tasks : TaskStep(t) \/ TaskFault(t)
    BY <2>1, TaskMoves DEF Moves, handlerVars
  <2>2. ASSUME NEW g \in Requests, Arrive(g) \/ HandlerStep(g) \/ HandlerFault(g)
        PROVE  hsub'[h] = s
    <3>1. CASE Arrive(g)
      <4>1. UNCHANGED hsub \/ (\E r \in Subs : hsub' = [hsub EXCEPT ![g] = r] /\ hpc[g] = "idle")
        BY <3>1 DEF Arrive, CreateCommit, RejudgeLoad, ResetBegin
      <4> QED BY <2>0, <4>1
    <3>2. CASE HandlerStep(g) \/ HandlerFault(g)
      BY <3>2 DEF HandlerStep, HandlerFault, CreateSchedule, RejudgeCancel, RejudgeCancelReturns,
                  RejudgeCommit, RejudgeSchedule, ResetCancelReturns, ResetDropDetails, ResetDrop
    <3> QED BY <2>2, <3>1, <3>2
  <2>3. CASE Crash \/ Start \/ StartStep \/ Quiescent \/ UNCHANGED vars
    BY <2>3 DEF Crash, Start, StartStep, Requeue, Serve, Quiescent, vars, handlerVars
  <2> QED BY <2>1, <2>2, <2>3 DEF Next
<1> QED BY <1>1, <1>2 DEF Undisturbed, RejudgedOnce

LEMMA AgreementStep ==
  Shape /\ TaskLocals /\ Between /\ Agreement /\ [Next]_vars => Agreement'
<1> SUFFICES ASSUME Shape, TaskLocals, Between, Agreement, [Next]_vars,
                    NEW s \in Subs, Undisturbed(s)'
             PROVE  Accounted(s)' /\ Views(s)' /\ Whole(s)'
  BY DEF Agreement
<1>0. Undisturbed(s) /\ Accounted(s) /\ Views(s) /\ Whole(s)
  BY UndisturbedBefore DEF Agreement
<1>1. ASSUME NEW t \in Tasks, TaskStep(t) \/ TaskFault(t)
      PROVE  Accounted(s)' /\ Views(s)' /\ Whole(s)'
  BY <1>0, <1>1, TaskAgrees
<1>2. ASSUME NEW h \in Requests, Arrive(h) \/ HandlerStep(h) \/ HandlerFault(h)
      PROVE  Accounted(s)' /\ Views(s)' /\ Whole(s)'
  <2>1. CASE h \in Creators /\ (Arrive(h) \/ HandlerStep(h))
    BY <1>0, <1>2, <2>1, CreateAgrees, RequestsAssumption DEF Arrive, HandlerStep
  <2>2. CASE h \in Creators /\ HandlerFault(h)
    <3>1. /\ \A k \in Requests : k # h => hpc'[k] = hpc[k]
          /\ hpc'[h] \in {"failed", "broken"} /\ h \notin Rejudgers
          /\ UNCHANGED <<hsub, hseen, life, todo, sub, cases, pc, tsub, seen>>
      BY <2>2, RequestsAssumption
         DEF HandlerFault, Answer, dbVars, taskVars, Shape, TypeOK, HandlersOK
    <3>2. Sources(s)' \subseteq Sources(s)
      BY <3>1, SourcesAre, SourcesWithin DEF Requests
    <3> QED BY <1>0, <3>1, <3>2, LeftAlone DEF Over, Rejudging, Requests
  <2>3. CASE h \in Rejudgers
    BY <1>0, <1>2, <2>3, RejudgeAgrees, RequestsAssumption DEF Arrive, HandlerStep
  <2>4. CASE h \in Resetters
    <3>1. hpc[h] = "idle" /\ hpc'[h] = "idle"
      BY <1>0, <2>4 DEF Undisturbed, NoReset
    <3>2. ASSUME NEW rest \in SUBSET Subs, Shutdown(h, rest) PROVE FALSE
      BY <2>4, <3>1, <3>2, ShutdownDoes
    <3> QED BY <1>2, <2>4, <3>1, <3>2, RequestsAssumption
            DEF Arrive, HandlerStep, HandlerFault, ResetBegin, ResetCancelReturns, WaitOver, ResetDropDetails, ResetDrop
  <2> QED BY <1>2, <2>1, <2>2, <2>3, <2>4 DEF Requests
<1>3. CASE Crash \/ Start \/ StartStep
  BY <1>0, <1>3, ServerAgrees
<1>4. CASE Quiescent \/ UNCHANGED vars
  <2>1. UNCHANGED <<sub, cases, pc, tsub, seen, hpc, hsub, hseen, todo, life>>
    BY <1>4 DEF Quiescent, vars, dbVars, taskVars, handlerVars, envVars
  <2>2. Sources(s)' \subseteq Sources(s)
    BY <2>1, SourcesAre, SourcesWithin
  <2> QED BY <1>0, <2>1, <2>2, LeftAlone DEF Over, Rejudging
<1> QED BY <1>1, <1>2, <1>3, <1>4 DEF Next

LEMMA BetweenStep == Shape /\ TaskLocals /\ Between /\ [Next]_vars => Between'
<1> SUFFICES ASSUME Shape, TaskLocals, Between, [Next]_vars PROVE Between'
  OBVIOUS
<1> USE DEF Between, Shape, TypeOK
<1>1. ASSUME NEW t \in Tasks, TaskStep(t) \/ TaskFault(t) PROVE Between'
  BY <1>1, TaskMoves, TaskSteps DEF Moves, StepOf, handlerVars
<1>2. ASSUME NEW h \in Requests, Arrive(h) \/ HandlerStep(h) \/ HandlerFault(h) PROVE Between'
  <2>1. life = "up" /\ life' = "up"
    BY <1>2 DEF Arrive, HandlerStep, HandlerFault, CreateCommit, CreateSchedule, RejudgeLoad,
       RejudgeCancel, RejudgeCancelReturns, RejudgeCommit, RejudgeSchedule, WaitOver,
       ResetBegin, ResetCancelReturns, ResetDropDetails, ResetDrop, envVars
  <2>2. ASSUME NEW k \in Requests, hpc'[k] = "idle" PROVE hsub'[k] = NoSub
    <3>1. hpc[k] = "idle" /\ hsub[k] = NoSub
      BY <2>2, IdleStays
    <3>2. CASE k # h
      BY <1>2, <3>1, <3>2
         DEF HandlersOK, Arrive, HandlerStep, HandlerFault, CreateCommit, CreateSchedule, RejudgeLoad,
             RejudgeCancel, RejudgeCancelReturns, RejudgeCommit, RejudgeSchedule,
             ResetBegin, ResetCancelReturns, ResetDropDetails, ResetDrop
    <3>3. CASE k = h
      BY <1>2, <2>2, <3>1, <3>3
         DEF HandlersOK, Answer, Arrive, HandlerStep, HandlerFault, CreateCommit, CreateSchedule,
             RejudgeLoad, RejudgeCancel, RejudgeCancelReturns, RejudgeCommit, RejudgeSchedule, WaitOver,
             ResetBegin, ResetCancelReturns, ResetDropDetails, ResetDrop
    <3> QED BY <3>2, <3>3
  <2>3. ASSUME NEW t \in Tasks, pc'[t] \in {"reread", "commit"} PROVE out'[t] \in JudgeOutcomes
    <3>1. pc'[t] = pc[t] /\ out'[t] = out[t]
      <4>1. ASSUME NEW r \in Subs, NEW u \in Tasks, Schedule(r, u) PROVE pc'[t] = pc[t] /\ out'[t] = out[t]
        BY <2>3, <4>1 DEF Schedule, TasksOK
      <4>2. ASSUME NEW r \in Subs, NEW k \in Requests, CancelJudge(k, r, "reset")
            PROVE  UNCHANGED <<pc, out>>
        BY <4>2 DEF CancelJudge
      <4>3. ASSUME NEW k \in Resetters, NEW rest \in SUBSET Subs, Shutdown(k, rest)
            PROVE  UNCHANGED <<pc, out>>
        BY <4>3 DEF Shutdown
      <4> QED BY <1>2, <4>1, <4>2, <4>3, OtherMoves DEF taskVars
    <3> QED BY <2>3, <3>1
  <2> QED BY <2>1, <2>2, <2>3
<1>3. CASE Crash
  <2>1. \A h \in Requests : hpc'[h] = "idle" => hpc[h] = "idle"
    BY <1>3 DEF Crash, Ended
  <2> QED BY <1>3, <2>1 DEF Crash, Ended
<1>4. CASE Start
  BY <1>4 DEF Start, taskVars, handlerVars
<1>5. CASE StartStep
  <2>1. ASSUME NEW r \in Subs, Requeue(r) PROVE Between'
    <3>1. PICK t \in Tasks : Schedule(r, t)
      BY <2>1 DEF Requeue
    <3>2. \A u \in Tasks : pc'[u] \in {"reread", "commit"} => pc[u] = pc'[u] /\ out'[u] = out[u]
      BY <3>1 DEF Schedule, TasksOK
    <3> QED BY <2>1, <3>2 DEF Requeue, handlerVars
  <2> QED BY <1>5, <2>1 DEF StartStep, Serve, taskVars, handlerVars
<1>6. CASE Quiescent \/ UNCHANGED vars
  BY <1>6 DEF Quiescent, vars, taskVars, handlerVars, envVars
<1> QED BY <1>1, <1>2, <1>3, <1>4, <1>5, <1>6 DEF Next

LEMMA AgreementInit == Init => Between /\ Agreement
<1> SUFFICES ASSUME Init PROVE Between /\ Agreement
  OBVIOUS
<1>0. Shape
  BY ShapeInit
<1>1. Between
  BY DEF Init, Between, Ended
<1>2. ASSUME NEW s \in Subs PROVE Accounted(s) /\ Views(s) /\ Whole(s)
  <2>1. (\A h \in Requests : hpc[h] = "idle") /\ (\A t \in Tasks : pc[t] = "free") /\ todo = {}
    BY DEF Init
  <2>2. Sources(s) = {}
    BY <2>1 DEF Init, Sources, Tokens, Works, Active, Requests
  <2>3. Accounted(s) /\ Views(s)
    BY <2>1, <2>2 DEF Accounted, AtMost, Views, Rejudging, Requests
  <2>4. Whole(s)
    <3>1. PICK n \in 0 .. MaxSubs : \E runs \in [1 .. n -> {<<>>} \cup LegacyRuns] :
            /\ sub = [r \in Subs |-> IF r > n THEN NoRow
                                     ELSE IF runs[r] = <<>> THEN PendingRow
                                     ELSE LegacyRow(runs[r])]
            /\ cases = [r \in Subs |-> IF r > n THEN <<>> ELSE runs[r]]
      BY DEF Init
    <3>2. PICK runs \in [1 .. n -> {<<>>} \cup LegacyRuns] :
            /\ sub = [r \in Subs |-> IF r > n THEN NoRow
                                     ELSE IF runs[r] = <<>> THEN PendingRow
                                     ELSE LegacyRow(runs[r])]
            /\ cases = [r \in Subs |-> IF r > n THEN <<>> ELSE runs[r]]
      BY <3>1
    <3>3. CASE s > n \/ runs[s] = <<>>
      BY <3>2, <3>3 DEF Whole
    <3>4. CASE ~(s > n) /\ runs[s] # <<>>
      <4>1. runs[s] \in Seq(Verdicts) /\ runs[s] \in LegacyRuns
        BY <3>4 DEF Verdicts
      <4>2. PICK m \in Nat : runs[s] \in [1 .. m -> Verdicts] /\ 1 \in 1 .. m
        BY <3>4, <4>1
      <4>3. Counter(runs[s])[runs[s][1]] > 0 /\ runs[s][1] \in Verdicts
        BY <4>2, CountedOnce
      <4>4. /\ FinishedRow(runs[s]).counts = Counter(runs[s]) /\ Counter(runs[s]) # NoCounts
            /\ LegacyRow(runs[s]) = [FinishedRow(runs[s]) EXCEPT !.status = "error"]
        BY <4>3 DEF FinishedRow, NoCounts, LegacyRow
      <4>5. sub[s] = LegacyRow(runs[s]) /\ cases[s] = runs[s] /\ life = "down"
        BY <3>2, <3>4 DEF Init
      <4>6. /\ LegacyRow(runs[s]).status = "error" /\ LegacyRow(runs[s]).counts = Counter(runs[s])
            /\ LegacyRow(runs[s]).score = FinishedRow(runs[s]).score
            /\ LegacyRow(runs[s]).total = FinishedRow(runs[s]).total
        BY <4>4 DEF LegacyRow, FinishedRow
      <4> QED BY <4>4, <4>5, <4>6 DEF Whole, Final
    <3> QED BY <3>3, <3>4
  <2> QED BY <2>3, <2>4
<1> QED BY <1>1, <1>2 DEF Agreement

\* A settled row without details was not run, or a rejudge has just deleted them.
Explained(s) ==
  cases[s] = <<>> /\ sub[s].status \in Settled => NotRun(sub[s]) \/ s \in emptied
Explanations == \A s \in Subs : Undisturbed(s) => Explained(s)

\* A judgement that has no details to store gives no points.
LEMMA StoredUnrun ==
  ASSUME NEW row \in Rows, NEW o \in JudgeOutcomes, NEW loaded \in {PendingRow, row},
         o.cases = <<>>
  PROVE  NotRun(OrmUpdate(row, loaded, o.row))
<1>1. PICK v \in {"UNK", "CE"} : o.row = ErrorRow(v, o.row.total)
  <2>1. CASE o = InternalError
    BY <2>1 DEF InternalError, ErrorRow
  <2>2. ASSUME NEW n \in 1 .. MaxCases, o = [row |-> ErrorRow("CE", 10 * n), cases |-> <<>>]
        PROVE  o.row = ErrorRow("CE", o.row.total)
    BY <2>2 DEF ErrorRow
  <2>3. ASSUME NEW rs \in CaseRuns, o = [row |-> FinishedRow(rs), cases |-> rs] PROVE FALSE
    <3>1. PICK n \in 1 .. MaxCases : rs \in [1 .. n -> CaseVerdicts]
      BY DEF CaseRuns
    <3> QED BY <2>3, <3>1
  <2> QED BY <2>1, <2>2, <2>3 DEF JudgeOutcomes
<1>2. /\ o.row.status = "error" /\ o.row.score = 0
      /\ o.row.counts = [NoCounts EXCEPT ![v] = 1] /\ o.row.counts # NoCounts
  <2>1. o.row.status = "error" /\ o.row.score = 0 /\ o.row.counts = [NoCounts EXCEPT ![v] = 1]
    <3> DEFINE total == o.row.total
    <3>1. o.row = ErrorRow(v, total)
      BY <1>1
    <3> HIDE DEF total
    <3> QED BY <3>1 DEF ErrorRow
  <2>2. o.row.counts[v] = 1 /\ NoCounts[v] = 0
    BY <2>1 DEF NoCounts, Verdicts
  <2> QED BY <2>1, <2>2
<1> DEFINE new == OrmUpdate(row, loaded, o.row)
<1>3. new.status = "error" /\ new.score = 0 /\ new.counts = [NoCounts EXCEPT ![v] = 1]
  <2>1. CASE loaded = row
    BY <1>2, <2>1 DEF OrmUpdate, Flushed
  <2>2. CASE loaded = PendingRow
    <3>1. PendingRow.status = "pending" /\ PendingRow.score = Null /\ PendingRow.counts = NoCounts
      BY DEF PendingRow, NoRow
    <3> QED BY <1>2, <2>2, <3>1 DEF OrmUpdate, Flushed
  <2> QED BY <2>1, <2>2
<1>4. new = ErrorRow(v, new.total)
  BY <1>3 DEF OrmUpdate, ErrorRow
<1> QED BY <1>4 DEF NotRun

LEMMA NormalizedUnrun ==
  ASSUME NEW row, NotRun(row)
  PROVE  Normalized(row) = row
<1>1. PICK v \in {"UNK", "CE"} : row = ErrorRow(v, row.total)
  BY DEF NotRun
<1>2. row.counts[v] > 0 /\ v \in Verdicts \ NormalVerdicts
  BY <1>1 DEF ErrorRow, NoCounts, Verdicts, NormalVerdicts
<1> QED BY <1>2 DEF Normalized

\* What the tables hold is explained by the step that put it there.
LEMMA ExplainedStep ==
  Shape /\ TaskLocals /\ Between /\ Agreement /\ Explanations /\ [Next]_vars => Explanations'
<1> SUFFICES ASSUME Shape, TaskLocals, Between, Agreement, Explanations, [Next]_vars,
                    NEW s \in Subs, Undisturbed(s)'
             PROVE  Explained(s)'
  BY DEF Explanations
<1>0. Undisturbed(s) /\ Explained(s) /\ Accounted(s) /\ Views(s) /\ Whole(s)
  BY UndisturbedBefore DEF Agreement, Explanations
<1>1. CASE sub'[s] = sub[s] /\ cases'[s] = cases[s] /\ (s \in emptied => s \in emptied')
  BY <1>0, <1>1 DEF Explained
<1>2. ASSUME NEW t \in Tasks, TaskStep(t) \/ TaskFault(t) PROVE Explained(s)'
  <2>1. StepOf(t)
    BY <1>2, TaskSteps
  <2>2. CASE UNCHANGED dbVars
    BY <1>1, <2>2 DEF dbVars
  <2>3. CASE StoreResult(t) /\ tsub[t] # s
    BY <1>1, <2>3 DEF StoreResult, Shape, TypeOK, TablesOK
  <2>4. CASE StoreResult(t) /\ tsub[t] = s /\ pc[t] = "commit"
    <3>1. /\ sub'[s] = OrmUpdate(sub[s], seen[t], out[t].row) /\ cases'[s] = out[t].cases
          /\ out[t] \in JudgeOutcomes /\ seen[t] \in {PendingRow, sub[s]} /\ sub[s] \in Rows
      BY <1>0, <2>4 DEF StoreResult, Shape, TypeOK, TablesOK, Between, Views, Loaded
    <3>2. cases'[s] = <<>> => NotRun(sub'[s])
      BY <3>1, StoredUnrun
    <3> QED BY <3>2 DEF Explained, NotRun
  <2> QED BY <2>1, <2>2, <2>3, <2>4 DEF StepOf
<1>3. ASSUME NEW h \in Requests, Arrive(h) \/ HandlerStep(h) \/ HandlerFault(h)
      PROVE  Explained(s)'
  <2>1. CASE UNCHANGED dbVars
    BY <1>1, <2>1 DEF dbVars
  <2>2. ASSUME NEW r \in Subs, CreateCommit(h, r) PROVE Explained(s)'
    <3>1. CASE r = s
      <4>1. sub'[s] = PendingRow
        BY <2>2, <3>1 DEF CreateCommit, Shape, TypeOK, TablesOK
      <4> QED BY <4>1 DEF Explained, PendingRow, NoRow, Settled
    <3>2. CASE r # s
      BY <1>1, <2>2, <3>2 DEF CreateCommit, Shape, TypeOK, TablesOK
    <3> QED BY <3>1, <3>2
  <2>3. CASE RejudgeCommit(h)
    <3>1. CASE UNCHANGED dbVars
      BY <2>1, <3>1
    <3>2. CASE ~UNCHANGED dbVars
      <4>1. /\ sub' = [sub EXCEPT ![hsub[h]] = OrmUpdate(@, hseen[h], PendingRow)]
            /\ cases' = [cases EXCEPT ![hsub[h]] = <<>>]
            /\ emptied' = IF sub'[hsub[h]].status \in Settled THEN emptied \cup {hsub[h]} ELSE emptied
        BY <2>3, <3>2 DEF RejudgeCommit
      <4>2. CASE hsub[h] = s
        BY <4>1, <4>2 DEF Explained
      <4>3. CASE hsub[h] # s
        BY <1>1, <4>1, <4>3 DEF Shape, TypeOK, TablesOK
      <4> QED BY <4>2, <4>3
    <3> QED BY <3>1, <3>2
  <2>4. h \in Resetters /\ (ResetDropDetails(h) \/ ResetDrop(h)) => FALSE
    BY <1>0 DEF Undisturbed, NoReset, ResetDropDetails, ResetDrop
  <2> QED BY <1>3, <2>1, <2>2, <2>3, <2>4
          DEF Arrive, HandlerStep, HandlerFault, CreateSchedule, RejudgeLoad, RejudgeCancel,
              RejudgeCancelReturns, RejudgeSchedule, ResetBegin, ResetCancelReturns
<1>4. CASE Start
  <2>1. sub'[s] = Normalized(sub[s]) /\ UNCHANGED <<cases, emptied>>
    BY <1>4 DEF Start
  <2>2. sub'[s].status \in Settled => sub[s].status \in Settled
    <3>1. Normalized(sub[s]) = sub[s] \/ sub[s].status \notin {"absent", "pending"}
      BY DEF Normalized
    <3>2. sub[s].status \in {"absent", "pending", "success", "error"}
      BY DEF Shape, TypeOK, TablesOK, Rows
    <3> QED BY <2>1, <3>1, <3>2 DEF Settled
  <2>3. NotRun(sub[s]) => sub'[s] = sub[s]
    BY <2>1, NormalizedUnrun
  <2> QED BY <1>0, <2>1, <2>2, <2>3 DEF Explained
<1>5. CASE Crash \/ StartStep \/ Quiescent \/ UNCHANGED vars
  <2>1. UNCHANGED dbVars
    BY <1>5 DEF Crash, StartStep, Requeue, Serve, Quiescent, vars
  <2> QED BY <1>1, <2>1 DEF dbVars
<1> QED BY <1>2, <1>3, <1>4, <1>5 DEF Next

LEMMA ExplainedInit == Init => Explanations
<1> SUFFICES ASSUME Init, NEW s \in Subs, cases[s] = <<>> PROVE sub[s] \in {NoRow, PendingRow}
  BY DEF Explanations, Explained, NoRow, PendingRow, Settled
<1> QED BY DEF Init

\* Details, score, counts and status of a submission belong to one judgement, for
\* any number of test cases, tasks, faults and crashes, and however the create, the
\* tasks and a rejudge of it interleave; a settled row without details was not run,
\* but for the one whose details a rejudge has deleted without resetting the row.
THEOREM ResultsAreWhole == Spec => []ResultsAgree
<1> DEFINE Inv == Shape /\ TaskLocals /\ RegistryMatches /\ Between /\ Agreement /\ Explanations
<1>1. Init => Inv
  BY Initially, AgreementInit, ExplainedInit DEF IInv, Shape
<1>2. Inv /\ [Next]_vars => Inv'
  BY ShapeStep, LocalsStep, RegistryStep, BetweenStep, AgreementStep, ExplainedStep
<1>3. Inv => ResultsAgree
  <2> SUFFICES ASSUME Inv, NEW s \in Subs, Undisturbed(s)
               PROVE  /\ cases[s] # <<>> =>
                           /\ sub[s].score = FinishedRow(cases[s]).score
                           /\ sub[s].total = FinishedRow(cases[s]).total
                           /\ sub[s].counts = Counter(cases[s])
                      /\ Explained(s)
                      /\ life # "down" /\ sub[s].status = "error" =>
                           sub[s].counts["UNK"] > 0 \/ sub[s].counts["CE"] > 0
    BY DEF ResultsAgree, Undisturbed, Explained
  <2>1. Explained(s) /\ Whole(s)
    BY DEF Agreement, Explanations
  <2> QED BY <2>1 DEF Whole, Final, Marked, NoRow, PendingRow
<1> QED BY <1>1, <1>2, <1>3, PTL DEF Spec

=============================================================================
