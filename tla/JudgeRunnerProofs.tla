-------------------------- MODULE JudgeRunnerProofs --------------------------
(***************************************************************************)
(* What holds of JudgeRunner for any number of runs and cancellations: one *)
(* cancellation is safe, and no verdict is read off a killed process.      *)
(* Then the comparer of the same file (Rules), for texts of any length: an *)
(* output is accepted exactly when it prints what was expected.            *)
(***************************************************************************)
EXTENDS JudgeRunner, Rules, WellFoundedInduction, TLAPS

\* Which job the coroutine may have under way at each await, and what it has
\* left behind: rmtree is handed out only when the worker has ended.
Stages ==
  /\ at \in {"mkdtemp", "write"} => job["exec"] = "none"
  /\ at \in {"exec", "drain"} => job["exec"] \in {"queued", "running", "done"}
  /\ at \in {"rmtree", "ended"} => job["exec"] \in {"none", "done"}
  /\ at \in {"mkdtemp", "write", "exec", "drain"} => job["rmtree"] = "none"
  /\ job["rmtree"] = "none" => ~emptied
  /\ group # {} => job["exec"] = "running" /\ phase # "files"
  /\ at = "drain" => cancels >= 1

\* A run is under way only if one is left.
RunLeft == at \in {"mkdtemp", "write", "exec"} => runs < MaxRuns

Inv == TypeOK /\ RunLeft /\ (cancels <= 1 => Stages)

LEMMA Initially == Init => Inv
<1> SUFFICES ASSUME Init PROVE Inv
  OBVIOUS
<1>1. FlagsOK
  BY DEF Init, FlagsOK, Contents
<1>2. job \in [Jobs -> JobStates]
  BY DEF Init, Jobs, JobStates
<1>3. TypeOK
  BY <1>1, <1>2, BoundsAssumption DEF Init, TypeOK, Jobs
<1>4. Stages /\ RunLeft
  BY BoundsAssumption DEF Init, Stages, RunLeft, Jobs
<1> QED BY <1>3, <1>4 DEF Inv

LEMMA FlagsStep == Inv /\ [Next]_vars => FlagsOK'
<1> SUFFICES ASSUME Inv, [Next]_vars PROVE FlagsOK'
  OBVIOUS
<1> USE DEF Inv, TypeOK, FlagsOK, Contents, workVars, dirVars
<1>1. CASE MkdtempReturns
  BY <1>1 DEF MkdtempReturns
<1>2. CASE WriteReturns
  BY <1>2 DEF WriteReturns, StartRun
<1>3. CASE ExecReturns
  BY <1>3 DEF ExecReturns, StartRun
<1>4. CASE DrainReturns
  BY <1>4 DEF DrainReturns
<1>5. CASE RmtreeReturns
  BY <1>5 DEF RmtreeReturns
<1>6. CASE Cancel
  BY <1>6 DEF Cancel
<1>7. CASE \E j \in Jobs : PickUp(j)
  BY <1>7 DEF PickUp
<1>8. CASE MakeDir
  BY <1>8 DEF MakeDir, End
<1>9. CASE WriteSource
  BY <1>9 DEF WriteSource, End
<1>10. CASE EmptyDir
  BY <1>10 DEF EmptyDir
<1>11. CASE RemoveDir
  BY <1>11 DEF RemoveDir, End
<1>12. CASE NoProcess
  BY <1>12 DEF NoProcess, End
<1>13. CASE Popen
  BY <1>13 DEF Popen
<1>14. CASE SeeExit
  BY <1>14 DEF SeeExit
<1>15. CASE Break
  BY <1>15 DEF Break
<1>16. CASE KillGroup
  BY <1>16 DEF KillGroup, End
<1>17. CASE Program
  BY <1>17 DEF Program, Processes, Files
<1>18. CASE UNCHANGED vars
  BY <1>18 DEF vars
<1> QED BY <1>1, <1>2, <1>3, <1>4, <1>5, <1>6, <1>7, <1>8, <1>9,
           <1>10, <1>11, <1>12, <1>13, <1>14, <1>15, <1>16, <1>17, <1>18
        DEF Next, Coroutine, Threads, Worker

LEMMA TypeStep == Inv /\ [Next]_vars => TypeOK'
<1> SUFFICES ASSUME Inv, [Next]_vars PROVE TypeOK'
  OBVIOUS
<1>0. FlagsOK'
  BY FlagsStep
<1> USE BoundsAssumption DEF Inv, TypeOK, Jobs, JobStates, workVars, dirVars
<1>1. CASE MkdtempReturns
  BY <1>0, <1>1 DEF MkdtempReturns, Await
<1>2. CASE WriteReturns
  BY <1>0, <1>2 DEF WriteReturns, StartRun, Await
<1>3. CASE ExecReturns
  <2>1. verdict' \in {"none", "UNK", "MLE", "TLE", "RE", "AC", "WA"}
    BY <1>3 DEF ExecReturns, Verdicts
  <2>2. runs' \in 0 .. MaxRuns
    BY <1>3 DEF ExecReturns, RunLeft
  <2> QED BY <1>0, <1>3, <2>1, <2>2 DEF ExecReturns, StartRun, Await
<1>4. CASE DrainReturns
  BY <1>0, <1>4 DEF DrainReturns, Await
<1>5. CASE RmtreeReturns
  BY <1>0, <1>5 DEF RmtreeReturns
<1>6. CASE Cancel
  <2>1. job' \in [Jobs -> JobStates]
    BY <1>6 DEF Cancel, Withdrawn, Await
  <2>2. cancels' \in 0 .. MaxCancels
    BY <1>6 DEF Cancel
  <2> QED BY <1>0, <1>6, <2>1, <2>2 DEF Cancel, Await
<1>7. CASE \E j \in Jobs : PickUp(j)
  BY <1>0, <1>7 DEF PickUp
<1>8. CASE MakeDir
  BY <1>0, <1>8 DEF MakeDir, End
<1>9. CASE WriteSource
  BY <1>0, <1>9 DEF WriteSource, End
<1>10. CASE EmptyDir
  BY <1>0, <1>10 DEF EmptyDir
<1>11. CASE RemoveDir
  BY <1>0, <1>11 DEF RemoveDir, End
<1>12. CASE NoProcess
  BY <1>0, <1>12 DEF NoProcess, End
<1>13. CASE Popen
  BY <1>0, <1>13 DEF Popen
<1>14. CASE SeeExit
  BY <1>0, <1>14 DEF SeeExit
<1>15. CASE Break
  BY <1>0, <1>15 DEF Break
<1>16. CASE KillGroup
  BY <1>0, <1>16 DEF KillGroup, End
<1>17. CASE Program
  BY <1>0, <1>17 DEF Program, Processes, Files
<1>18. CASE UNCHANGED vars
  BY <1>0, <1>18 DEF vars
<1> QED BY <1>0, <1>1, <1>2, <1>3, <1>4, <1>5, <1>6, <1>7, <1>8, <1>9,
           <1>10, <1>11, <1>12, <1>13, <1>14, <1>15, <1>16, <1>17, <1>18
        DEF Next, Coroutine, Threads, Worker

LEMMA RunLeftStep == Inv /\ [Next]_vars => RunLeft'
<1> SUFFICES ASSUME Inv, [Next]_vars, at' \in {"mkdtemp", "write", "exec"}
             PROVE  runs' < MaxRuns
  BY DEF RunLeft
<1> USE BoundsAssumption DEF Inv, TypeOK, RunLeft
<1>1. CASE Coroutine
  BY <1>1 DEF Coroutine, MkdtempReturns, WriteReturns, ExecReturns, DrainReturns,
              RmtreeReturns, StartRun, Await
<1>2. CASE Cancel
  BY <1>2 DEF Cancel, Await
<1>3. CASE Threads \/ Worker \/ Program \/ UNCHANGED vars
  BY <1>3 DEF Threads, Worker, Program, Processes, Files, PickUp, MakeDir, WriteSource, EmptyDir, RemoveDir,
              NoProcess, Popen, SeeExit, Break, KillGroup, vars
<1> QED BY <1>1, <1>2, <1>3 DEF Next

LEMMA StagesStep == Inv /\ cancels' <= 1 /\ [Next]_vars => Stages'
<1> SUFFICES ASSUME Inv, cancels' <= 1, [Next]_vars PROVE Stages'
  OBVIOUS
<1> USE BoundsAssumption DEF Inv, TypeOK, Stages, Jobs, workVars, dirVars
<1>1. CASE MkdtempReturns
  BY <1>1 DEF MkdtempReturns, Await
<1>2. CASE WriteReturns
  BY <1>2 DEF WriteReturns, StartRun, Await
<1>3. CASE ExecReturns
  BY <1>3 DEF ExecReturns, StartRun, Await
<1>4. CASE DrainReturns
  BY <1>4 DEF DrainReturns, Await
<1>5. CASE RmtreeReturns
  BY <1>5 DEF RmtreeReturns
<1>6. CASE Cancel
  BY <1>6 DEF Cancel, Withdrawn, Await
<1>7. CASE \E j \in Jobs : PickUp(j)
  BY <1>7 DEF PickUp
<1>8. CASE MakeDir
  BY <1>8 DEF MakeDir, End
<1>9. CASE WriteSource
  BY <1>9 DEF WriteSource, End
<1>10. CASE EmptyDir
  BY <1>10 DEF EmptyDir
<1>11. CASE RemoveDir
  BY <1>11 DEF RemoveDir, End
<1>12. CASE NoProcess
  BY <1>12 DEF NoProcess, End
<1>13. CASE Popen
  BY <1>13 DEF Popen
<1>14. CASE SeeExit
  BY <1>14 DEF SeeExit
<1>15. CASE Break
  BY <1>15 DEF Break
<1>16. CASE KillGroup
  BY <1>16 DEF KillGroup, End
<1>17. CASE Program
  BY <1>17 DEF Program, Processes, Files
<1>18. CASE UNCHANGED vars
  BY <1>18 DEF vars
<1> QED BY <1>1, <1>2, <1>3, <1>4, <1>5, <1>6, <1>7, <1>8, <1>9,
           <1>10, <1>11, <1>12, <1>13, <1>14, <1>15, <1>16, <1>17, <1>18
        DEF Next, Coroutine, Threads, Worker

LEMMA Inductive == Inv /\ [Next]_vars => Inv'
  BY TypeStep, RunLeftStep, StagesStep DEF Inv

\* With at most one cancellation, no matter how many runs and what the program
\* does, rmtree waits for the worker, and no process of a run's group is left when
\* it starts.
THEOREM OneCancelIsSafe == Spec => [](WorkdirOutlivesWorker /\ NoGroupLeft)
<1>1. Inv => WorkdirOutlivesWorker /\ NoGroupLeft
  BY DEF Inv, TypeOK, Stages, WorkdirOutlivesWorker, NoGroupLeft, Jobs
<1> QED BY Initially, Inductive, <1>1, PTL DEF Spec

-----------------------------------------------------------------------------
(* The directory *)

\* The coroutine of a task that is never cancelled leaves no job behind, so
\* after rmtree has emptied the directory nobody but a process that left its
\* group writes into it.  A failed mkdtemp leaves nothing.
SweptUp ==
  cancels = 0 =>
    /\ at # "mkdtemp" => job["mkdtemp"] = "done"
    /\ at \in {"exec", "drain", "rmtree"} => job["write"] = "done"
    /\ at = "ended" /\ dir => job["rmtree"] = "done"
    /\ emptied => content # "files" \/ escaped
    /\ job["rmtree"] = "done" => ~dir \/ content = "locked" \/ escaped
    /\ job["write"] \in {"queued", "running"} => at = "write"
    /\ job["rmtree"] # "none" => at \in {"rmtree", "ended"} /\ job["write"] = "done"

LEMMA SweptUpStep == Inv /\ SweptUp /\ [Next]_vars => SweptUp'
<1> SUFFICES ASSUME Inv, SweptUp, [Next]_vars, cancels' = 0
             PROVE  /\ at' # "mkdtemp" => job'["mkdtemp"] = "done"
                    /\ at' \in {"exec", "drain", "rmtree"} => job'["write"] = "done"
                    /\ at' = "ended" /\ dir' => job'["rmtree"] = "done"
                    /\ emptied' => content' # "files" \/ escaped'
                    /\ job'["rmtree"] = "done" => ~dir' \/ content' = "locked" \/ escaped'
                    /\ job'["write"] \in {"queued", "running"} => at' = "write"
                    /\ job'["rmtree"] # "none" => at' \in {"rmtree", "ended"} /\ job'["write"] = "done"
  BY DEF SweptUp
<1> USE DEF Inv, TypeOK, FlagsOK, Contents, Stages, SweptUp, Jobs, workVars, dirVars
<1>1. CASE Coroutine
  BY <1>1 DEF Coroutine, MkdtempReturns, WriteReturns, ExecReturns, DrainReturns, RmtreeReturns, StartRun, Await
<1>2. CASE Cancel
  BY <1>2 DEF Cancel
<1>3. CASE Threads
  <2>1. CASE \E j \in Jobs : PickUp(j)
    BY <1>3, <2>1 DEF PickUp
  <2>2. CASE MakeDir \/ WriteSource
    BY <1>3, <2>2 DEF MakeDir, WriteSource, End
  <2>3. CASE EmptyDir \/ RemoveDir
    BY <1>3, <2>3 DEF EmptyDir, RemoveDir, End
  <2> QED BY <1>3, <2>1, <2>2, <2>3 DEF Threads
<1>4. CASE Worker
  BY <1>4 DEF Worker, NoProcess, Popen, SeeExit, Break, KillGroup, End
<1>5. CASE Program
  <2>1. CASE Processes /\ UNCHANGED <<dir, content>>
    BY <1>5, <2>1 DEF Program, Processes
  <2>2. CASE Files /\ UNCHANGED <<group, rc, escaped>>
    <3>1. escaped \/ ~emptied
      BY <1>5, <2>2 DEF Program, Files
    <3>2. escaped \/ job["rmtree"] = "none"
      BY <1>5, <2>2 DEF Program, Files
    <3> QED BY <1>5, <2>2, <3>1, <3>2 DEF Program, Files
  <2> QED BY <1>5, <2>1, <2>2 DEF Program
<1>6. CASE UNCHANGED vars
  BY <1>6 DEF vars
<1> QED BY <1>1, <1>2, <1>3, <1>4, <1>5, <1>6 DEF Next

\* Whatever the programs of any number of runs do last, a task that nobody
\* cancelled ends with its directory gone, unless rmtree cannot delete what is in
\* it or a process outside its group is still about.
THEOREM DirectoryGone == Spec => []WorkdirRemoved
<1>1. Init => SweptUp
  BY DEF Init, SweptUp, Jobs
<1>2. SweptUp => WorkdirRemoved
  BY DEF SweptUp, WorkdirRemoved, AllEnded
<1> QED BY Initially, Inductive, SweptUpStep, <1>1, <1>2, PTL DEF Spec

-----------------------------------------------------------------------------
(* Verdicts *)

\* While the coroutine awaits a run nobody has set its event, so the worker
\* kills a process that has not exited only for its memory or its time.
Blame ==
  at = "exec" =>
    /\ ~event
    /\ phase = "killing" /\ rc = "none" => memory \/ timeout
    /\ rc = "killed" => memory \/ timeout

LEMMA BlameStep == TypeOK /\ Blame /\ [Next]_vars => Blame'
<1> SUFFICES ASSUME TypeOK, Blame, [Next]_vars, at' = "exec"
             PROVE  /\ ~event'
                    /\ phase' = "killing" /\ rc' = "none" => memory' \/ timeout'
                    /\ rc' = "killed" => memory' \/ timeout'
  BY DEF Blame
<1> USE DEF Blame, TypeOK, FlagsOK, workVars
<1>1. CASE Coroutine
  BY <1>1 DEF Coroutine, MkdtempReturns, WriteReturns, ExecReturns, DrainReturns,
              RmtreeReturns, StartRun, Await
<1>2. CASE Cancel
  BY <1>2 DEF Cancel, Await
<1>3. CASE Threads
  BY <1>3 DEF Threads, PickUp, MakeDir, WriteSource, EmptyDir, RemoveDir
<1>4. CASE Worker
  BY <1>4 DEF Worker, NoProcess, Popen, SeeExit, Break, KillGroup
<1>5. CASE Program
  BY <1>5 DEF Program, Processes, Files
<1>6. CASE UNCHANGED vars
  BY <1>6 DEF vars
<1> QED BY <1>1, <1>2, <1>3, <1>4, <1>5, <1>6 DEF Next

\* Whatever the program does and whenever the task is cancelled, a submission is
\* found wrong, right or crashing only by a process that exited by itself.
THEOREM VerdictsAreEarned == Spec => VerdictsEarned
<1>1. Init => Blame
  BY DEF Init, Blame
<1>2. TypeOK /\ Blame =>
        (ExecReturns =>
          (verdict' \in {"AC", "WA", "RE"} => rc \in {"zero", "nonzero"} /\ ~memory /\ ~timeout))
  BY DEF TypeOK, FlagsOK, Blame, ExecReturns, Verdicts
<1>3. Inv => TypeOK
  BY DEF Inv
<1> QED BY Initially, Inductive, BlameStep, <1>1, <1>2, <1>3, PTL DEF Spec, VerdictsEarned
-----------------------------------------------------------------------------
(* Induction over the length of a text, from the least element of a set of   *)
(* naturals                                                                  *)

LEMMA LeastNatural ==
  ASSUME NEW T \in SUBSET Nat, T # {}
  PROVE  \E n \in T : \A m \in T : n <= m
<1> DEFINE R == OpToRel(<, Nat)
<1>1. IsWellFoundedOn(R, Nat)
  BY NatLessThanWellFounded
<1>2. \A y, x \in Nat : <<y, x>> \in R <=> y < x
  BY DEF OpToRel
<1> HIDE DEF R
<1>3. PICK n \in T : \A m \in T : ~ (<<m, n>> \in R)
  BY <1>1, WFMin
<1>4. \A m \in T : n <= m
  <2>1. \A m \in T : m \in Nat /\ n \in Nat /\ ~(m < n)
    BY <1>2, <1>3
  <2> QED BY <2>1
<1> QED BY <1>4

\* A set of numbers up to N that has 0, and n if it has n - 1, has them all.
LEMMA UpTo ==
  ASSUME NEW N \in Nat, NEW P, 0 \in P, \A n \in 1 .. N : n - 1 \in P => n \in P
  PROVE  0 .. N \subseteq P
<1> DEFINE T == {n \in 0 .. N : n \notin P}
<1>1. CASE T = {}
  BY <1>1
<1>2. CASE T # {}
  <2>1. T \in SUBSET Nat
    OBVIOUS
  <2>2. PICK n \in T : \A m \in T : n <= m
    <3> HIDE DEF T
    <3> QED BY <1>2, <2>1, LeastNatural
  <2>3. n \in 1 .. N
    BY <2>2
  <2>4. n - 1 \in P
    BY <2>2, <2>3
  <2> QED BY <2>2, <2>3, <2>4
<1> QED BY <1>1, <1>2

\* The same downwards, for what is computed from the end of a text
LEMMA DownTo ==
  ASSUME NEW N \in Nat, NEW P, N + 1 \in P, \A n \in 1 .. N : n + 1 \in P => n \in P
  PROVE  1 .. N + 1 \subseteq P
<1> DEFINE Q == {k \in 0 .. N : N + 1 - k \in P}
<1>1. 0 \in Q
  OBVIOUS
<1>2. ASSUME NEW k \in 1 .. N, k - 1 \in Q
      PROVE  k \in Q
  <2>1. N + 1 - k \in 1 .. N /\ N + 1 - (k - 1) = (N + 1 - k) + 1
    OBVIOUS
  <2>2. (N + 1 - k) + 1 \in P
    BY <1>2, <2>1
  <2> QED BY <2>1, <2>2
<1> HIDE DEF Q
<1>3. 0 .. N \subseteq Q
  BY <1>1, <1>2, UpTo
<1>4. ASSUME NEW n \in 1 .. N + 1
      PROVE  n \in P
  <2>1. N + 1 - n \in Q /\ N + 1 - (N + 1 - n) = n
    BY <1>3
  <2> QED BY <2>1 DEF Q
<1> QED BY <1>4

\* Each step of the computation g takes what F makes of the one after it.
Computes(g, N, a, F) == g[N + 1] = a /\ \A n \in 1 .. N : g[n] = F[n][g[n + 1]]

LEMMA DownExists ==
  ASSUME NEW N \in Nat, NEW A, NEW a \in A, NEW F \in [1 .. N -> [A -> A]]
  PROVE  \E g \in [1 .. N + 1 -> A] : Computes(g, N, a, F)
<1> DEFINE Fits(m, g) == g[N + 1] = a /\ \A n \in m .. N : g[n] = F[n][g[n + 1]]
           P == {m \in 1 .. N + 1 : \E g \in [m .. N + 1 -> A] : Fits(m, g)}
<1>1. N + 1 \in P
  <2> DEFINE g == [n \in N + 1 .. N + 1 |-> a]
  <2>1. g \in [N + 1 .. N + 1 -> A] /\ Fits(N + 1, g)
    OBVIOUS
  <2> HIDE DEF g, Fits
  <2> QED BY <2>1
<1>2. ASSUME NEW m \in 1 .. N, m + 1 \in P
      PROVE  m \in P
  <2>1. PICK g \in [m + 1 .. N + 1 -> A] : Fits(m + 1, g)
    BY <1>2
  <2> DEFINE h == [n \in m .. N + 1 |-> IF n = m THEN F[m][g[m + 1]] ELSE g[n]]
  <2>2. g[m + 1] \in A
    BY <2>1
  <2>3. F[m][g[m + 1]] \in A
    BY <2>2
  <2>4. h \in [m .. N + 1 -> A]
    BY <2>1, <2>3
  <2>5. ASSUME NEW n \in m .. N
        PROVE  h[n] = F[n][h[n + 1]]
    <3>1. n + 1 \in m + 1 .. N + 1 /\ h[n + 1] = g[n + 1]
      OBVIOUS
    <3>2. CASE n = m
      <4>1. h[n] = F[n][g[n + 1]]
        BY <3>2
      <4> QED BY <3>1, <4>1
    <3>3. CASE n # m
      <4>1. n \in m + 1 .. N /\ h[n] = g[n]
        BY <3>3
      <4> QED BY <2>1, <3>1, <4>1
    <3> QED BY <3>2, <3>3
  <2>6. h[N + 1] = a
    BY <2>1
  <2>7. Fits(m, h)
    BY <2>5, <2>6
  <2> HIDE DEF h, Fits
  <2> QED BY <2>4, <2>7
<1> HIDE DEF P
<1>3. 1 .. N + 1 \subseteq P
  BY <1>1, <1>2, DownTo
<1>4. 1 \in P
  BY <1>3
<1> QED BY <1>4 DEF P, Computes

-----------------------------------------------------------------------------
(* Sequences seen from their first element                                   *)

Before(c, s) == <<c>> \o s

LEMMA BeforeIs ==
  ASSUME NEW c \in Letters, NEW s \in Seq(Letters)
  PROVE  /\ Before(c, s) \in Seq(Letters) /\ Len(Before(c, s)) = Len(s) + 1 /\ Before(c, s)[1] = c
         /\ \A n \in 1 .. Len(s) : Before(c, s)[n + 1] = s[n]
         /\ Before(c, s) # <<>> /\ Head(Before(c, s)) = c /\ Tail(Before(c, s)) = s
BY DEF Before

LEMMA FirstAndRest ==
  ASSUME NEW s \in Seq(Letters), s # <<>>
  PROVE  /\ Head(s) = s[1] /\ s[1] \in Letters /\ Tail(s) \in Seq(Letters) /\ Len(Tail(s)) = Len(s) - 1
         /\ s = Before(Head(s), Tail(s))
BY DEF Before

-----------------------------------------------------------------------------
(* Without, letter by letter                                                 *)

\* What Without computes at each place of a text
Skips(g, s, D) ==
  /\ g[Len(s) + 1] = <<>>
  /\ \A n \in 1 .. Len(s) : g[n] = IF n \in D THEN g[n + 1] ELSE Before(s[n], g[n + 1])

LEMMA SkipsExist ==
  ASSUME NEW s \in Seq(Letters), NEW D \in SUBSET Nat
  PROVE  \E g \in [1 .. Len(s) + 1 -> Seq(Letters)] : Skips(g, s, D)
<1> DEFINE N == Len(s)
           F == [n \in 1 .. N |-> [t \in Seq(Letters) |-> IF n \in D THEN t ELSE Before(s[n], t)]]
<1>1. N \in Nat /\ <<>> \in Seq(Letters)
  OBVIOUS
<1>2. ASSUME NEW n \in 1 .. N, NEW t \in Seq(Letters)
      PROVE  (IF n \in D THEN t ELSE Before(s[n], t)) \in Seq(Letters)
  <2>1. s[n] \in Letters
    OBVIOUS
  <2> QED BY <2>1, BeforeIs
<1>3. F \in [1 .. N -> [Seq(Letters) -> Seq(Letters)]]
  BY <1>2
<1>4. \A n \in 1 .. N, t \in Seq(Letters) : F[n][t] = IF n \in D THEN t ELSE Before(s[n], t)
  OBVIOUS
<1> HIDE DEF F, N
<1>5. PICK g \in [1 .. N + 1 -> Seq(Letters)] : Computes(g, N, <<>>, F)
  BY <1>1, <1>3, DownExists
<1>6. ASSUME NEW n \in 1 .. N
      PROVE  g[n] = IF n \in D THEN g[n + 1] ELSE Before(s[n], g[n + 1])
  <2>1. g[n + 1] \in Seq(Letters)
    BY <1>1, <1>5
  <2> QED BY <1>4, <1>5, <2>1 DEF Computes
<1> QED BY <1>5, <1>6 DEF N, Computes, Skips

LEMMA SkipsOnce ==
  ASSUME NEW s \in Seq(Letters), NEW D \in SUBSET Nat,
         NEW g \in [1 .. Len(s) + 1 -> Seq(Letters)], Skips(g, s, D)
  PROVE  Without(s, D) = g[1]
<1> DEFINE N == Len(s)
           Equation(f) ==
             f = [n \in 1 .. N + 1 |->
                    IF n > N THEN <<>> ELSE IF n \in D THEN f[n + 1] ELSE Before(s[n], f[n + 1])]
           w == CHOOSE f : Equation(f)
<1>1. N \in Nat
  OBVIOUS
<1>2. Without(s, D) = w[1]
  BY DEF Without, Before
<1>3. Equation(g)
  <2>1. ASSUME NEW n \in 1 .. N + 1
        PROVE  g[n] = IF n > N THEN <<>> ELSE IF n \in D THEN g[n + 1] ELSE Before(s[n], g[n + 1])
    <3>1. CASE n = N + 1
      BY <1>1, <3>1 DEF Skips
    <3>2. CASE n \in 1 .. N
      BY <1>1, <3>2 DEF Skips
    <3> QED BY <1>1, <3>1, <3>2
  <2> QED BY <2>1
<1>4. Equation(w)
  BY <1>3
<1>5. ASSUME NEW n \in 1 .. N + 1
      PROVE  w[n] = IF n > N THEN <<>> ELSE IF n \in D THEN w[n + 1] ELSE Before(s[n], w[n + 1])
  <2> HIDE DEF w
  <2> QED BY <1>4
<1> HIDE DEF w
<1> DEFINE P == {n \in 1 .. N + 1 : w[n] = g[n]}
<1>6. N + 1 \in P
  BY <1>1, <1>5 DEF Skips
<1>7. ASSUME NEW n \in 1 .. N, n + 1 \in P
      PROVE  n \in P
  <2>1. w[n] = IF n \in D THEN w[n + 1] ELSE Before(s[n], w[n + 1])
    BY <1>1, <1>5
  <2>2. g[n] = IF n \in D THEN g[n + 1] ELSE Before(s[n], g[n + 1])
    BY DEF Skips
  <2> QED BY <1>7, <2>1, <2>2
<1> HIDE DEF P, N
<1>8. 1 .. N + 1 \subseteq P
  BY <1>1, <1>6, <1>7, DownTo
<1>9. w[1] = g[1]
  BY <1>1, <1>8 DEF P
<1> QED BY <1>2, <1>9

LEMMA WithoutGrows ==
  ASSUME NEW c \in Letters, NEW s \in Seq(Letters), NEW D \in SUBSET Nat, NEW E \in SUBSET Nat,
         \A n \in 1 .. Len(s) : n + 1 \in E <=> n \in D
  PROVE  /\ Without(s, D) \in Seq(Letters)
         /\ Without(Before(c, s), E) = IF 1 \in E THEN Without(s, D) ELSE Before(c, Without(s, D))
<1> DEFINE N == Len(s)  t == Before(c, s)
<1>1. N \in Nat
  OBVIOUS
<1>2. t \in Seq(Letters) /\ Len(t) = N + 1 /\ t[1] = c /\ \A n \in 1 .. N : t[n + 1] = s[n]
  BY BeforeIs
<1>3. PICK g \in [1 .. N + 1 -> Seq(Letters)] : Skips(g, s, D)
  BY SkipsExist
<1>4. Without(s, D) = g[1]
  BY <1>3, SkipsOnce
<1>5. g[1] \in Seq(Letters)
  BY <1>1
<1>6. Before(c, g[1]) \in Seq(Letters)
  BY <1>5, BeforeIs
<1> DEFINE first == IF 1 \in E THEN g[1] ELSE Before(c, g[1])
           h == [n \in 1 .. N + 2 |-> IF n = 1 THEN first ELSE g[n - 1]]
<1>7. first \in Seq(Letters)
  BY <1>5, <1>6
<1> HIDE DEF t, first
<1>8. h \in [1 .. N + 2 -> Seq(Letters)]
  <2>1. \A n \in 1 .. N + 2 : n # 1 => n - 1 \in 1 .. N + 1
    BY <1>1
  <2> QED BY <1>7, <2>1
<1>9. h[1] = first /\ \A n \in 1 .. N + 1 : h[n + 1] = g[n]
  BY <1>1
<1> HIDE DEF h, N
<1>10. h[N + 2] = <<>>
  <2>1. h[N + 1 + 1] = g[N + 1] /\ N + 1 + 1 = N + 2
    BY <1>1, <1>9
  <2>2. g[N + 1] = <<>>
    BY <1>3 DEF Skips, N
  <2> QED BY <2>1, <2>2
<1>11. ASSUME NEW n \in 1 .. N + 1
      PROVE  h[n] = IF n \in E THEN h[n + 1] ELSE Before(t[n], h[n + 1])
  <2>1. CASE n = 1
    <3>1. h[2] = g[1]
      BY <1>1, <1>9
    <3> QED BY <1>2, <1>9, <2>1, <3>1 DEF first
  <2>2. CASE n # 1
    <3>1. PICK m \in 1 .. N : n = m + 1
      BY <1>1, <2>2
    <3>2. h[n] = g[m] /\ h[n + 1] = g[m + 1] /\ t[n] = s[m]
      BY <1>1, <1>2, <1>9, <3>1
    <3>3. n \in E <=> m \in D
      BY <3>1 DEF N
    <3>4. g[m] = IF m \in D THEN g[m + 1] ELSE Before(s[m], g[m + 1])
      BY <1>3 DEF Skips, N
    <3> QED BY <3>2, <3>3, <3>4
  <2> QED BY <2>1, <2>2
<1>12. Len(t) + 1 = N + 2
  BY <1>1, <1>2
<1>13. Skips(h, t, E)
  BY <1>2, <1>10, <1>11, <1>12 DEF Skips
<1>14. Without(t, E) = h[1]
  BY <1>2, <1>8, <1>12, <1>13, SkipsOnce
<1> QED BY <1>4, <1>5, <1>9, <1>14 DEF first, t

LEMMA WithoutNothing ==
  ASSUME NEW D \in SUBSET Nat
  PROVE  Without(<<>>, D) = <<>>
<1> DEFINE e == <<>>  g == [n \in 1 .. 1 |-> <<>>]
<1>1. e \in Seq(Letters) /\ Len(e) = 0 /\ g \in [1 .. Len(e) + 1 -> Seq(Letters)] /\ g[1] = <<>>
  OBVIOUS
<1> HIDE DEF g, e
<1>2. Skips(g, e, D)
  BY <1>1 DEF Skips
<1>3. Without(e, D) = g[1]
  BY <1>1, <1>2, SkipsOnce
<1> QED BY <1>1, <1>3 DEF e

-----------------------------------------------------------------------------
(* Lines, letter by letter                                                   *)

Over(line, lines) == <<line>> \o lines

\* A text has a line at least.
Pages == Seq(Seq(Letters)) \ {<<>>}

LEMMA OverIs ==
  ASSUME NEW f \in Seq(Letters), NEW r \in Seq(Seq(Letters))
  PROVE  /\ Over(f, r) \in Pages /\ Len(Over(f, r)) = Len(r) + 1 /\ Over(f, r)[1] = f
         /\ \A n \in 1 .. Len(r) : Over(f, r)[n + 1] = r[n]
         /\ Head(Over(f, r)) = f /\ Tail(Over(f, r)) = r
BY DEF Over, Pages

LEMMA PageIs ==
  ASSUME NEW ls \in Pages
  PROVE  Head(ls) \in Seq(Letters) /\ Tail(ls) \in Seq(Seq(Letters)) /\ ls = Over(Head(ls), Tail(ls))
BY DEF Over, Pages

\* One more letter before the first line
Longer(c, ls) == IF c = Newline THEN Over(<<>>, ls) ELSE Over(Before(c, Head(ls)), Tail(ls))

LEMMA LongerKind ==
  ASSUME NEW c \in Letters, NEW ls \in Pages
  PROVE  Longer(c, ls) \in Pages
<1>1. Head(ls) \in Seq(Letters) /\ Tail(ls) \in Seq(Seq(Letters)) /\ ls \in Seq(Seq(Letters))
  BY PageIs DEF Pages
<1>2. Before(c, Head(ls)) \in Seq(Letters)
  BY <1>1, BeforeIs
<1>3. <<>> \in Seq(Letters)
  OBVIOUS
<1> QED BY <1>1, <1>2, <1>3, OverIs DEF Longer

\* What Lines computes at each place of a text
Splits(g, s) ==
  /\ g[Len(s) + 1] = Over(<<>>, <<>>)
  /\ \A n \in 1 .. Len(s) : g[n] = Longer(s[n], g[n + 1])

LEMMA OneLine == Over(<<>>, <<>>) \in Pages
<1>1. <<>> \in Seq(Letters) /\ <<>> \in Seq(Seq(Letters))
  OBVIOUS
<1> QED BY <1>1, OverIs

LEMMA SplitsExist ==
  ASSUME NEW s \in Seq(Letters)
  PROVE  \E g \in [1 .. Len(s) + 1 -> Pages] : Splits(g, s)
<1> DEFINE N == Len(s)  one == Over(<<>>, <<>>)
           F == [n \in 1 .. N |-> [ls \in Pages |-> Longer(s[n], ls)]]
<1>1. N \in Nat /\ one \in Pages
  BY OneLine
<1>2. ASSUME NEW n \in 1 .. N, NEW ls \in Pages
      PROVE  Longer(s[n], ls) \in Pages
  <2>1. s[n] \in Letters
    OBVIOUS
  <2> QED BY <2>1, LongerKind
<1>3. F \in [1 .. N -> [Pages -> Pages]]
  BY <1>2
<1>4. \A n \in 1 .. N, ls \in Pages : F[n][ls] = Longer(s[n], ls)
  OBVIOUS
<1> HIDE DEF F, N, one
<1>5. PICK g \in [1 .. N + 1 -> Pages] : Computes(g, N, one, F)
  BY <1>1, <1>3, DownExists
<1>6. ASSUME NEW n \in 1 .. N
      PROVE  g[n] = Longer(s[n], g[n + 1])
  <2>1. g[n + 1] \in Pages
    BY <1>1, <1>5
  <2> QED BY <1>4, <1>5, <2>1 DEF Computes
<1> QED BY <1>5, <1>6 DEF N, one, Computes, Splits

LEMMA SplitsOnce ==
  ASSUME NEW s \in Seq(Letters), NEW g \in [1 .. Len(s) + 1 -> Pages], Splits(g, s)
  PROVE  Lines(s) = g[1]
<1> DEFINE N == Len(s)
           Equation(f) ==
             f = [n \in 1 .. N + 1 |->
                    IF n > N THEN << <<>> >>
                    ELSE IF s[n] = Newline THEN << <<>> >> \o f[n + 1]
                    ELSE << <<s[n]>> \o Head(f[n + 1]) >> \o Tail(f[n + 1])]
           w == CHOOSE f : Equation(f)
<1>1. N \in Nat
  OBVIOUS
<1>2. Lines(s) = w[1]
  BY DEF Lines
<1>3. Over(<<>>, <<>>) = << <<>> >>
  BY DEF Over
<1>4. ASSUME NEW f, NEW n \in 1 .. N + 1
      PROVE  (IF n > N THEN << <<>> >>
              ELSE IF s[n] = Newline THEN << <<>> >> \o f[n + 1]
              ELSE << <<s[n]>> \o Head(f[n + 1]) >> \o Tail(f[n + 1]))
             = IF n > N THEN Over(<<>>, <<>>) ELSE Longer(s[n], f[n + 1])
  BY <1>3 DEF Longer, Over, Before
<1>5. Equation(g)
  <2>1. ASSUME NEW n \in 1 .. N + 1
        PROVE  g[n] = IF n > N THEN Over(<<>>, <<>>) ELSE Longer(s[n], g[n + 1])
    <3>1. CASE n = N + 1
      BY <1>1, <3>1 DEF Splits
    <3>2. CASE n \in 1 .. N
      BY <1>1, <3>2 DEF Splits
    <3> QED BY <1>1, <3>1, <3>2
  <2> QED BY <1>4, <2>1
<1>6. Equation(w)
  BY <1>5
<1>7. ASSUME NEW n \in 1 .. N + 1
      PROVE  w[n] = IF n > N THEN Over(<<>>, <<>>) ELSE Longer(s[n], w[n + 1])
  <2> HIDE DEF w
  <2> QED BY <1>4, <1>6
<1> HIDE DEF w
<1> DEFINE P == {n \in 1 .. N + 1 : w[n] = g[n]}
<1>8. N + 1 \in P
  BY <1>1, <1>7 DEF Splits
<1>9. ASSUME NEW n \in 1 .. N, n + 1 \in P
      PROVE  n \in P
  <2>1. w[n] = Longer(s[n], w[n + 1])
    BY <1>1, <1>7
  <2>2. g[n] = Longer(s[n], g[n + 1])
    BY DEF Splits
  <2> QED BY <1>9, <2>1, <2>2
<1> HIDE DEF P, N
<1>10. 1 .. N + 1 \subseteq P
  BY <1>1, <1>8, <1>9, DownTo
<1>11. w[1] = g[1]
  BY <1>1, <1>10 DEF P
<1> QED BY <1>2, <1>11

LEMMA LinesGrow ==
  ASSUME NEW c \in Letters, NEW s \in Seq(Letters)
  PROVE  Lines(s) \in Pages /\ Lines(Before(c, s)) = Longer(c, Lines(s))
<1> DEFINE N == Len(s)  t == Before(c, s)
<1>1. N \in Nat
  OBVIOUS
<1>2. t \in Seq(Letters) /\ Len(t) = N + 1 /\ t[1] = c /\ \A n \in 1 .. N : t[n + 1] = s[n]
  BY BeforeIs
<1>3. PICK g \in [1 .. N + 1 -> Pages] : Splits(g, s)
  BY SplitsExist
<1>4. Lines(s) = g[1]
  BY <1>3, SplitsOnce
<1>5. g[1] \in Pages
  BY <1>1
<1> DEFINE first == Longer(c, g[1])
           h == [n \in 1 .. N + 2 |-> IF n = 1 THEN first ELSE g[n - 1]]
<1>6. first \in Pages
  BY <1>5, LongerKind
<1> HIDE DEF t, first
<1>7. h \in [1 .. N + 2 -> Pages]
  <2>1. \A n \in 1 .. N + 2 : n # 1 => n - 1 \in 1 .. N + 1
    BY <1>1
  <2> QED BY <1>6, <2>1
<1>8. h[1] = first /\ \A n \in 1 .. N + 1 : h[n + 1] = g[n]
  BY <1>1
<1> HIDE DEF h, N
<1>9. h[N + 2] = Over(<<>>, <<>>)
  <2>1. h[N + 1 + 1] = g[N + 1] /\ N + 1 + 1 = N + 2
    BY <1>1, <1>8
  <2>2. g[N + 1] = Over(<<>>, <<>>)
    BY <1>3 DEF Splits, N
  <2> QED BY <2>1, <2>2
<1>10. ASSUME NEW n \in 1 .. N + 1
       PROVE  h[n] = Longer(t[n], h[n + 1])
  <2>1. CASE n = 1
    <3>1. h[2] = g[1]
      BY <1>1, <1>8
    <3> QED BY <1>2, <1>8, <2>1, <3>1 DEF first
  <2>2. CASE n # 1
    <3>1. PICK m \in 1 .. N : n = m + 1
      BY <1>1, <2>2
    <3>2. h[n] = g[m] /\ h[n + 1] = g[m + 1] /\ t[n] = s[m]
      BY <1>1, <1>2, <1>8, <3>1
    <3>3. g[m] = Longer(s[m], g[m + 1])
      BY <1>3 DEF Splits, N
    <3> QED BY <3>2, <3>3
  <2> QED BY <2>1, <2>2
<1>11. Len(t) + 1 = N + 2
  BY <1>1, <1>2
<1>12. Splits(h, t)
  BY <1>2, <1>9, <1>10, <1>11 DEF Splits
<1>13. Lines(t) = h[1]
  BY <1>2, <1>7, <1>11, <1>12, SplitsOnce
<1> QED BY <1>4, <1>5, <1>8, <1>13 DEF first, t

LEMMA LinesOfNothing == Lines(<<>>) = Over(<<>>, <<>>)
<1> DEFINE e == <<>>  one == Over(<<>>, <<>>)  g == [n \in 1 .. 1 |-> one]
<1>1. e \in Seq(Letters) /\ Len(e) = 0 /\ one \in Pages
  BY OneLine
<1> HIDE DEF e, one
<1>2. g \in [1 .. Len(e) + 1 -> Pages] /\ g[1] = one
  BY <1>1
<1> HIDE DEF g
<1>3. Splits(g, e)
  BY <1>1, <1>2 DEF Splits, one
<1>4. Lines(e) = g[1]
  BY <1>1, <1>2, <1>3, SplitsOnce
<1> QED BY <1>2, <1>4 DEF e, one

-----------------------------------------------------------------------------
(* Stripped and Neat, from the first letter and the first line               *)

LEMMA LastIs ==
  ASSUME NEW N \in Nat, NEW K \in SUBSET (1 .. N)
  PROVE  /\ Max({0} \cup K) \in 0 .. N /\ (Max({0} \cup K) = 0 \/ Max({0} \cup K) \in K)
         /\ \A k \in K : k <= Max({0} \cup K)
<1> DEFINE S == {0} \cup K  T == {N - k : k \in S}
<1>0. \A k \in S : k \in 0 .. N /\ N - k \in Nat
  OBVIOUS
<1>1. T \in SUBSET Nat /\ T # {}
  <2>1. 0 \in S
    OBVIOUS
  <2> HIDE DEF S
  <2> QED BY <1>0, <2>1
<1>2. PICK n \in T : \A m \in T : n <= m
  <2> HIDE DEF T
  <2> QED BY <1>1, LeastNatural
<1>3. PICK x \in S : n = N - x
  BY <1>2
<1>4. ASSUME NEW y \in S
      PROVE  x >= y
  <2>1. N - y \in T
    OBVIOUS
  <2> HIDE DEF T
  <2> QED BY <1>2, <1>3, <2>1
<1>5. \E z \in S : \A y \in S : z >= y
  <2> HIDE DEF S
  <2> QED BY <1>3, <1>4
<1>6. Max(S) \in S /\ \A y \in S : Max(S) >= y
  <2> HIDE DEF S
  <2> QED BY <1>5 DEF Max
<1>7. Max(S) \in 0 .. N /\ \A y \in S : y <= Max(S)
  <2> HIDE DEF S
  <2> QED BY <1>0, <1>6
<1> QED BY <1>6, <1>7

LEMMA LastMoves ==
  ASSUME NEW N \in Nat, NEW K \in SUBSET (1 .. N), NEW L \in SUBSET (1 .. N + 1),
         \A n \in 1 .. N : n + 1 \in L <=> n \in K
  PROVE  Max({0} \cup L) = IF K # {} THEN Max({0} \cup K) + 1 ELSE IF 1 \in L THEN 1 ELSE 0
<1> DEFINE m == Max({0} \cup K)  l == Max({0} \cup L)
<1>1. m \in 0 .. N /\ (m = 0 \/ m \in K) /\ \A k \in K : k <= m
  BY LastIs
<1>2. l \in 0 .. N + 1 /\ (l = 0 \/ l \in L) /\ \A k \in L : k <= l
  BY LastIs
<1> HIDE DEF m, l
<1>3. CASE K # {}
  <2>1. m \in K
    <3>1. PICK k \in K : TRUE
      BY <1>3
    <3>2. k \in 1 .. N
      BY <3>1
    <3> QED BY <1>1, <3>1, <3>2
  <2>2. m + 1 \in L
    BY <1>1, <2>1
  <2>3. l >= m + 1
    BY <1>2, <2>2
  <2>4. l - 1 \in 1 .. N /\ (l - 1) + 1 = l /\ l \in L
    BY <1>1, <1>2, <2>1, <2>3
  <2>5. l - 1 \in K
    BY <2>4
  <2>6. l - 1 <= m
    BY <1>1, <2>5
  <2>7. l = m + 1
    BY <1>1, <1>2, <2>3, <2>6
  <2> QED BY <1>3, <2>7 DEF m, l
<1>4. CASE K = {}
  <2>1. \A n \in L : n = 1
    <3>1. \A n \in L : n # 1 => n - 1 \in 1 .. N /\ (n - 1) + 1 = n
      OBVIOUS
    <3> QED BY <1>4, <3>1
  <2> QED BY <1>2, <1>4, <2>1 DEF m, l
<1> QED BY <1>3, <1>4

LEMMA BeginGrows ==
  ASSUME NEW c \in Letters, NEW s \in Seq(Letters), NEW m \in 0 .. Len(s)
  PROVE  /\ SubSeq(s, 1, m) \in Seq(Letters) /\ Len(SubSeq(s, 1, m)) = m
         /\ SubSeq(Before(c, s), 1, m + 1) = Before(c, SubSeq(s, 1, m))
BY DEF Before

Inked(s) == {n \in DOMAIN s : s[n] \notin Blank}

LEMMA StrippedIs ==
  ASSUME NEW s \in Seq(Letters)
  PROVE  /\ Stripped(s) = SubSeq(s, 1, Max({0} \cup Inked(s))) /\ Inked(s) \in SUBSET (1 .. Len(s))
         /\ Stripped(s) \in Seq(Letters) /\ (Stripped(s) = <<>> <=> Inked(s) = {})
<1> DEFINE m == Max({0} \cup Inked(s))
<1>1. Len(s) \in Nat /\ Inked(s) \in SUBSET (1 .. Len(s))
  BY DEF Inked
<1>2. Stripped(s) = SubSeq(s, 1, m)
  BY DEF Stripped, Inked
<1>3. m \in 0 .. Len(s) /\ (m = 0 \/ m \in Inked(s)) /\ \A k \in Inked(s) : k <= m
  BY <1>1, LastIs
<1> HIDE DEF m
<1>4. SubSeq(s, 1, m) \in Seq(Letters) /\ Len(SubSeq(s, 1, m)) = m
  BY <1>3
<1>5. SubSeq(s, 1, m) = <<>> <=> m = 0
  <2>1. \A q \in Seq(Letters) : q = <<>> <=> Len(q) = 0
    OBVIOUS
  <2> QED BY <1>4, <2>1
<1>6. m = 0 <=> Inked(s) = {}
  BY <1>1, <1>3
<1> QED BY <1>1, <1>2, <1>4, <1>5, <1>6 DEF m

LEMMA StrippedGrows ==
  ASSUME NEW c \in Letters, NEW s \in Seq(Letters)
  PROVE  Stripped(Before(c, s)) = IF c \in Blank /\ Stripped(s) = <<>> THEN <<>> ELSE Before(c, Stripped(s))
<1> DEFINE N == Len(s)  t == Before(c, s)
<1>1. N \in Nat /\ t \in Seq(Letters) /\ Len(t) = N + 1 /\ t[1] = c /\ \A n \in 1 .. N : t[n + 1] = s[n]
  <2>1. t \in Seq(Letters) /\ Len(t) = N + 1 /\ t[1] = c /\ \A n \in 1 .. N : t[n + 1] = s[n]
    BY BeforeIs
  <2> HIDE DEF t
  <2> QED BY <2>1
<1> DEFINE K == Inked(s)  L == Inked(t)  m == Max({0} \cup K)
<1>2. /\ Stripped(s) = SubSeq(s, 1, m) /\ K \in SUBSET (1 .. N)
      /\ Stripped(s) \in Seq(Letters) /\ (Stripped(s) = <<>> <=> K = {})
  BY StrippedIs
<1>3. /\ Stripped(t) = SubSeq(t, 1, Max({0} \cup L)) /\ L \in SUBSET (1 .. N + 1)
      /\ (Stripped(t) = <<>> <=> L = {})
  <2> HIDE DEF t, L
  <2>1. L = Inked(t)
    BY DEF L
  <2> QED BY <1>1, <2>1, StrippedIs
<1>4. (1 \in L <=> c \notin Blank) /\ \A n \in 1 .. N : n + 1 \in L <=> n \in K
  <2> HIDE DEF t
  <2> QED BY <1>1 DEF Inked
<1>5. m \in 0 .. N /\ (K = {} => m = 0)
  BY <1>1, <1>2, LastIs
<1> HIDE DEF K, L
<1>6. Max({0} \cup L) = IF K # {} THEN m + 1 ELSE IF 1 \in L THEN 1 ELSE 0
  BY <1>1, <1>2, <1>3, <1>4, LastMoves
<1>7. SubSeq(t, 1, m + 1) = Before(c, SubSeq(s, 1, m))
  BY <1>5, BeginGrows
<1> HIDE DEF t, m, N
<1>8. CASE K # {}
  BY <1>2, <1>3, <1>6, <1>7, <1>8 DEF t
<1>9. CASE K = {} /\ c \notin Blank
  <2>1. m + 1 = 1 /\ Max({0} \cup L) = 1
    BY <1>4, <1>5, <1>6, <1>9
  <2>2. Stripped(t) = Before(c, Stripped(s))
    BY <1>2, <1>3, <1>7, <2>1
  <2> QED BY <1>9, <2>2 DEF t
<1>10. CASE K = {} /\ c \in Blank
  <2>1. L = {}
    <3>1. \A n \in L : n = 1 \/ (n - 1 \in 1 .. N /\ (n - 1) + 1 = n)
      BY <1>1, <1>3
    <3> QED BY <1>4, <1>10, <3>1
  <2> QED BY <1>2, <1>3, <1>10, <2>1 DEF t
<1> QED BY <1>8, <1>9, <1>10

LEMMA SameLines ==
  ASSUME NEW f \in Seq(Letters), NEW r \in Seq(Seq(Letters)), NEW q \in Seq(Seq(Letters)),
         Len(q) = Len(r) + 1, q[1] = f, \A n \in 1 .. Len(r) : q[n + 1] = r[n]
  PROVE  q = Over(f, r)
<1> DEFINE N == Len(r)  p == Over(f, r)
<1>1. N \in Nat
  OBVIOUS
<1>2. p \in Seq(Seq(Letters)) /\ Len(p) = N + 1 /\ p[1] = f /\ \A n \in 1 .. N : p[n + 1] = r[n]
  BY OverIs DEF Pages
<1> HIDE DEF p
<1>3. ASSUME NEW n \in 1 .. N + 1
      PROVE  q[n] = p[n]
  <2>1. CASE n = 1
    BY <1>2, <2>1
  <2>2. CASE n # 1
    <3>1. n - 1 \in 1 .. N /\ (n - 1) + 1 = n
      BY <1>1, <2>2
    <3> QED BY <1>2, <3>1
  <2> QED BY <2>1, <2>2
<1>4. q \in [1 .. N + 1 -> Seq(Letters)] /\ p \in [1 .. N + 1 -> Seq(Letters)]
  BY <1>2
<1> HIDE DEF N
<1>5. q = p
  <2>1. q = [n \in 1 .. N + 1 |-> q[n]] /\ p = [n \in 1 .. N + 1 |-> p[n]]
    BY <1>4
  <2>2. [n \in 1 .. N + 1 |-> q[n]] = [n \in 1 .. N + 1 |-> p[n]]
    BY <1>3
  <2> QED BY <2>1, <2>2
<1> QED BY <1>5 DEF p

Written(ls) == {n \in DOMAIN ls : Stripped(ls[n]) # <<>>}

LEMMA NeatIs ==
  ASSUME NEW ls \in Seq(Seq(Letters))
  PROVE  /\ Written(ls) \in SUBSET (1 .. Len(ls)) /\ Max({0} \cup Written(ls)) \in 0 .. Len(ls)
         /\ Neat(ls) \in Seq(Seq(Letters)) /\ Len(Neat(ls)) = Max({0} \cup Written(ls))
         /\ \A n \in 1 .. Max({0} \cup Written(ls)) : Neat(ls)[n] = Stripped(ls[n])
         /\ Neat(ls) = <<>> <=> Written(ls) = {}
<1> DEFINE m == Max({0} \cup Written(ls))  N == Len(ls)
<1>1. N \in Nat /\ Written(ls) \in SUBSET (1 .. N)
  BY DEF Written
<1>2. m \in 0 .. N /\ (m = 0 \/ m \in Written(ls)) /\ \A k \in Written(ls) : k <= m
  BY <1>1, LastIs
<1>3. Neat(ls) = [n \in 1 .. m |-> Stripped(ls[n])]
  BY DEF Neat, Written
<1> HIDE DEF m
<1>4. \A n \in 1 .. m : Stripped(ls[n]) \in Seq(Letters)
  <2>1. \A n \in 1 .. m : ls[n] \in Seq(Letters)
    BY <1>1, <1>2
  <2> QED BY <2>1, StrippedIs
<1> HIDE DEF N
<1>5. Neat(ls) \in [1 .. m -> Seq(Letters)]
  BY <1>3, <1>4
<1>6. m \in Nat
  BY <1>1, <1>2
<1>7. Neat(ls) \in Seq(Seq(Letters)) /\ Len(Neat(ls)) = m
  BY <1>5, <1>6
<1>8. Neat(ls) = <<>> <=> m = 0
  <2>1. \A q \in Seq(Seq(Letters)) : q = <<>> <=> Len(q) = 0
    OBVIOUS
  <2> QED BY <1>7, <2>1
<1>9. m = 0 <=> Written(ls) = {}
  BY <1>1, <1>2
<1> QED BY <1>1, <1>2, <1>3, <1>7, <1>8, <1>9 DEF m, N

LEMMA NeatGrows ==
  ASSUME NEW f \in Seq(Letters), NEW r \in Seq(Seq(Letters))
  PROVE  Neat(Over(f, r)) = IF Stripped(f) = <<>> /\ Neat(r) = <<>> THEN <<>> ELSE Over(Stripped(f), Neat(r))
<1> DEFINE N == Len(r)  p == Over(f, r)
<1>1. p \in Seq(Seq(Letters)) /\ Len(p) = N + 1 /\ p[1] = f /\ \A n \in 1 .. N : p[n + 1] = r[n]
  BY OverIs DEF Pages
<1>2. N \in Nat
  OBVIOUS
<1> DEFINE K == Written(r)  L == Written(p)  m == Max({0} \cup K)  l == Max({0} \cup L)
<1> HIDE DEF p
<1>3. /\ K \in SUBSET (1 .. N) /\ m \in 0 .. N
      /\ Neat(r) \in Seq(Seq(Letters)) /\ Len(Neat(r)) = m
      /\ \A n \in 1 .. m : Neat(r)[n] = Stripped(r[n])
      /\ Neat(r) = <<>> <=> K = {}
  BY NeatIs
<1>4. /\ L \in SUBSET (1 .. N + 1)
      /\ Neat(p) \in Seq(Seq(Letters)) /\ Len(Neat(p)) = l
      /\ \A n \in 1 .. l : Neat(p)[n] = Stripped(p[n])
      /\ Neat(p) = <<>> <=> L = {}
  BY <1>1, NeatIs
<1>5. (1 \in L <=> Stripped(f) # <<>>) /\ \A n \in 1 .. N : n + 1 \in L <=> n \in K
  <2> HIDE DEF N
  <2>1. DOMAIN p = 1 .. N + 1 /\ DOMAIN r = 1 .. N
    BY <1>1, <1>2 DEF N
  <2> QED BY <1>1, <1>2, <2>1 DEF Written
<1>6. Stripped(f) \in Seq(Letters)
  BY StrippedIs
<1>7. K = {} => m = 0
  BY <1>2, <1>3, LastIs
<1> HIDE DEF K, L
<1>8. l = IF K # {} THEN m + 1 ELSE IF 1 \in L THEN 1 ELSE 0
  BY <1>2, <1>3, <1>4, <1>5, LastMoves
<1> HIDE DEF m, l, N
<1>9. CASE K = {} /\ Stripped(f) = <<>>
  <2>1. L = {}
    <3>1. \A n \in L : n = 1 \/ (n - 1 \in 1 .. N /\ (n - 1) + 1 = n)
      BY <1>2, <1>4
    <3> QED BY <1>5, <1>9, <3>1
  <2> QED BY <1>3, <1>4, <1>9, <2>1 DEF p
<1>10. CASE ~(K = {} /\ Stripped(f) = <<>>)
  <2>1. l = m + 1
    BY <1>3, <1>5, <1>7, <1>8, <1>10
  <2>2. Neat(p)[1] = Stripped(f)
    BY <1>1, <1>2, <1>3, <1>4, <2>1
  <2>3. ASSUME NEW n \in 1 .. m
        PROVE  Neat(p)[n + 1] = Neat(r)[n]
    <3>1. n + 1 \in 1 .. l /\ n \in 1 .. N
      BY <1>2, <1>3, <2>1
    <3> QED BY <1>1, <1>3, <1>4, <3>1
  <2>4. Neat(p) = Over(Stripped(f), Neat(r))
    <3> DEFINE a == Stripped(f)  b == Neat(r)  q == Neat(p)
    <3>1. a \in Seq(Letters) /\ b \in Seq(Seq(Letters)) /\ q \in Seq(Seq(Letters))
      BY <1>3, <1>4, <1>6
    <3>2. Len(q) = Len(b) + 1 /\ q[1] = a /\ Len(b) = m
      BY <1>3, <1>4, <2>1, <2>2
    <3>3. \A n \in 1 .. Len(b) : q[n + 1] = b[n]
      BY <2>3, <3>2
    <3> HIDE DEF a, b, q
    <3>4. q = Over(a, b)
      BY <3>1, <3>2, <3>3, SameLines
    <3> QED BY <3>4 DEF a, b, q
  <2> QED BY <1>3, <1>10, <2>4 DEF p
<1> QED BY <1>9, <1>10

-----------------------------------------------------------------------------
(* Normalized from the first letter                                          *)

Doubled(s) == {n \in 1 .. Len(s) - 1 : s[n] = Return /\ s[n + 1] = Newline}

\* The first letter is a Return that Unix drops.
Drops(c, s) == c = Return /\ s # <<>> /\ s[1] = Newline

LEMMA UnixGrows ==
  ASSUME NEW c \in Letters, NEW s \in Seq(Letters)
  PROVE  /\ Unix(s) \in Seq(Letters)
         /\ Unix(Before(c, s)) = IF Drops(c, s) THEN Unix(s) ELSE Before(c, Unix(s))
<1> DEFINE N == Len(s)  t == Before(c, s)
<1>1. t \in Seq(Letters) /\ Len(t) = N + 1 /\ t[1] = c /\ \A n \in 1 .. N : t[n + 1] = s[n]
  BY BeforeIs
<1>2. N \in Nat /\ (s = <<>> <=> N = 0)
  OBVIOUS
<1> DEFINE D == Doubled(s)  E == Doubled(t)
<1> HIDE DEF t
<1>3. D \in SUBSET Nat /\ E \in SUBSET Nat
  BY DEF Doubled
<1>4. ASSUME NEW n \in 1 .. N
      PROVE  n + 1 \in E <=> n \in D
  <2>1. CASE n = N
    BY <1>1, <1>2, <2>1 DEF Doubled
  <2>2. CASE n # N
    <3>1. n \in 1 .. N - 1 /\ n + 1 \in 1 .. N /\ n + 1 \in 1 .. Len(t) - 1
      BY <1>1, <1>2, <2>2
    <3>2. t[n + 1] = s[n] /\ t[n + 1 + 1] = s[n + 1]
      BY <1>1, <3>1
    <3> QED BY <3>1, <3>2 DEF Doubled
  <2> QED BY <2>1, <2>2
<1>5. 1 \in E <=> Drops(c, s)
  <2>1. CASE N = 0
    BY <1>1, <1>2, <2>1 DEF Doubled, Drops
  <2>2. CASE N # 0
    <3>1. 1 \in 1 .. N /\ 1 \in 1 .. Len(t) - 1 /\ t[1 + 1] = s[1]
      BY <1>1, <1>2, <2>2
    <3> QED BY <1>1, <1>2, <2>2, <3>1 DEF Doubled, Drops
  <2> QED BY <2>1, <2>2
<1>6. Unix(s) = Without(s, D) /\ Unix(t) = Without(t, E)
  BY DEF Unix, Doubled
<1> HIDE DEF D, E
<1>7. Without(s, D) \in Seq(Letters) /\ Without(t, E) = IF 1 \in E THEN Without(s, D) ELSE Before(c, Without(s, D))
  BY <1>3, <1>4, WithoutGrows DEF t
<1> QED BY <1>5, <1>6, <1>7 DEF t

LEMMA UnixOfNothing == Unix(<<>>) = <<>>
<1> DEFINE e == <<>>  D == Doubled(e)
<1>1. D \in SUBSET Nat
  BY DEF Doubled
<1>2. Unix(e) = Without(e, D)
  BY DEF Unix, Doubled
<1> HIDE DEF D
<1> QED BY <1>1, <1>2, WithoutNothing

\* What becomes of the first line of what is left when a letter comes before it
Puts(c, ns) ==
  IF ns = <<>> THEN (IF c \in Blank THEN <<>> ELSE Over(Before(c, <<>>), <<>>))
  ELSE IF c \in Blank /\ c # Newline /\ Head(ns) = <<>> THEN ns
  ELSE Longer(c, ns)

LEMMA NothingToStrip == Stripped(<<>>) = <<>>
<1> DEFINE e == <<>>
<1>1. e \in Seq(Letters) /\ Inked(e) = {}
  BY DEF Inked
<1> HIDE DEF e
<1>2. Stripped(e) = <<>>
  BY <1>1, StrippedIs
<1> QED BY <1>2 DEF e

LEMMA NothingIsNeat == Neat(<<>>) = <<>>
<1> DEFINE e == <<>>
<1>1. e \in Seq(Seq(Letters)) /\ Written(e) = {}
  BY DEF Written
<1> HIDE DEF e
<1>2. Neat(e) = <<>>
  BY <1>1, NeatIs
<1> QED BY <1>2 DEF e

LEMMA NeatLonger ==
  ASSUME NEW c \in Letters, NEW ls \in Pages
  PROVE  Neat(Longer(c, ls)) = Puts(c, Neat(ls))
<1> DEFINE f == Head(ls)  r == Tail(ls)
<1>1. f \in Seq(Letters) /\ r \in Seq(Seq(Letters)) /\ ls = Over(f, r) /\ ls \in Seq(Seq(Letters))
  BY PageIs DEF Pages
<1>2. Newline \in Blank
  BY ComparerAssumption
<1>3. <<>> \in Seq(Letters) /\ Stripped(<<>>) = <<>>
  BY NothingToStrip
<1> HIDE DEF f, r
<1>4. CASE c = Newline
  <2>1. Longer(c, ls) = Over(<<>>, ls)
    BY <1>4 DEF Longer
  <2>2. Neat(Over(<<>>, ls)) = IF Neat(ls) = <<>> THEN <<>> ELSE Over(<<>>, Neat(ls))
    BY <1>1, <1>3, NeatGrows
  <2>3. Longer(c, Neat(ls)) = Over(<<>>, Neat(ls))
    BY <1>4 DEF Longer
  <2> QED BY <1>2, <1>4, <2>1, <2>2, <2>3 DEF Puts
<1>5. CASE c # Newline
  <2> DEFINE g == Stripped(f)  q == Neat(r)
  <2>1. Longer(c, ls) = Over(Before(c, f), r)
    BY <1>5 DEF Longer, f, r
  <2>2. Before(c, f) \in Seq(Letters) /\ Stripped(Before(c, f)) = IF c \in Blank /\ g = <<>> THEN <<>> ELSE Before(c, g)
    BY <1>1, BeforeIs, StrippedGrows
  <2>3. g \in Seq(Letters) /\ q \in Seq(Seq(Letters))
    BY <1>1, StrippedIs, NeatIs
  <2>4. Before(c, g) # <<>>
    BY <2>3, BeforeIs
  <2>5. Neat(ls) = IF g = <<>> /\ q = <<>> THEN <<>> ELSE Over(g, q)
    BY <1>1, NeatGrows
  <2>6. Neat(Over(Before(c, f), r)) = IF Stripped(Before(c, f)) = <<>> /\ q = <<>> THEN <<>> ELSE Over(Stripped(Before(c, f)), q)
    BY <1>1, <2>2, NeatGrows
  <2> HIDE DEF g, q
  <2>7. Over(g, q) # <<>> /\ Head(Over(g, q)) = g /\ Tail(Over(g, q)) = q
    BY <2>3, OverIs DEF Pages
  <2>8. Longer(c, Over(g, q)) = Over(Before(c, g), q)
    BY <1>5, <2>7 DEF Longer
  <2>9. CASE c \in Blank /\ g = <<>>
    BY <1>5, <2>1, <2>2, <2>5, <2>6, <2>7, <2>9 DEF Puts
  <2>10. CASE ~(c \in Blank /\ g = <<>>)
    <3>1. Neat(Longer(c, ls)) = Over(Before(c, g), q)
      BY <2>1, <2>2, <2>4, <2>6, <2>10
    <3> QED BY <1>5, <2>5, <2>7, <2>8, <2>10, <3>1 DEF Puts
  <2> QED BY <2>9, <2>10
<1> QED BY <1>4, <1>5

LEMMA NormalizedGrows ==
  ASSUME NEW c \in Letters, NEW s \in Seq(Letters)
  PROVE  /\ Normalized(s) \in Seq(Seq(Letters))
         /\ Normalized(Before(c, s)) = IF Drops(c, s) THEN Normalized(s) ELSE Puts(c, Normalized(s))
<1> DEFINE u == Unix(s)
<1>1. u \in Seq(Letters) /\ Unix(Before(c, s)) = IF Drops(c, s) THEN u ELSE Before(c, u)
  BY UnixGrows
<1> HIDE DEF u
<1>2. Lines(u) \in Pages /\ Lines(Before(c, u)) = Longer(c, Lines(u))
  BY <1>1, LinesGrow
<1>3. Normalized(s) = Neat(Lines(u)) /\ Normalized(Before(c, s)) = Neat(Lines(Unix(Before(c, s))))
  BY DEF Normalized, u
<1>4. Neat(Lines(u)) \in Seq(Seq(Letters))
  BY <1>2, NeatIs DEF Pages
<1>5. Neat(Longer(c, Lines(u))) = Puts(c, Neat(Lines(u)))
  BY <1>2, NeatLonger
<1> QED BY <1>1, <1>2, <1>3, <1>4, <1>5

LEMMA NothingNormalized == Normalized(<<>>) = <<>>
<1>1. <<>> \in Seq(Letters) /\ <<>> \in Seq(Seq(Letters))
  OBVIOUS
<1>2. Normalized(<<>>) = Neat(Over(<<>>, <<>>))
  BY UnixOfNothing, LinesOfNothing DEF Normalized
<1>3. Neat(Over(<<>>, <<>>)) = <<>>
  BY <1>1, NothingToStrip, NothingIsNeat, NeatGrows
<1> QED BY <1>2, <1>3

-----------------------------------------------------------------------------
(* Printed from the first letter                                             *)

AllBlank(s) == \A n \in 1 .. Len(s) : s[n] \in Blank

\* The first line is blank, and not the last one.
BlankLine(s) ==
  \E m \in 1 .. Len(s) : s[m] = Newline /\ \A k \in 1 .. m - 1 : s[k] \in Blank /\ s[k] # Newline

LEMMA BlanksGrow ==
  ASSUME NEW c \in Letters, NEW s \in Seq(Letters)
  PROVE  /\ AllBlank(Before(c, s)) <=> c \in Blank /\ AllBlank(s)
         /\ BlankLine(Before(c, s)) <=> c = Newline \/ (c \in Blank /\ BlankLine(s))
<1> DEFINE N == Len(s)  t == Before(c, s)
<1>1. t \in Seq(Letters) /\ Len(t) = N + 1 /\ t[1] = c /\ \A n \in 1 .. N : t[n + 1] = s[n]
  BY BeforeIs
<1>2. N \in Nat
  OBVIOUS
<1> HIDE DEF t
<1>3. AllBlank(t) => c \in Blank /\ AllBlank(s)
  <2> SUFFICES ASSUME AllBlank(t) PROVE c \in Blank /\ AllBlank(s)
    OBVIOUS
  <2>1. c \in Blank
    BY <1>1, <1>2 DEF AllBlank
  <2>2. ASSUME NEW n \in 1 .. N
        PROVE  s[n] \in Blank
    <3>1. n + 1 \in 1 .. Len(t) /\ t[n + 1] = s[n]
      BY <1>1, <1>2
    <3> QED BY <3>1 DEF AllBlank
  <2> QED BY <2>1, <2>2 DEF AllBlank
<1>4. c \in Blank /\ AllBlank(s) => AllBlank(t)
  <2> SUFFICES ASSUME c \in Blank, AllBlank(s), NEW n \in 1 .. N + 1 PROVE t[n] \in Blank
    BY <1>1 DEF AllBlank
  <2>1. CASE n = 1
    BY <1>1, <2>1
  <2>2. CASE n # 1
    <3>1. n - 1 \in 1 .. N /\ (n - 1) + 1 = n
      BY <1>2, <2>2
    <3>2. t[n] = s[n - 1]
      BY <1>1, <3>1
    <3> QED BY <3>1, <3>2 DEF AllBlank
  <2> QED BY <2>1, <2>2
<1>5. BlankLine(t) => c = Newline \/ (c \in Blank /\ BlankLine(s))
  <2> SUFFICES ASSUME BlankLine(t), c # Newline PROVE c \in Blank /\ BlankLine(s)
    OBVIOUS
  <2>1. PICK m \in 1 .. N + 1 : t[m] = Newline /\ \A k \in 1 .. m - 1 : t[k] \in Blank /\ t[k] # Newline
    BY <1>1 DEF BlankLine
  <2>2. m # 1
    BY <1>1, <2>1
  <2>3. m - 1 \in 1 .. N /\ (m - 1) + 1 = m /\ 1 \in 1 .. m - 1
    BY <1>2, <2>2
  <2>4. c \in Blank
    BY <1>1, <2>1, <2>3
  <2>5. s[m - 1] = Newline
    BY <1>1, <2>1, <2>3
  <2>6. ASSUME NEW k \in 1 .. (m - 1) - 1
        PROVE  s[k] \in Blank /\ s[k] # Newline
    <3>1. k + 1 \in 1 .. m - 1 /\ k \in 1 .. N
      BY <1>2, <2>3
    <3>2. t[k + 1] = s[k]
      BY <1>1, <3>1
    <3> QED BY <2>1, <3>1, <3>2
  <2> QED BY <2>3, <2>4, <2>5, <2>6 DEF BlankLine
<1>6. c = Newline => BlankLine(t)
  <2> SUFFICES ASSUME c = Newline PROVE BlankLine(t)
    OBVIOUS
  <2>1. 1 \in 1 .. Len(t) /\ t[1] = Newline /\ \A k \in 1 .. 1 - 1 : FALSE
    BY <1>1, <1>2
  <2> QED BY <2>1 DEF BlankLine
<1>7. c \in Blank /\ BlankLine(s) => c = Newline \/ BlankLine(t)
  <2> SUFFICES ASSUME c \in Blank, BlankLine(s), c # Newline PROVE BlankLine(t)
    OBVIOUS
  <2>1. PICK m \in 1 .. N : s[m] = Newline /\ \A k \in 1 .. m - 1 : s[k] \in Blank /\ s[k] # Newline
    BY DEF BlankLine
  <2>2. m + 1 \in 1 .. Len(t) /\ t[m + 1] = Newline
    BY <1>1, <1>2, <2>1
  <2>3. ASSUME NEW k \in 1 .. (m + 1) - 1
        PROVE  t[k] \in Blank /\ t[k] # Newline
    <3>1. CASE k = 1
      BY <1>1, <3>1
    <3>2. CASE k # 1
      <4>1. k - 1 \in 1 .. m - 1 /\ k - 1 \in 1 .. N /\ (k - 1) + 1 = k
        BY <1>2, <3>2
      <4>2. t[k] = s[k - 1]
        BY <1>1, <4>1
      <4> QED BY <2>1, <4>1, <4>2
    <3> QED BY <3>1, <3>2
  <2> QED BY <2>2, <2>3 DEF BlankLine
<1> QED BY <1>3, <1>4, <1>5, <1>6, <1>7 DEF t

\* Blanks of s from place n to last, which end the line or the text
Trails(s, n, last) ==
  /\ \A k \in n .. last : s[k] \in Blank
  /\ last = Len(s) \/ (s[last + 1] = Newline /\ \A k \in n .. last : s[k] # Newline)

LEMMA TrailsMove ==
  ASSUME NEW c \in Letters, NEW s \in Seq(Letters), NEW n \in 1 .. Len(s), NEW last \in n .. Len(s)
  PROVE  Trails(Before(c, s), n + 1, last + 1) <=> Trails(s, n, last)
<1> DEFINE N == Len(s)  t == Before(c, s)
<1>1. t \in Seq(Letters) /\ Len(t) = N + 1 /\ \A m \in 1 .. N : t[m + 1] = s[m]
  BY BeforeIs
<1>2. N \in Nat
  OBVIOUS
<1> HIDE DEF t
<1>3. ASSUME NEW k \in n .. last
      PROVE  k + 1 \in n + 1 .. last + 1 /\ t[k + 1] = s[k]
  BY <1>1, <1>2
<1>4. ASSUME NEW k \in n + 1 .. last + 1
      PROVE  k - 1 \in n .. last /\ t[k] = s[k - 1]
  <2>1. k - 1 \in n .. last /\ k - 1 \in 1 .. N /\ (k - 1) + 1 = k
    BY <1>2
  <2> QED BY <1>1, <2>1
<1>5. last # N => t[last + 1 + 1] = s[last + 1]
  <2>1. last # N => last + 1 \in 1 .. N
    BY <1>2
  <2> QED BY <1>1, <2>1
<1>6. last + 1 = Len(t) <=> last = N
  BY <1>1, <1>2
<1>7. (\A k \in n + 1 .. last + 1 : t[k] \in Blank) <=> \A k \in n .. last : s[k] \in Blank
  BY <1>3, <1>4
<1>8. (\A k \in n + 1 .. last + 1 : t[k] # Newline) <=> \A k \in n .. last : s[k] # Newline
  BY <1>3, <1>4
<1> QED BY <1>5, <1>6, <1>7, <1>8 DEF Trails, t

LEMMA InvisibleIs ==
  ASSUME NEW s \in Seq(Letters)
  PROVE  /\ Invisible(s) \in SUBSET (1 .. Len(s))
         /\ \A n \in 1 .. Len(s) : n \in Invisible(s) <=> \E last \in n .. Len(s) : Trails(s, n, last)
BY DEF Invisible, Trails

LEMMA InvisibleGrows ==
  ASSUME NEW c \in Letters, NEW s \in Seq(Letters)
  PROVE  /\ \A n \in 1 .. Len(s) : n + 1 \in Invisible(Before(c, s)) <=> n \in Invisible(s)
         /\ 1 \in Invisible(Before(c, s)) <=> c \in Blank /\ (AllBlank(s) \/ (c # Newline /\ BlankLine(s)))
<1> DEFINE N == Len(s)  t == Before(c, s)
<1>1. t \in Seq(Letters) /\ Len(t) = N + 1 /\ t[1] = c /\ \A n \in 1 .. N : t[n + 1] = s[n]
  BY BeforeIs
<1>2. N \in Nat
  OBVIOUS
<1>3. ASSUME NEW n \in 1 .. N, NEW last \in n .. N
      PROVE  Trails(t, n + 1, last + 1) <=> Trails(s, n, last)
  BY TrailsMove
<1> HIDE DEF t
<1>4. \A n \in 1 .. N + 1 : n \in Invisible(t) <=> \E last \in n .. N + 1 : Trails(t, n, last)
  BY <1>1, InvisibleIs
<1>5. ASSUME NEW n \in 1 .. N
      PROVE  n + 1 \in Invisible(t) <=> n \in Invisible(s)
  <2>1. n + 1 \in Invisible(t) <=> \E last \in n + 1 .. N + 1 : Trails(t, n + 1, last)
    <3>1. n + 1 \in 1 .. N + 1
      BY <1>2
    <3> QED BY <1>4, <3>1
  <2>2. n \in Invisible(s) <=> \E last \in n .. N : Trails(s, n, last)
    BY InvisibleIs
  <2>3. (\E last \in n + 1 .. N + 1 : Trails(t, n + 1, last)) => \E last \in n .. N : Trails(s, n, last)
    <3> SUFFICES ASSUME NEW last \in n + 1 .. N + 1, Trails(t, n + 1, last)
                 PROVE  \E m \in n .. N : Trails(s, n, m)
      OBVIOUS
    <3>1. last - 1 \in n .. N /\ (last - 1) + 1 = last
      BY <1>2
    <3>2. Trails(s, n, last - 1)
      BY <1>3, <3>1
    <3> QED BY <3>1, <3>2
  <2>4. (\E last \in n .. N : Trails(s, n, last)) => \E last \in n + 1 .. N + 1 : Trails(t, n + 1, last)
    <3> SUFFICES ASSUME NEW last \in n .. N, Trails(s, n, last)
                 PROVE  \E m \in n + 1 .. N + 1 : Trails(t, n + 1, m)
      OBVIOUS
    <3>1. last + 1 \in n + 1 .. N + 1
      BY <1>2
    <3>2. Trails(t, n + 1, last + 1)
      BY <1>3
    <3> QED BY <3>1, <3>2
  <2> QED BY <2>1, <2>2, <2>3, <2>4
<1>6. 1 \in Invisible(t) <=> \E last \in 1 .. N + 1 : Trails(t, 1, last)
  <2>1. 1 \in 1 .. N + 1
    BY <1>2
  <2> QED BY <1>4, <2>1
<1>7. Trails(t, 1, N + 1) <=> AllBlank(t)
  BY <1>1 DEF Trails, AllBlank
<1>8. ASSUME NEW last \in 1 .. N, c # Newline, Trails(t, 1, last), ~AllBlank(t)
      PROVE  BlankLine(t)
  <2>1. last # N + 1
    BY <1>2
  <2>2. t[last + 1] = Newline /\ \A k \in 1 .. last : t[k] \in Blank /\ t[k] # Newline
    BY <1>1, <1>8, <2>1 DEF Trails
  <2>3. last + 1 \in 1 .. Len(t) /\ (last + 1) - 1 = last
    BY <1>1, <1>2
  <2> QED BY <2>2, <2>3 DEF BlankLine
<1>9. ASSUME NEW last \in 1 .. N, c = Newline
      PROVE  ~Trails(t, 1, last)
  <2>1. last # N + 1 /\ 1 \in 1 .. last
    BY <1>2
  <2> QED BY <1>1, <1>9, <2>1 DEF Trails
<1>10. ASSUME c # Newline, BlankLine(t)
       PROVE  \E last \in 1 .. N + 1 : Trails(t, 1, last)
  <2>1. PICK m \in 1 .. N + 1 : t[m] = Newline /\ \A k \in 1 .. m - 1 : t[k] \in Blank /\ t[k] # Newline
    BY <1>1, <1>10 DEF BlankLine
  <2>2. m # 1
    BY <1>1, <1>10, <2>1
  <2>3. m - 1 \in 1 .. N + 1 /\ (m - 1) + 1 = m
    BY <1>2, <2>2
  <2>4. Trails(t, 1, m - 1)
    BY <2>1, <2>3 DEF Trails
  <2> QED BY <2>3, <2>4
<1>11. 1 \in Invisible(t) <=> AllBlank(t) \/ (c # Newline /\ BlankLine(t))
  <2>1. N + 1 \in 1 .. N + 1 /\ \A last \in 1 .. N + 1 : last = N + 1 \/ last \in 1 .. N
    BY <1>2
  <2>2. 1 \in Invisible(t) => AllBlank(t) \/ (c # Newline /\ BlankLine(t))
    BY <1>6, <1>7, <1>8, <1>9, <2>1
  <2>3. AllBlank(t) => 1 \in Invisible(t)
    BY <1>6, <1>7, <2>1
  <2>4. c # Newline /\ BlankLine(t) => 1 \in Invisible(t)
    BY <1>6, <1>10
  <2> QED BY <2>2, <2>3, <2>4
<1>12. /\ AllBlank(t) <=> c \in Blank /\ AllBlank(s)
       /\ BlankLine(t) <=> c = Newline \/ (c \in Blank /\ BlankLine(s))
  BY BlanksGrow DEF t
<1> QED BY <1>5, <1>11, <1>12 DEF t

LEMMA PrintedGrows ==
  ASSUME NEW c \in Letters, NEW s \in Seq(Letters)
  PROVE  /\ Printed(s) \in Seq(Letters)
         /\ Printed(Before(c, s)) = IF c \in Blank /\ (AllBlank(s) \/ (c # Newline /\ BlankLine(s)))
                                    THEN Printed(s) ELSE Before(c, Printed(s))
<1> DEFINE D == Invisible(s)  E == Invisible(Before(c, s))
<1>1. D \in SUBSET Nat /\ E \in SUBSET Nat
  BY DEF Invisible
<1>2. /\ \A n \in 1 .. Len(s) : n + 1 \in E <=> n \in D
      /\ 1 \in E <=> c \in Blank /\ (AllBlank(s) \/ (c # Newline /\ BlankLine(s)))
  BY InvisibleGrows
<1>3. Printed(s) = Without(s, D) /\ Printed(Before(c, s)) = Without(Before(c, s), E)
  BY DEF Printed
<1> HIDE DEF D, E
<1>4. Without(s, D) \in Seq(Letters) /\ Without(Before(c, s), E) = IF 1 \in E THEN Without(s, D) ELSE Before(c, Without(s, D))
  BY <1>1, <1>2, WithoutGrows
<1> QED BY <1>2, <1>3, <1>4

-----------------------------------------------------------------------------
(* The lines that are compared are those of what is printed                  *)

Agrees(s) ==
  /\ Normalized(s) \in Seq(Seq(Letters)) /\ Printed(s) \in Seq(Letters)
  /\ Normalized(s) = <<>> <=> AllBlank(s)
  /\ Normalized(s) # <<>> => (Head(Normalized(s)) = <<>> <=> BlankLine(s))
  /\ Normalized(s) = <<>> => Printed(s) = <<>>
  /\ Normalized(s) # <<>> => Printed(s) # <<>> /\ Normalized(s) = Lines(Printed(s))

LEMMA AgreesAtFirst == Agrees(<<>>)
<1> DEFINE e == <<>>  D == Invisible(e)
<1>1. e \in Seq(Letters) /\ Len(e) = 0 /\ e \in Seq(Seq(Letters))
  OBVIOUS
<1>2. D \in SUBSET Nat
  BY DEF Invisible
<1>3. Printed(e) = Without(e, D)
  BY DEF Printed
<1> HIDE DEF D
<1>4. Printed(e) = e
  BY <1>2, <1>3, WithoutNothing
<1>5. Normalized(e) = e
  BY NothingNormalized
<1>6. AllBlank(e)
  BY <1>1 DEF AllBlank
<1> QED BY <1>1, <1>4, <1>5, <1>6 DEF Agrees

LEMMA LongerHead ==
  ASSUME NEW c \in Letters, NEW ls \in Pages
  PROVE  /\ Longer(c, ls) \in Pages /\ Longer(c, ls) # <<>>
         /\ Head(Longer(c, ls)) = IF c = Newline THEN <<>> ELSE Before(c, Head(ls))
         /\ Tail(Longer(c, ls)) = IF c = Newline THEN ls ELSE Tail(ls)
<1>1. Head(ls) \in Seq(Letters) /\ Tail(ls) \in Seq(Seq(Letters)) /\ ls \in Seq(Seq(Letters))
  BY PageIs DEF Pages
<1>2. Before(c, Head(ls)) \in Seq(Letters)
  BY <1>1, BeforeIs
<1>3. <<>> \in Seq(Letters)
  OBVIOUS
<1>4. CASE c = Newline
  <2>1. Longer(c, ls) = Over(<<>>, ls)
    BY <1>4 DEF Longer
  <2>2. Over(<<>>, ls) \in Pages /\ Head(Over(<<>>, ls)) = <<>> /\ Tail(Over(<<>>, ls)) = ls
    BY <1>1, <1>3, OverIs
  <2> QED BY <1>4, <2>1, <2>2 DEF Pages
<1>5. CASE c # Newline
  <2> DEFINE f == Before(c, Head(ls))  r == Tail(ls)
  <2>1. Longer(c, ls) = Over(f, r)
    BY <1>5 DEF Longer
  <2> HIDE DEF f, r
  <2>2. Over(f, r) \in Pages /\ Head(Over(f, r)) = f /\ Tail(Over(f, r)) = r
    BY <1>1, <1>2, OverIs DEF f, r
  <2> QED BY <1>5, <2>1, <2>2 DEF Pages, f, r
<1> QED BY <1>4, <1>5

LEMMA AgreesGrows ==
  ASSUME NEW c \in Letters, NEW s \in Seq(Letters), Agrees(s)
  PROVE  Agrees(Before(c, s))
<1> DEFINE t == Before(c, s)
           ns == Normalized(s)  nt == Normalized(t)  ps == Printed(s)  pt == Printed(t)
           blankS == AllBlank(s)  blankT == AllBlank(t)  openS == BlankLine(s)  openT == BlankLine(t)
<1>1. t \in Seq(Letters)
  BY BeforeIs
<1>2. ns \in Seq(Seq(Letters)) /\ nt = IF Drops(c, s) THEN ns ELSE Puts(c, ns)
  BY NormalizedGrows
<1>3. ps \in Seq(Letters) /\ pt = IF c \in Blank /\ (blankS \/ (c # Newline /\ openS)) THEN ps ELSE Before(c, ps)
  BY PrintedGrows
<1>4. (blankT <=> c \in Blank /\ blankS) /\ (openT <=> c = Newline \/ (c \in Blank /\ openS))
  BY BlanksGrow
<1>5. /\ ns = <<>> <=> blankS
      /\ ns # <<>> => (Head(ns) = <<>> <=> openS)
      /\ ns = <<>> => ps = <<>>
      /\ ns # <<>> => ps # <<>> /\ ns = Lines(ps)
  BY DEF Agrees
<1>6. Drops(c, s) => c \in Blank /\ c # Newline /\ openS
  <2> SUFFICES ASSUME Drops(c, s) PROVE c \in Blank /\ c # Newline /\ openS
    OBVIOUS
  <2>1. Return \in Blank /\ Return # Newline
    BY ComparerAssumption DEF Return, Newline
  <2>2. 1 \in 1 .. Len(s) /\ s[1] = Newline /\ \A k \in 1 .. 1 - 1 : FALSE
    BY DEF Drops
  <2> QED BY <2>1, <2>2 DEF Drops, BlankLine
<1>7. Newline \in Blank
  BY ComparerAssumption
<1> DEFINE Good ==
             /\ nt \in Seq(Seq(Letters)) /\ pt \in Seq(Letters)
             /\ nt = <<>> <=> blankT
             /\ nt # <<>> => (Head(nt) = <<>> <=> openT)
             /\ nt = <<>> => pt = <<>>
             /\ nt # <<>> => pt # <<>> /\ nt = Lines(pt)
<1>8. Good => Agrees(t)
  BY DEF Agrees
<1> HIDE DEF t, ns, nt, ps, pt, blankS, blankT, openS, openT
<1>9. CASE Drops(c, s)
  <2>1. Good
    BY <1>2, <1>3, <1>4, <1>5, <1>6, <1>9
  <2> HIDE DEF Good
  <2> QED BY <1>8, <2>1 DEF t
<1>10. CASE ~Drops(c, s) /\ ns = <<>> /\ c \in Blank
  <2>1. Good
    BY <1>2, <1>3, <1>4, <1>5, <1>10 DEF Puts
  <2> HIDE DEF Good
  <2> QED BY <1>8, <2>1 DEF t
<1>11. CASE ~Drops(c, s) /\ ns = <<>> /\ c \notin Blank
  <2> DEFINE f == Before(c, <<>>)  e == <<>>  es == <<>>
  <2>1. e \in Seq(Letters) /\ es \in Seq(Seq(Letters)) /\ f = Before(c, e)
    OBVIOUS
  <2>2. f \in Seq(Letters) /\ f # <<>>
    BY <2>1, BeforeIs
  <2>3. nt = Over(f, es) /\ pt = f
    BY <1>2, <1>3, <1>5, <1>11 DEF Puts
  <2>4. Lines(e) = Over(e, es)
    BY LinesOfNothing
  <2>5. Over(e, es) \in Pages /\ Head(Over(e, es)) = e /\ Tail(Over(e, es)) = es
    BY <2>1, OverIs
  <2>6. Lines(f) = Longer(c, Lines(e))
    BY <2>1, LinesGrow
  <2> HIDE DEF f, e, es
  <2>7. Longer(c, Over(e, es)) = Over(f, es)
    BY <1>7, <1>11, <2>1, <2>5 DEF Longer
  <2>8. Over(f, es) \in Pages /\ Head(Over(f, es)) = f
    BY <2>1, <2>2, OverIs
  <2>9. nt \in Seq(Seq(Letters)) /\ nt # <<>> /\ Head(nt) # <<>>
    BY <2>2, <2>3, <2>8 DEF Pages
  <2>10. nt = Lines(pt)
    BY <2>3, <2>4, <2>6, <2>7
  <2>11. Good
    BY <1>4, <1>7, <1>11, <2>2, <2>3, <2>9, <2>10
  <2> HIDE DEF Good
  <2> QED BY <1>8, <2>11 DEF t
<1>12. CASE ~Drops(c, s) /\ ns # <<>> /\ c \in Blank /\ c # Newline /\ openS
  <2>1. Good
    BY <1>2, <1>3, <1>4, <1>5, <1>12 DEF Puts
  <2> HIDE DEF Good
  <2> QED BY <1>8, <2>1 DEF t
<1>13. CASE ~Drops(c, s) /\ ns # <<>> /\ ~(c \in Blank /\ c # Newline /\ openS)
  <2>1. ns \in Pages
    BY <1>2, <1>13 DEF Pages
  <2>2. nt = Longer(c, ns)
    BY <1>2, <1>5, <1>13 DEF Puts
  <2>3. pt = Before(c, ps)
    BY <1>3, <1>5, <1>13
  <2>4. pt \in Seq(Letters) /\ pt # <<>>
    BY <1>3, <2>3, BeforeIs
  <2>5. /\ nt \in Pages /\ nt # <<>>
        /\ Head(nt) = IF c = Newline THEN <<>> ELSE Before(c, Head(ns))
    BY <2>1, <2>2, LongerHead
  <2>6. Head(ns) \in Seq(Letters)
    BY <2>1, PageIs
  <2>7. Before(c, Head(ns)) # <<>>
    BY <2>6, BeforeIs
  <2>8. Lines(Before(c, ps)) = Longer(c, Lines(ps))
    BY <1>3, LinesGrow
  <2>9. nt = Lines(pt)
    BY <1>5, <1>13, <2>2, <2>3, <2>8
  <2>10. Head(nt) = <<>> <=> openT
    BY <1>4, <1>13, <2>5, <2>7
  <2>11. ~blankT
    BY <1>4, <1>5, <1>13
  <2>12. nt \in Seq(Seq(Letters))
    BY <2>5 DEF Pages
  <2>13. Good
    BY <2>4, <2>5, <2>9, <2>10, <2>11, <2>12
  <2> HIDE DEF Good
  <2> QED BY <1>8, <2>13 DEF t
<1> QED BY <1>8, <1>9, <1>10, <1>11, <1>12, <1>13 DEF t

LEMMA AllAgree == \A s \in Seq(Letters) : Agrees(s)
<1> SUFFICES ASSUME NEW all \in Seq(Letters)
             PROVE  Agrees(all)
  OBVIOUS
<1> DEFINE N == Len(all)
           P == {n \in 0 .. N : \A s \in Seq(Letters) : Len(s) = n => Agrees(s)}
<1>1. N \in Nat
  OBVIOUS
<1>2. 0 \in P
  <2>1. \A s \in Seq(Letters) : Len(s) = 0 => s = <<>>
    OBVIOUS
  <2> QED BY <1>1, <2>1, AgreesAtFirst
<1>3. ASSUME NEW n \in 1 .. N, n - 1 \in P
      PROVE  n \in P
  <2>1. ASSUME NEW s \in Seq(Letters), Len(s) = n
        PROVE  Agrees(s)
    <3>1. s # <<>>
      BY <1>1, <2>1
    <3> DEFINE c == s[1]  r == Tail(s)
    <3>2. c \in Letters /\ r \in Seq(Letters) /\ Len(r) = n - 1 /\ s = Before(c, r)
      BY <2>1, <3>1, FirstAndRest
    <3>3. Agrees(r)
      BY <1>3, <3>2
    <3> HIDE DEF c, r
    <3>4. Agrees(Before(c, r))
      BY <3>2, <3>3, AgreesGrows
    <3> QED BY <3>2, <3>4
  <2> QED BY <1>1, <2>1
<1> HIDE DEF P
<1>4. 0 .. N \subseteq P
  BY <1>1, <1>2, <1>3, UpTo
<1>5. N \in P
  BY <1>1, <1>4
<1> QED BY <1>5 DEF P

-----------------------------------------------------------------------------
(* Two texts of the same lines are the same text                             *)

LEMMA LongerOnce ==
  ASSUME NEW c \in Letters, NEW d \in Letters, NEW A \in Pages, NEW B \in Pages,
         Longer(c, A) = Longer(d, B)
  PROVE  c = d /\ A = B
<1> DEFINE f == Head(A)  g == Head(B)
<1>1. f \in Seq(Letters) /\ g \in Seq(Letters)
  BY PageIs
<1>2. A = Over(f, Tail(A)) /\ B = Over(g, Tail(B))
  BY PageIs
<1>3. /\ Before(c, f) # <<>> /\ Before(c, f)[1] = c /\ Tail(Before(c, f)) = f
      /\ Before(d, g) # <<>> /\ Before(d, g)[1] = d /\ Tail(Before(d, g)) = g
  BY <1>1, BeforeIs
<1> HIDE DEF f, g
<1>4. /\ Head(Longer(c, A)) = IF c = Newline THEN <<>> ELSE Before(c, f)
      /\ Tail(Longer(c, A)) = IF c = Newline THEN A ELSE Tail(A)
  BY LongerHead DEF f
<1>5. /\ Head(Longer(d, B)) = IF d = Newline THEN <<>> ELSE Before(d, g)
      /\ Tail(Longer(d, B)) = IF d = Newline THEN B ELSE Tail(B)
  BY LongerHead DEF g
<1>6. CASE c = Newline /\ d = Newline
  BY <1>4, <1>5, <1>6
<1>7. CASE c # Newline /\ d # Newline
  <2>1. Before(c, f) = Before(d, g) /\ Tail(A) = Tail(B)
    BY <1>4, <1>5, <1>7
  <2>2. c = d /\ f = g
    BY <1>3, <2>1
  <2> QED BY <1>2, <2>1, <2>2
<1>8. CASE (c = Newline /\ d # Newline) \/ (c # Newline /\ d = Newline)
  BY <1>3, <1>4, <1>5, <1>8
<1> QED BY <1>6, <1>7, <1>8

LEMMA LongerIsNotEmpty ==
  ASSUME NEW c \in Letters, NEW A \in Pages
  PROVE  Longer(c, A) # Over(<<>>, <<>>)
<1> DEFINE f == Head(A)  e == <<>>  es == <<>>
<1>1. f \in Seq(Letters) /\ e \in Seq(Letters) /\ es \in Seq(Seq(Letters))
  BY PageIs
<1>2. Before(c, f) # <<>>
  BY <1>1, BeforeIs
<1>3. Head(Over(e, es)) = e /\ Tail(Over(e, es)) = es
  BY <1>1, OverIs
<1>4. A # <<>>
  BY DEF Pages
<1> HIDE DEF f
<1>5. /\ Head(Longer(c, A)) = IF c = Newline THEN <<>> ELSE Before(c, f)
      /\ Tail(Longer(c, A)) = IF c = Newline THEN A ELSE Tail(A)
  BY LongerHead DEF f
<1> QED BY <1>2, <1>3, <1>4, <1>5

SameText(s) == \A t \in Seq(Letters) : Lines(s) = Lines(t) => s = t

LEMMA SameTextGrows ==
  ASSUME NEW c \in Letters, NEW s \in Seq(Letters), SameText(s)
  PROVE  SameText(Before(c, s))
<1> SUFFICES ASSUME NEW t \in Seq(Letters), Lines(Before(c, s)) = Lines(t)
             PROVE  Before(c, s) = t
  BY DEF SameText
<1>1. Lines(s) \in Pages /\ Lines(Before(c, s)) = Longer(c, Lines(s))
  BY LinesGrow
<1>2. t # <<>>
  BY <1>1, LongerIsNotEmpty, LinesOfNothing
<1> DEFINE d == t[1]  r == Tail(t)
<1>3. d \in Letters /\ r \in Seq(Letters) /\ t = Before(d, r)
  BY <1>2, FirstAndRest
<1> HIDE DEF d, r
<1>4. Lines(r) \in Pages /\ Lines(Before(d, r)) = Longer(d, Lines(r))
  BY <1>3, LinesGrow
<1>5. Longer(c, Lines(s)) = Longer(d, Lines(r))
  BY <1>1, <1>3, <1>4
<1>6. c = d /\ Lines(s) = Lines(r)
  BY <1>1, <1>3, <1>4, <1>5, LongerOnce
<1>7. s = r
  BY <1>3, <1>6 DEF SameText
<1> QED BY <1>3, <1>6, <1>7

LEMMA SameTextAtFirst == SameText(<<>>)
<1> SUFFICES ASSUME NEW t \in Seq(Letters), Lines(<<>>) = Lines(t), t # <<>>
             PROVE  FALSE
  BY DEF SameText
<1> DEFINE d == t[1]  r == Tail(t)
<1>1. d \in Letters /\ r \in Seq(Letters) /\ t = Before(d, r)
  BY FirstAndRest
<1> HIDE DEF d, r
<1>2. Lines(r) \in Pages /\ Lines(Before(d, r)) = Longer(d, Lines(r))
  BY <1>1, LinesGrow
<1>3. Longer(d, Lines(r)) # Over(<<>>, <<>>)
  BY <1>1, <1>2, LongerIsNotEmpty
<1> QED BY <1>1, <1>2, <1>3, LinesOfNothing

LEMMA LinesTellTexts == \A s \in Seq(Letters) : SameText(s)
<1> SUFFICES ASSUME NEW all \in Seq(Letters)
             PROVE  SameText(all)
  OBVIOUS
<1> DEFINE N == Len(all)
           P == {n \in 0 .. N : \A s \in Seq(Letters) : Len(s) = n => SameText(s)}
<1>1. N \in Nat
  OBVIOUS
<1>2. 0 \in P
  <2>1. \A s \in Seq(Letters) : Len(s) = 0 => s = <<>>
    OBVIOUS
  <2> QED BY <1>1, <2>1, SameTextAtFirst
<1>3. ASSUME NEW n \in 1 .. N, n - 1 \in P
      PROVE  n \in P
  <2>1. ASSUME NEW s \in Seq(Letters), Len(s) = n
        PROVE  SameText(s)
    <3>1. s # <<>>
      BY <1>1, <2>1
    <3> DEFINE c == s[1]  r == Tail(s)
    <3>2. c \in Letters /\ r \in Seq(Letters) /\ Len(r) = n - 1 /\ s = Before(c, r)
      BY <2>1, <3>1, FirstAndRest
    <3>3. SameText(r)
      BY <1>3, <3>2
    <3> HIDE DEF c, r
    <3>4. SameText(Before(c, r))
      BY <3>2, <3>3, SameTextGrows
    <3> QED BY <3>2, <3>4
  <2> QED BY <1>1, <2>1
<1> HIDE DEF P
<1>4. 0 .. N \subseteq P
  BY <1>1, <1>2, <1>3, UpTo
<1>5. N \in P
  BY <1>1, <1>4
<1> QED BY <1>5 DEF P

\* OutputComparer accepts an output exactly when what it prints, but for blanks
\* at the end of a line or of the text, is what was expected (runner.py:131-145).
THEOREM ComparerIsRight == Compare => ComparesWhatIsPrinted
<1> DEFINE s == texts[1]  t == texts[2]
<1> SUFFICES ASSUME Compare
             PROVE  Accepted(s, t) <=> Printed(s) = Printed(t)
  BY DEF ComparesWhatIsPrinted
<1>1. s \in Seq(Letters) /\ t \in Seq(Letters)
  BY ComparerAssumption DEF Compare
<1>2. Agrees(s) /\ Agrees(t)
  BY <1>1, AllAgree
<1>3. Accepted(s, t) <=> Normalized(s) = Normalized(t)
  BY DEF Accepted
<1> HIDE DEF s, t
<1>4. Normalized(s) = Normalized(t) => Printed(s) = Printed(t)
  <2> SUFFICES ASSUME Normalized(s) = Normalized(t) PROVE Printed(s) = Printed(t)
    OBVIOUS
  <2>1. CASE Normalized(s) = <<>>
    BY <1>2, <2>1 DEF Agrees
  <2>2. CASE Normalized(s) # <<>>
    <3>1. Lines(Printed(s)) = Lines(Printed(t)) /\ Printed(s) \in Seq(Letters) /\ Printed(t) \in Seq(Letters)
      BY <1>2, <2>2 DEF Agrees
    <3>2. SameText(Printed(s))
      BY <3>1, LinesTellTexts
    <3> QED BY <3>1, <3>2 DEF SameText
  <2> QED BY <2>1, <2>2
<1>5. Printed(s) = Printed(t) => Normalized(s) = Normalized(t)
  BY <1>2 DEF Agrees
<1> QED BY <1>3, <1>4, <1>5
=============================================================================
