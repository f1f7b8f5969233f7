----------------------------- MODULE AiTaskProofs -----------------------------
(***************************************************************************)
(* What holds of AiTask for any number of tasks, requests, streams, I/O    *)
(* errors and crashes: ends are final, a cancel is honoured, no task is    *)
(* abandoned, every answer is billed, a stream tells the end there was,    *)
(* and all of it together is what TaskLife promises.                       *)
(*                                                                         *)
(* Until a reset clears the tables of the module (Calm), a row never goes  *)
(* and an id is given once; then a task has at most one run, a run that is *)
(* alive is in _tasks, and whoever ends the task has waited for it.        *)
(*                                                                         *)
(* Before that, for any number of model calls: the summary Billing makes   *)
(* of them bills each once.                                                *)
(***************************************************************************)
EXTENDS AiTask, Billing, FiniteSetTheorems, WellFoundedInduction, TLAPS

-----------------------------------------------------------------------------
(* Induction over data, from the least element of a set of naturals          *)

LEMMA LeastNatural ==
  ASSUME NEW T \in SUBSET Nat, T # {}
  PROVE  \E n \in T : \A m \in T : n <= m
<1> DEFINE R == OpToRel(<, Nat)
<1>1. IsWellFoundedOn(R, Nat)
  BY NatLessThanWellFounded
<1>2. \A y, x \in Nat : <<y, x>> \in R <=> y < x
  BY DEF OpToRel
<1> HIDE DEF R
<1>3. PICK n \in T : \A m \in T : ~ (<<m, n>> \in R)
  BY <1>1, WFMin
<1>4. \A m \in T : n <= m
  <2>1. \A m \in T : m \in Nat /\ n \in Nat /\ ~(m < n)
    BY <1>2, <1>3
  <2> QED BY <2>1
<1> QED BY <1>4

\* A set of numbers up to N that has 0, and n if it has n - 1, has them all.
LEMMA UpTo ==
  ASSUME NEW N \in Nat, NEW P, 0 \in P, \A n \in 1 .. N : n - 1 \in P => n \in P
  PROVE  0 .. N \subseteq P
<1> DEFINE T == {n \in 0 .. N : n \notin P}
<1>1. CASE T = {}
  BY <1>1
<1>2. CASE T # {}
  <2>1. T \in SUBSET Nat
    OBVIOUS
  <2>2. PICK n \in T : \A m \in T : n <= m
    <3> HIDE DEF T
    <3> QED BY <1>2, <2>1, LeastNatural
  <2>3. n \in 1 .. N
    BY <2>2
  <2>4. n - 1 \in P
    BY <2>2, <2>3
  <2> QED BY <2>2, <2>3, <2>4
<1> QED BY <1>1, <1>2

\* What is computed step by step is so in one way only.
LEMMA OneWay ==
  ASSUME NEW N \in Nat, NEW g, NEW h, g[0] = h[0],
         \A n \in 1 .. N : g[n - 1] = h[n - 1] => g[n] = h[n]
  PROVE  \A n \in 0 .. N : g[n] = h[n]
<1> DEFINE P == {n \in 0 .. N : g[n] = h[n]}
<1>1. 0 \in P /\ \A n \in 1 .. N : n - 1 \in P => n \in P
  OBVIOUS
<1> HIDE DEF P
<1>2. 0 .. N \subseteq P
  BY <1>1, UpTo
<1> QED BY <1>2 DEF P

-----------------------------------------------------------------------------
(* Sums *)

LEMMA SumsExist ==
  ASSUME NEW N \in Nat, NEW ns \in [1 .. N -> Int]
  PROVE  \E g \in [0 .. N -> Int] : g[0] = 0 /\ \A n \in 1 .. N : g[n] = g[n - 1] + ns[n]
<1> DEFINE Fits(m, g) == g[0] = 0 /\ \A n \in 1 .. m : g[n] = g[n - 1] + ns[n]
           P == {m \in 0 .. N : \E g \in [0 .. m -> Int] : Fits(m, g)}
<1>1. 0 \in P
  <2> DEFINE g == [n \in 0 .. 0 |-> 0]
  <2>1. g \in [0 .. 0 -> Int] /\ Fits(0, g)
    OBVIOUS
  <2> HIDE DEF g, Fits
  <2> QED BY <2>1
<1>2. ASSUME NEW m \in 1 .. N, m - 1 \in P
      PROVE  m \in P
  <2>1. PICK g \in [0 .. m - 1 -> Int] : Fits(m - 1, g)
    BY <1>2
  <2> DEFINE h == [n \in 0 .. m |-> IF n = m THEN g[m - 1] + ns[m] ELSE g[n]]
  <2>2. g[m - 1] \in Int /\ ns[m] \in Int
    BY <2>1
  <2>3. h \in [0 .. m -> Int]
    BY <2>1, <2>2
  <2>4. ASSUME NEW n \in 1 .. m
        PROVE  h[n] = h[n - 1] + ns[n]
    <3>1. CASE n = m
      BY <3>1
    <3>2. CASE n # m
      <4>1. n \in 1 .. m - 1 /\ h[n] = g[n] /\ h[n - 1] = g[n - 1]
        BY <3>2
      <4> QED BY <2>1, <4>1
    <3> QED BY <3>1, <3>2
  <2>5. h[0] = 0
    BY <2>1
  <2>6. Fits(m, h)
    BY <2>4, <2>5
  <2> HIDE DEF h, Fits
  <2> QED BY <2>3, <2>6
<1> HIDE DEF P
<1>3. \A n \in 1 .. N : n - 1 \in P => n \in P
  BY <1>2
<1>4. 0 .. N \subseteq P
  BY <1>1, <1>3, UpTo
<1>5. N \in P
  BY <1>4
<1> QED BY <1>5 DEF P

LEMMA NumbersInARow ==
  ASSUME NEW N \in Nat, NEW ns \in [1 .. N -> Int]
  PROVE  ns \in Seq(Int) /\ Len(ns) = N
OBVIOUS

LEMMA SumIs ==
  ASSUME NEW ns \in Seq(Int), NEW g \in [0 .. Len(ns) -> Int], g[0] = 0,
         \A n \in 1 .. Len(ns) : g[n] = g[n - 1] + ns[n]
  PROVE  Added(ns) = g[Len(ns)]
<1> DEFINE Equation(f) == f = [n \in 0 .. Len(ns) |-> IF n = 0 THEN 0 ELSE f[n - 1] + ns[n]]
           s == CHOOSE f : Equation(f)
<1>1. Len(ns) \in Nat
  OBVIOUS
<1>2. Added(ns) = s[Len(ns)]
  BY DEF Added
<1>3. Equation(g)
  OBVIOUS
<1>4. Equation(s)
  BY <1>3
<1> HIDE DEF s
<1>5. s[0] = 0 /\ \A n \in 1 .. Len(ns) : s[n] = s[n - 1] + ns[n]
  BY <1>1, <1>4
<1>6. s[0] = g[0] /\ \A n \in 1 .. Len(ns) : s[n - 1] = g[n - 1] => s[n] = g[n]
  BY <1>5
<1>7. \A n \in 0 .. Len(ns) : s[n] = g[n]
  BY <1>1, <1>6, OneWay, ZenonT(30)
<1> QED BY <1>1, <1>2, <1>7

LEMMA Sums ==
  ASSUME NEW ns \in Seq(Int)
  PROVE  \E g \in [0 .. Len(ns) -> Int] :
           /\ g[0] = 0 /\ \A n \in 1 .. Len(ns) : g[n] = g[n - 1] + ns[n]
           /\ Added(ns) = g[Len(ns)]
<1>1. Len(ns) \in Nat /\ ns \in [1 .. Len(ns) -> Int]
  OBVIOUS
<1>2. PICK g \in [0 .. Len(ns) -> Int] : g[0] = 0 /\ \A n \in 1 .. Len(ns) : g[n] = g[n - 1] + ns[n]
  BY <1>1, SumsExist
<1> QED BY <1>2, SumIs

LEMMA SumOfSums ==
  ASSUME NEW ns \in Seq(Int), NEW ms \in Seq(Int), Len(ns) = Len(ms),
         NEW ks \in Seq(Int), Len(ks) = Len(ns), \A n \in 1 .. Len(ns) : ks[n] = ns[n] + ms[n]
  PROVE  Added(ks) = Added(ns) + Added(ms)
<1>1. PICK g \in [0 .. Len(ns) -> Int] :
           /\ g[0] = 0 /\ \A n \in 1 .. Len(ns) : g[n] = g[n - 1] + ns[n]
           /\ Added(ns) = g[Len(ns)]
  BY Sums
<1>2. PICK h \in [0 .. Len(ns) -> Int] :
           /\ h[0] = 0 /\ \A n \in 1 .. Len(ns) : h[n] = h[n - 1] + ms[n]
           /\ Added(ms) = h[Len(ns)]
  BY Sums
<1> DEFINE k == [n \in 0 .. Len(ns) |-> g[n] + h[n]]
<1>3. Len(ns) \in Nat /\ k \in [0 .. Len(ks) -> Int] /\ k[0] = 0 /\ k[Len(ks)] = Added(ns) + Added(ms)
  BY <1>1, <1>2
<1>4. ASSUME NEW n \in 1 .. Len(ks)
      PROVE  k[n] = k[n - 1] + ks[n]
  <2>1. n \in 1 .. Len(ns) /\ n \in 0 .. Len(ns) /\ n - 1 \in 0 .. Len(ns)
    BY <1>3
  <2>2. ns[n] \in Int /\ ms[n] \in Int /\ g[n - 1] \in Int /\ h[n - 1] \in Int
    <3>1. Len(ns) \in Nat /\ n \in 1 .. Len(ms)
      BY <2>1
    <3>2. ns \in [1 .. Len(ns) -> Int] /\ ms \in [1 .. Len(ms) -> Int]
      OBVIOUS
    <3> HIDE DEF k
    <3> QED BY <1>1, <1>2, <2>1, <3>1, <3>2
  <2>3. g[n] = g[n - 1] + ns[n] /\ h[n] = h[n - 1] + ms[n] /\ ks[n] = ns[n] + ms[n]
    <3>1. Len(ns) \in Nat /\ n \in 1 .. Len(ms)
      BY <2>1
    <3>2. ns \in [1 .. Len(ns) -> Int] /\ ms \in [1 .. Len(ms) -> Int]
      OBVIOUS
    <3> HIDE DEF k
    <3> QED BY <1>1, <1>2, <2>1, <3>1, <3>2
  <2>4. k[n] = g[n] + h[n] /\ k[n - 1] = g[n - 1] + h[n - 1]
    BY <2>1
  <2> HIDE DEF k
  <2> QED BY <2>2, <2>3, <2>4
<1>5. Added(ks) = k[Len(ks)]
  <2> HIDE DEF k
  <2> QED BY <1>3, <1>4, SumIs
<1> QED BY <1>3, <1>5

-----------------------------------------------------------------------------
(* One call of the model, and summaries of calls                             *)

Answers == {BuildUsage(cfg, raw, at, guessIn, guessOut) :
              cfg \in Configs, raw \in Raws, at \in Times, guessIn, guessOut \in Guesses}

LEMMA BuildUsageIs ==
  ASSUME NEW u \in Answers
  PROVE  /\ u.calls = <<>> /\ u.input \in Nat /\ u.output \in Nat /\ u.total = u.input + u.output
         /\ u.source = "official" => ~u.estimated /\ u.hit + u.miss = u.input
<1>1. PICK cfg \in Configs, raw \in Raws, at \in Times, guessIn, guessOut \in Guesses :
        u = BuildUsage(cfg, raw, at, guessIn, guessOut)
  BY DEF Answers
<1> DEFINE t == Tokens(raw, guessIn, guessOut)  p == Priced(cfg, raw, t, at)
<1>2. /\ raw.input \in Amounts /\ raw.output \in Amounts /\ raw.hit \in Amounts /\ raw.miss \in Amounts
      /\ guessIn \in Nat /\ guessOut \in Nat
  BY BillingAssumption
<1>3. t.input \in Nat /\ t.output \in Nat
  BY <1>2 DEF Tokens, Amounts, Cached, Known
<1>4. p.source = "official" => Split(raw, t)
  BY DEF Priced
<1> HIDE DEF p, t
<1>5. /\ u.calls = <<>> /\ u.input = t.input /\ u.output = t.output /\ u.total = t.input + t.output
      /\ u.source = p.source /\ u.estimated = t.estimated
      /\ Cached(raw) => u.hit = raw.hit /\ u.miss = raw.miss
  BY <1>1 DEF BuildUsage, p, t
<1> QED BY <1>3, <1>4, <1>5 DEF Split

LEMMA CallsOfOne ==
  ASSUME NEW u \in Answers
  PROVE  Calls(u) = <<u>>
<1>1. u.calls = <<>> /\ u.input # None
  BY BuildUsageIs DEF None
<1>2. NoUsage.input = None
  BY DEF NoUsage
<1>3. u # NoUsage
  BY <1>1, <1>2
<1> QED BY <1>1, <1>3 DEF Calls

LEMMA SummaryIs ==
  ASSUME NEW cs, NEW currency
  PROVE  LET s == Summary(cs, currency) IN
         /\ s.calls = cs /\ s.currency = cs[Len(cs)].currency
         /\ s.total = Total(cs, LAMBDA c : c.total) /\ s.cost = SumOfCosts(cs, currency)
BY DEF Summary

LEMMA CallsOfSummary ==
  ASSUME NEW cs, cs # <<>>, NEW currency
  PROVE  Calls(Summary(cs, currency)) = cs
<1>1. Summary(cs, currency).calls = cs
  BY SummaryIs
<1>2. NoUsage.calls = <<>>
  BY DEF NoUsage
<1> QED BY <1>1, <1>2 DEF Calls

\* The summary of some calls is priced in the currency of the last one.
SummaryOf(cs) == IF cs = <<>> THEN NoUsage ELSE Summary(cs, cs[Len(cs)].currency)

LEMMA BillIs ==
  ASSUME NEW cs \in Seq(Answers)
  PROVE  Calls(SummaryOf(cs)) = cs /\ (cs # <<>> => SummaryOf(cs).currency = cs[Len(cs)].currency)
<1>1. CASE cs = <<>>
  BY <1>1 DEF SummaryOf, Calls
<1>2. CASE cs # <<>>
  BY <1>2, CallsOfSummary, SummaryIs DEF SummaryOf
<1> QED BY <1>1, <1>2

\* One more call
LEMMA BillGrows ==
  ASSUME NEW cs \in Seq(Answers), NEW u \in Answers
  PROVE  MergeUsage(SummaryOf(cs), u) = SummaryOf(Append(cs, u))
<1> DEFINE ds == Append(cs, u)
<1>1. ds # <<>> /\ ds[Len(ds)] = u /\ ds = cs \o <<u>>
  OBVIOUS
<1> HIDE DEF ds
<1>2. MergeUsage(SummaryOf(cs), u) = Summary(ds, u.currency)
  BY <1>1, BillIs, CallsOfOne DEF MergeUsage
<1> QED BY <1>1, <1>2 DEF SummaryOf, ds

LEMMA MergedIs ==
  ASSUME NEW cs \in Seq(Answers)
  PROVE  Merged(cs) = SummaryOf(cs)
<1> DEFINE N == Len(cs)
           Equation(f) == f = [n \in 0 .. N |-> IF n = 0 THEN NoUsage ELSE MergeUsage(f[n - 1], cs[n])]
           m == CHOOSE f : Equation(f)
           g == [n \in 0 .. N |-> SummaryOf(SubSeq(cs, 1, n))]
<1>1. N \in Nat /\ Merged(cs) = m[N]
  BY DEF Merged
<1>2. g[0] = NoUsage
  BY DEF SummaryOf
<1>3. ASSUME NEW n \in 1 .. N
      PROVE  g[n] = MergeUsage(g[n - 1], cs[n])
  <2> DEFINE ds == SubSeq(cs, 1, n - 1)
  <2>1. ds \in Seq(Answers) /\ cs[n] \in Answers /\ SubSeq(cs, 1, n) = Append(ds, cs[n])
    OBVIOUS
  <2>2. g[n] = SummaryOf(SubSeq(cs, 1, n)) /\ g[n - 1] = SummaryOf(ds)
    OBVIOUS
  <2> HIDE DEF ds, g
  <2> QED BY <2>1, <2>2, BillGrows
<1>4. Equation(g)
  BY <1>2, <1>3
<1>5. Equation(m)
  BY <1>4
<1> HIDE DEF m
<1>6. m[0] = g[0] /\ \A n \in 1 .. N : m[n - 1] = g[n - 1] => m[n] = g[n]
  <2>1. m[0] = NoUsage /\ \A n \in 1 .. N : m[n] = MergeUsage(m[n - 1], cs[n])
    BY <1>1, <1>5
  <2> HIDE DEF g
  <2> QED BY <1>2, <1>3, <2>1
<1>7. m[N] = g[N]
  <2> HIDE DEF g, N
  <2>1. \A n \in 0 .. N : m[n] = g[n]
    BY <1>1, <1>6, OneWay, ZenonT(30)
  <2> QED BY <1>1, <2>1
<1>8. g[N] = SummaryOf(cs)
  <2>1. SubSeq(cs, 1, N) = cs /\ N \in 0 .. N
    OBVIOUS
  <2> HIDE DEF N
  <2> QED BY <1>1, <2>1
<1> QED BY <1>1, <1>7, <1>8

-----------------------------------------------------------------------------
(* Billing *)

BillingInv == calls \in Seq(Answers) /\ usage = SummaryOf(calls)

LEMMA AllCallsBilled ==
  ASSUME BillingInv
  PROVE  BillsEveryCall
<1> SUFFICES ASSUME calls # <<>> PROVE BillsEveryCall
  BY DEF BillsEveryCall
<1>1. calls \in Seq(Answers) /\ Len(calls) \in Nat \ {0} /\ usage = Summary(calls, calls[Len(calls)].currency)
  BY DEF BillingInv, SummaryOf
<1>2. \A i \in DOMAIN calls : calls[i] \in Answers
  BY <1>1
<1>3. usage.calls = calls /\ usage.total = Total(calls, LAMBDA c : c.total)
  BY <1>1, SummaryIs
<1>4. Total(calls, LAMBDA c : c.total) = Total(calls, LAMBDA c : c.input) + Total(calls, LAMBDA c : c.output)
  <2> DEFINE ns == [n \in DOMAIN calls |-> calls[n].input]
             ms == [n \in DOMAIN calls |-> calls[n].output]
             ks == [n \in DOMAIN calls |-> calls[n].total]
  <2>1. \A n \in 1 .. Len(calls) : /\ calls[n].input \in Int /\ calls[n].output \in Int /\ calls[n].total \in Int
                                   /\ calls[n].total = calls[n].input + calls[n].output
    BY <1>1, <1>2, BuildUsageIs
  <2>2. /\ ns \in [1 .. Len(calls) -> Int] /\ ms \in [1 .. Len(calls) -> Int] /\ ks \in [1 .. Len(calls) -> Int]
        /\ \A n \in 1 .. Len(calls) : ks[n] = ns[n] + ms[n]
    BY <1>1, <2>1
  <2> HIDE DEF ns, ms, ks
  <2>3. Added(ks) = Added(ns) + Added(ms)
    <3>1. /\ ns \in Seq(Int) /\ ms \in Seq(Int) /\ ks \in Seq(Int)
          /\ Len(ns) = Len(calls) /\ Len(ms) = Len(calls) /\ Len(ks) = Len(calls)
      BY <1>1, <2>2, NumbersInARow
    <3> QED BY <2>2, <3>1, SumOfSums
  <2> QED BY <2>3 DEF Total, ns, ms, ks
<1>5. Known(usage.cost) => \A i, j \in DOMAIN calls : Known(calls[i].cost) /\ calls[i].currency = calls[j].currency
  <2>1. usage.cost = SumOfCosts(calls, calls[Len(calls)].currency)
    BY <1>1, SummaryIs
  <2> QED BY <2>1 DEF SumOfCosts, Every, Known
<1>6. ASSUME NEW n \in 1 .. Len(calls) - 1
      PROVE  MergeUsage(Merged(SubSeq(calls, 1, n)), Merged(SubSeq(calls, n + 1, Len(calls)))) = usage
  <2> DEFINE a == SubSeq(calls, 1, n)  b == SubSeq(calls, n + 1, Len(calls))
  <2>1. a \in Seq(Answers) /\ b \in Seq(Answers) /\ b # <<>> /\ a \o b = calls /\ b[Len(b)] = calls[Len(calls)]
    BY <1>1
  <2> HIDE DEF a, b
  <2>2. Merged(a) = SummaryOf(a) /\ Merged(b) = SummaryOf(b)
    BY <2>1, MergedIs
  <2>3. Calls(SummaryOf(a)) = a /\ Calls(SummaryOf(b)) = b /\ SummaryOf(b).currency = calls[Len(calls)].currency
    BY <2>1, BillIs
  <2>4. MergeUsage(SummaryOf(a), SummaryOf(b)) = usage
    BY <1>1, <2>1, <2>3 DEF MergeUsage
  <2> QED BY <2>2, <2>4 DEF a, b
<1> QED BY <1>2, <1>3, <1>4, <1>5, <1>6, BuildUsageIs DEF BillsEveryCall

\* Whatever a provider reports and however many calls a task takes.
THEOREM CallsBilledOnce == BillingSpec => []BillsEveryCall
<1>1. BillNothing => BillingInv
  BY DEF BillNothing, BillingInv, SummaryOf
<1>2. BillingInv /\ [BillCall]_<<calls, usage>> => BillingInv'
  <2> SUFFICES ASSUME BillingInv, [BillCall]_<<calls, usage>> PROVE BillingInv'
    OBVIOUS
  <2>1. CASE BillCall
    <3>1. PICK u \in Answers : calls' = Append(calls, u) /\ usage' = MergeUsage(usage, u)
      BY <2>1 DEF BillCall, Answers
    <3>2. MergeUsage(usage, u) = SummaryOf(Append(calls, u))
      BY BillGrows DEF BillingInv
    <3> QED BY <3>1, <3>2 DEF BillingInv
  <2>2. CASE UNCHANGED <<calls, usage>>
    BY <2>2 DEF BillingInv
  <2> QED BY <2>1, <2>2
<1>3. BillingInv => BillsEveryCall
  BY AllCallsBilled
<1> QED BY <1>1, <1>2, <1>3, PTL DEF BillingSpec

-----------------------------------------------------------------------------
(* The tasks *)

Levels == {1, 2, 4, 6, 7}

Rows == [status : Statuses, progress : Nat, usage : Nat, parent : Ids \cup {NoId}]

RunPlaces == {"free", "load", "read", "write", "reference", "model", "bill", "join",
              "store", "commit", "excuse", "fail", "ended"}
RunRecords ==
  [pc : RunPlaces, id : Ids \cup {NoId}, parent : Ids \cup {NoId}, quality : BOOLEAN,
   level : Levels \cup {0}, phase : {"draft", "review"}, attempt : {0, 1, 2}, calls : Nat,
   answer : {"none", "good", "bad", "length", "empty"}, error : {"none", "error", "cancelled"},
   seen : Rows, stop : BOOLEAN,
   tick : {"off", "sleep", "read", "write", "ended", "died"}, tickLevel : {0, 3, 5}, tickSeen : Rows]

RequestPlaces == Settled \cup {"insert", "enqueue", "waiting", "recheck", "mark", "drop"}
RequestRecords ==
  [pc : RequestPlaces, id : Ids \cup {NoId}, parent : Ids \cup {NoId}, seen : Rows, runs : SUBSET Runs]

TablesOK ==
  /\ row \in [Ids -> Rows] /\ tasks \in [Ids -> Runs \cup {NoRun}]
  /\ \A i \in Ids : row[i].status = "absent" => row[i] = NoRow

\* Every variable but the streams keeps its kind; a run that exists, and a
\* request that works on a task, name one.
RunOK(m) ==
  /\ m \in RunRecords
  /\ m.pc # "free" => m.id \in Ids
  /\ m.pc \in {"read", "write"} => m.level \in Levels
  /\ m.pc \in {"free", "ended"} => m.tick = "off"
  /\ m.pc = "free" => ~m.stop
RequestOK(h, q) ==
  /\ q \in RequestRecords
  /\ q.pc \in {"enqueue", "recheck", "mark", "cancelled"} => q.id \in Ids
  /\ q.pc \in {"recheck", "mark", "cancelled"} => h \in Cancellers
  /\ q.pc = "waiting" => h \in Cancellers \cup Resetters
  /\ q.pc = "waiting" /\ h \in Cancellers => q.id \in Ids
  /\ q.pc \in {"idle", "insert"} => q.id = NoId

Kinds ==
  /\ TablesOK
  /\ life \in {"down", "up"} /\ cancelled \subseteq Ids
  /\ run \in [Runs -> RunRecords] /\ \A r \in Runs : RunOK(run[r])
  /\ req \in [Requests -> RequestRecords] /\ \A h \in Requests : RequestOK(h, req[h])

\* While the server is down nothing is under way.
DownIsIdle ==
  life = "down" => /\ \A r \in Runs : ~Live(r)
                   /\ \A h \in Requests : req[h].pc \in Settled

Calm == \A i \in Ids : <<i, "reset">> \notin hurt

\* A reset that has cleared the tables has told everybody.
ResetMarks ==
  /\ \A i \in Ids : <<i, "reset">> \in hurt => ~\E j \in Ids : <<j, "reset">> \notin hurt
  /\ \A h \in Requests : req[h].pc = "drop" => ~Calm

Exists(r) == run[r].pc # "free"
OnTask(h, i, places) == req[h].id = i /\ req[h].pc \in places

\* An id belongs to one create and then to one run, and its row stays.
OneOwner ==
  /\ \A r, q \in Runs : Exists(r) /\ Exists(q) /\ run[r].id = run[q].id => r = q
  /\ \A g \in Requests : req[g].pc = "enqueue" =>
       /\ \A r \in Runs : Exists(r) => run[r].id # req[g].id
       /\ \A k \in Requests : OnTask(k, req[g].id, {"enqueue"}) => k = g
  /\ \A r \in Runs : Exists(r) => row[run[r].id] # NoRow
  /\ \A i \in cancelled : row[i] # NoRow
  /\ \A h \in Requests, i \in Ids : OnTask(h, i, {"enqueue", "waiting", "recheck", "mark"}) => row[i] # NoRow

\* Only its run brings a task to "done" or "failed", and ends with that.
EndsByRun ==
  /\ \A r \in Runs : Live(r) => row[run[r].id].status \notin {"done", "failed"}
  /\ \A g \in Requests : req[g].pc = "enqueue" => row[req[g].id].status \notin {"done", "failed"}

\* What is registered as the task's run is, and a live run is registered.
Registered ==
  /\ \A i \in Ids : tasks[i] # NoRun => Exists(tasks[i]) /\ run[tasks[i]].id = i
  /\ Calm => \A r \in Runs : Live(r) => tasks[run[r].id] = r

\* Only a run of a cancelled task is told to stop, and its cancel waits for it.
Told(me) == me.stop \/ (me.pc = "join" /\ me.error = "cancelled")
StopsCancelled == Calm => \A r \in Runs : Told(run[r]) => run[r].id \in cancelled
StopsAwaited ==
  Calm => \A r \in Runs : Live(r) /\ run[r].id \in cancelled =>
    \/ \E h \in Cancellers : OnTask(h, run[r].id, {"waiting"})
    \/ \E h \in Resetters : req[h].pc = "waiting"
WaitsForRun ==
  Calm => \A h \in Cancellers : req[h].pc = "waiting" =>
    \E r \in req[h].runs : Exists(r) /\ run[r].id = req[h].id

\* Writes of an end were prepared on a row without one.
EndsPrepared ==
  /\ \A r \in Runs : run[r].pc \in {"commit", "fail"} => run[r].seen.status \notin Terminal
  /\ \A h \in Requests : req[h].pc = "mark" => req[h].seen.status \notin Terminal

Undisturbed(i) == Spared(i, {"early cancel", "reset"})

\* A cancel goes on when nobody is at work on its task any more.
CancelsAlone ==
  \A h \in Cancellers, i \in Ids : Undisturbed(i) =>
    /\ OnTask(h, i, {"recheck", "mark"}) =>
         /\ \A g \in Requests : ~OnTask(g, i, {"enqueue"})
         /\ \A r \in Runs : run[r].id = i => ~Live(r)
    /\ OnTask(h, i, {"mark"}) => row[i].status \in {"pending", "running", "cancelled"}
    /\ OnTask(h, i, {"cancelled"}) => row[i].status = "cancelled"

\* A task that has ended has nobody at work on it.
EndedIsIdle ==
  \A i \in Ids : Undisturbed(i) /\ Finished(i) =>
    /\ \A r \in Runs : run[r].id = i => ~Live(r)
    /\ \A g \in Requests : ~OnTask(g, i, {"enqueue"})

\* Somebody will see to the end of a cancelled task.
CancelsPending ==
  \A i \in Ids : i \in cancelled /\ Open(i) =>
    \/ ~Spared(i, {"fault", "reset"})
    \/ \E h \in Requests : OnTask(h, i, {"waiting", "recheck", "mark"})
    \/ \E h \in Resetters : req[h].pc \in {"waiting", "drop"}

\* An unfinished task that is not cancelled is being worked on.
WorkedOn ==
  \A i \in Ids \ cancelled : Open(i) =>
    \/ life = "down" \/ ~Spared(i, {"fault", "reset"})
    \/ \E r \in Runs : run[r].id = i /\ Live(r)
    \/ \E g \in Requests : OnTask(g, i, {"enqueue"})

\* What a run has been answered is on the bill, but for an answer it is just
\* storing and one whose storing a cancel cut off.
Cut(r) ==
  \/ run[r].pc = "join" /\ run[r].error = "cancelled"
  \/ run[r].pc = "ended" /\ row[run[r].id].status \notin {"done", "failed"}
Paid(me) == me.calls - (IF me.pc = "bill" THEN 1 ELSE 0)
Billed ==
  /\ \A r \in Runs : Exists(r) /\ Spared(run[r].id, {"fault", "crash", "reset"}) =>
       row[run[r].id].usage = Paid(run[r]) \/ Cut(r)
  /\ Calm => \A g \in Requests : req[g].pc = "enqueue" => row[req[g].id].usage = 0
  /\ life = "down" => \A r \in Runs : Exists(r) /\ Open(run[r].id) => <<run[r].id, "crash">> \in hurt

IInv ==
  /\ Kinds /\ DownIsIdle /\ ResetMarks /\ Registered /\ EndsPrepared
  /\ Calm => OneOwner /\ EndsByRun
  /\ StopsCancelled /\ StopsAwaited /\ WaitsForRun
  /\ CancelsAlone /\ EndedIsIdle /\ CancelsPending /\ WorkedOn /\ Billed

-----------------------------------------------------------------------------
USE BoundsAssumption, DataAssumption DEF Ids, Runs, NoId, NoRun, Terminal, Statuses

(* Rows *)

LEMMA NoRowKind == NoRow \in Rows /\ NoRow.status = "absent"
BY DEF NoRow, Rows

\* A flush changes the columns that differ from the loaded row, no others.
LEMMA FlushKind ==
  ASSUME NEW a \in Rows, NEW b \in Rows, NEW c \in Rows
  PROVE  LET w == OrmUpdate(a, b, c) IN
         /\ w \in Rows
         /\ a = NoRow => w = NoRow
         /\ a # NoRow => /\ w.status = IF c.status = b.status THEN a.status ELSE c.status
                         /\ w.usage = IF c.usage = b.usage THEN a.usage ELSE c.usage
BY NoRowKind DEF OrmUpdate, Rows

LEMMA ProgressKind ==
  ASSUME NEW a \in Rows, NEW p \in Nat
  PROVE  /\ WithProgress(a, p) \in Rows
         /\ WithProgress(a, p).status = "running" /\ WithProgress(a, p).usage = a.usage
BY DEF WithProgress, Rows

\* What the pending write of a run leaves of the row
LEMMA WrittenKind ==
  ASSUME TablesOK, NEW me \in RunRecords, me.id \in Ids, Writing(me),
         me.pc \in {"commit", "fail"} => me.seen.status \notin Terminal
  PROVE  LET w == Written(me)  a == row[me.id] IN
         /\ w \in Rows /\ (w.status = "absent" => w = NoRow) /\ (w = NoRow <=> a = NoRow)
         /\ w.status \in {a.status, "running"} \/ (me.pc \in {"commit", "fail"} /\ w.status \in {"done", "failed"})
         /\ me.pc \in {"commit", "fail"} => w = NoRow \/ w.status \in {"done", "failed"}
         /\ w.usage = a.usage \/ (me.pc = "bill" /\ w.usage = me.calls)
         /\ me.pc = "bill" /\ a # NoRow => w.usage = me.calls
<1> DEFINE a == row[me.id]
<1>1. a \in Rows /\ (a.status = "absent" => a = NoRow)
  BY DEF TablesOK
<1>2. me.seen \in Rows /\ me.level \in Nat /\ me.calls \in Nat
  BY DEF RunRecords, Levels
<1>3. CASE me.pc = "bill"
  BY <1>1, <1>2, <1>3, NoRowKind DEF Written, Usage, Rows
<1>4. CASE me.pc = "write"
  <2>1. Written(me) = OrmUpdate(a, me.seen, WithProgress(me.seen, me.level))
    BY <1>4 DEF Written
  <2>2. /\ WithProgress(me.seen, me.level) \in Rows
        /\ WithProgress(me.seen, me.level).status = "running"
        /\ WithProgress(me.seen, me.level).usage = me.seen.usage
    BY <1>2, ProgressKind
  <2> QED BY <1>1, <1>2, <1>4, <2>1, <2>2, FlushKind, NoRowKind
<1>5. CASE me.pc = "commit"
  <2> DEFINE new == [me.seen EXCEPT !.status = "done", !.progress = 8]
  <2>1. Written(me) = OrmUpdate(a, me.seen, new)
    BY <1>5 DEF Written
  <2>2. new \in Rows /\ new.status = "done" /\ new.usage = me.seen.usage
    BY <1>2 DEF Rows
  <2>3. me.seen.status # "done"
    BY <1>5
  <2> HIDE DEF new
  <2> QED BY <1>1, <1>2, <1>5, <2>1, <2>2, <2>3, FlushKind, NoRowKind
<1>6. CASE me.pc = "fail"
  <2> DEFINE new == [me.seen EXCEPT !.status = "failed"]
  <2>1. Written(me) = OrmUpdate(a, me.seen, new)
    BY <1>6 DEF Written
  <2>2. new \in Rows /\ new.status = "failed" /\ new.usage = me.seen.usage
    BY <1>2 DEF Rows
  <2>3. me.seen.status # "failed"
    BY <1>6
  <2> HIDE DEF new
  <2> QED BY <1>1, <1>2, <1>6, <2>1, <2>2, <2>3, FlushKind, NoRowKind
<1> QED BY <1>3, <1>4, <1>5, <1>6 DEF Writing

-----------------------------------------------------------------------------
(* Control: what the operators that continue or end a run leave of it *)

\* Run r goes on from the record me.
GoesOn(r, me) ==
  LET m == run'[r] IN
  /\ RunOK(m) /\ m.id = me.id /\ m.calls = me.calls /\ (m.stop => me.stop)
  /\ m.pc \notin {"free", "bill", "write", "commit", "fail"}
  /\ run' = [run EXCEPT ![r] = m]
  /\ tasks' = IF m.pc = "ended" THEN [tasks EXCEPT ![me.id] = NoRun] ELSE tasks

\* Leaving a place for another one keeps a run's kind.
LEMMA MovedKind ==
  ASSUME NEW me \in RunRecords, me.id \in Ids, NEW m \in RunRecords, m.id = me.id,
         m.pc \notin {"free", "ended"}, m.pc \in {"read", "write"} => m.level \in Levels
  PROVE  RunOK(m)
BY DEF RunOK

LEMMA EndGoes ==
  ASSUME Kinds, NEW r \in Runs, NEW me \in RunRecords, me.id \in Ids, End(r, me)
  PROVE  GoesOn(r, me) /\ run'[r].pc = "ended"
<1> DEFINE m == [FreeRun EXCEPT !.pc = "ended", !.id = me.id, !.calls = me.calls]
<1>1. run'[r] = m /\ run' = [run EXCEPT ![r] = m]
  BY DEF End, Kinds
<1>2. m.id = me.id /\ m.calls = me.calls /\ m.pc = "ended" /\ ~m.stop /\ m.tick = "off"
  BY DEF FreeRun
<1>3. me.calls \in Nat
  BY DEF RunRecords
<1>4. m \in RunRecords
  BY <1>3, NoRowKind DEF RunRecords, FreeRun, RunPlaces
<1> HIDE DEF m
<1>5. RunOK(m)
  BY <1>2, <1>4 DEF RunOK
<1> QED BY <1>1, <1>2, <1>5 DEF End, GoesOn

LEMMA GotoGoes ==
  ASSUME Kinds, NEW r \in Runs, NEW me, NEW m, Goto(r, m), RunOK(m), m.id = me.id, m.calls = me.calls, m.stop => me.stop,
         m.pc \notin {"free", "bill", "write", "commit", "fail", "ended"}
  PROVE  GoesOn(r, me) /\ run'[r] = m
BY DEF Goto, GoesOn, Kinds

LEMMA ProceedGoes ==
  ASSUME Kinds, NEW r \in Runs, NEW me \in RunRecords, me.id \in Ids, NEW level \in Levels, Proceed(r, me, level)
  PROVE  GoesOn(r, me) /\ run'[r].pc # "join" /\ (run'[r].pc = "ended" => me.id \in cancelled)
<1>1. CASE level = 1
  <2> DEFINE m == [me EXCEPT !.pc = "reference"]
  <2>1. Goto(r, m)
    BY <1>1 DEF Proceed
  <2>2. m \in RunRecords /\ m.id = me.id /\ m.calls = me.calls /\ m.stop = me.stop /\ m.pc = "reference"
    BY DEF RunRecords, RunPlaces
  <2> HIDE DEF m
  <2> QED BY <2>1, <2>2, GotoGoes, MovedKind
<1>2. CASE level = 2
  <2> DEFINE m == [me EXCEPT !.pc = "model", !.attempt = 1, !.tick = "sleep"]
  <2>1. Goto(r, m)
    BY <1>2 DEF Proceed
  <2>2. m.id = me.id /\ m.calls = me.calls /\ m.stop = me.stop /\ m.pc = "model"
    BY DEF RunRecords
  <2>3. m \in RunRecords
    <3>1. [me EXCEPT !.pc = "model"] \in RunRecords
      BY DEF RunRecords, RunPlaces
    <3>2. [me EXCEPT !.pc = "model", !.attempt = 1] \in RunRecords
      BY <3>1 DEF RunRecords
    <3> QED BY <3>2 DEF RunRecords
  <2> HIDE DEF m
  <2> QED BY <2>1, <2>2, <2>3, GotoGoes, MovedKind
<1>3. CASE level = 4
  <2> DEFINE m == [me EXCEPT !.pc = "model", !.attempt = 1, !.phase = "review"]
  <2>1. Goto(r, m)
    BY <1>3 DEF Proceed
  <2>2. m \in RunRecords /\ m.id = me.id /\ m.calls = me.calls /\ m.stop = me.stop /\ m.pc = "model"
    BY DEF RunRecords, RunPlaces
  <2> HIDE DEF m
  <2> QED BY <2>1, <2>2, GotoGoes, MovedKind
<1>4. CASE level = 6 /\ me.id \notin cancelled
  <2> DEFINE m == [me EXCEPT !.pc = "read", !.level = 7]
  <2>1. Goto(r, m)
    BY <1>4 DEF Proceed
  <2>2. /\ m \in RunRecords /\ m.id = me.id /\ m.calls = me.calls /\ m.stop = me.stop
        /\ m.pc = "read" /\ m.level \in Levels
    BY DEF RunRecords, RunPlaces, Levels
  <2> HIDE DEF m
  <2> QED BY <2>1, <2>2, GotoGoes, MovedKind
<1>5. CASE level = 7 /\ me.id \notin cancelled
  <2> DEFINE m == [me EXCEPT !.pc = "store"]
  <2>1. Goto(r, m)
    BY <1>5 DEF Proceed
  <2>2. m \in RunRecords /\ m.id = me.id /\ m.calls = me.calls /\ m.stop = me.stop /\ m.pc = "store"
    BY DEF RunRecords, RunPlaces
  <2> HIDE DEF m
  <2> QED BY <2>1, <2>2, GotoGoes, MovedKind
<1>6. CASE level \in {6, 7} /\ me.id \in cancelled
  <2>1. End(r, me)
    <3>1. CASE level = 6
      BY <1>6, <3>1 DEF Proceed
    <3>2. CASE level = 7
      BY <1>6, <3>2 DEF Proceed
    <3> QED BY <1>6, <3>1, <3>2
  <2> QED BY <1>6, <2>1, EndGoes
<1> QED BY <1>1, <1>2, <1>3, <1>4, <1>5, <1>6 DEF Levels

LEMMA ReportGoes ==
  ASSUME Kinds, NEW r \in Runs, NEW me \in RunRecords, me.id \in Ids, NEW level \in Levels, Report(r, me, level)
  PROVE  GoesOn(r, me) /\ run'[r].pc # "join" /\ (run'[r].pc = "ended" => me.id \in cancelled)
<1>1. CASE me.id \in cancelled
  BY <1>1, ProceedGoes DEF Report
<1>2. CASE me.id \notin cancelled
  <2> DEFINE m == [me EXCEPT !.pc = "read", !.level = level]
  <2>1. Goto(r, m)
    BY <1>2 DEF Report
  <2>2. /\ m \in RunRecords /\ m.id = me.id /\ m.calls = me.calls /\ m.stop = me.stop
        /\ m.pc = "read" /\ m.level \in Levels
    BY DEF RunRecords, RunPlaces
  <2> HIDE DEF m
  <2> QED BY <2>1, <2>2, GotoGoes, MovedKind
<1> QED BY <1>1, <1>2

LEMMA FailGoes ==
  ASSUME Kinds, NEW r \in Runs, NEW me \in RunRecords, me.id \in Ids, Fail(r, me)
  PROVE  GoesOn(r, me) /\ run'[r].pc # "join" /\ (run'[r].pc = "ended" <=> me.id \in cancelled)
<1>1. CASE me.id \in cancelled
  BY <1>1, EndGoes DEF Fail
<1>2. CASE me.id \notin cancelled
  <2> DEFINE m == [me EXCEPT !.pc = "excuse"]
  <2>1. Goto(r, m)
    BY <1>2 DEF Fail
  <2>2. m \in RunRecords /\ m.id = me.id /\ m.calls = me.calls /\ m.stop = me.stop /\ m.pc = "excuse"
    BY DEF RunRecords, RunPlaces
  <2> HIDE DEF m
  <2> QED BY <1>2, <2>1, <2>2, GotoGoes, MovedKind
<1> QED BY <1>1, <1>2

\* How a run stops working at its pipeline
Stopping(me, error) == [me EXCEPT !.pc = "join", !.error = error, !.seen = NoRow, !.answer = "none"]

LEMMA StoppingKind ==
  ASSUME NEW me \in RunRecords, me.id \in Ids, NEW error \in {"none", "error", "cancelled"}
  PROVE  LET m == Stopping(me, error) IN
         /\ RunOK(m) /\ m.id = me.id /\ m.calls = me.calls /\ m.stop = me.stop
         /\ m.pc = "join" /\ m.error = error
<1> DEFINE m == Stopping(me, error)
<1>1. m.id = me.id /\ m.calls = me.calls /\ m.stop = me.stop /\ m.pc = "join" /\ m.error = error
  BY DEF Stopping, RunRecords
<1>2. m \in RunRecords
  BY ZenonT(30), NoRowKind DEF Stopping, RunRecords, RunPlaces
<1> QED BY <1>1, <1>2, MovedKind

LEMMA RaiseGoes ==
  ASSUME Kinds, NEW r \in Runs, NEW me \in RunRecords, me.id \in Ids, Raise(r, me)
  PROVE  GoesOn(r, me) /\ (run'[r].pc = "join" => run'[r].error = "error") /\ (run'[r].pc = "ended" => me.id \in cancelled)
<1>1. CASE InPipeline(me)
  <2>1. Goto(r, Stopping(me, "error"))
    BY <1>1 DEF Raise, Stopping
  <2> QED BY <2>1, GotoGoes, StoppingKind
<1>2. CASE ~InPipeline(me)
  <2> DEFINE m == [me EXCEPT !.seen = NoRow]
  <2>1. m \in RunRecords /\ m.id = me.id /\ m.calls = me.calls /\ m.stop = me.stop
    BY NoRowKind DEF RunRecords
  <2>2. Fail(r, m)
    BY <1>2 DEF Raise
  <2> HIDE DEF m
  <2> QED BY <2>1, <2>2, FailGoes DEF GoesOn
<1> QED BY <1>1, <1>2

-----------------------------------------------------------------------------
(* What one step of a run or of its ticker can do, told in the terms of the *)
(* invariant                                                                *)

\* The history of task i: resets, crashes and early cancels are not a run's.
HurtBy(i) ==
  /\ hurt \subseteq hurt'
  /\ \A p \in hurt' : p \in hurt \/ p \in {<<i, "fault">>, <<i, "late cancel">>}

\* The row goes from a to w: it never comes or goes, and a step that is not a
\* run's last leaves its status or makes it "running".
RowMoves(a, w, m) ==
  /\ w \in Rows /\ (w.status = "absent" => w = NoRow) /\ (w = NoRow <=> a = NoRow)
  /\ w.status \in {a.status, "running"} \/ (m.pc = "ended" /\ w.status \in {"done", "failed"})

\* A run ends because it was told to, because its task is over or cannot be
\* recorded as over.
EndMoves(i, me, m, w) ==
  m.pc = "ended" => \/ Told(me) \/ i \in cancelled
                    \/ w.status \notin {"pending", "running"}
                    \/ <<i, "fault">> \in hurt'

BillMoves(i, me, m, a, w) ==
  /\ \/ <<i, "fault">> \in hurt' \/ w = NoRow
     \/ m.pc = "ended" /\ w.status \in {a.status, "running"}
     \/ w.usage = Paid(m)
     \/ w.usage = a.usage /\ Paid(m) = Paid(me)
     \/ m.pc = "join" /\ m.error = "cancelled"
  /\ me.pc = "join" /\ me.error = "cancelled" /\ i \in cancelled =>
       \/ m.pc = "ended" /\ w.status \in {a.status, "running"}
       \/ m.pc = "join" /\ m.error = "cancelled"

RunMoves(r) ==
  LET me == run[r]  i == me.id  m == run'[r]  w == row'[i] IN
  /\ UNCHANGED <<life, cancelled, req>>
  /\ life = "up" /\ Live(r)
  /\ run' = [run EXCEPT ![r] = m]
  /\ RunOK(m) /\ m.id = i /\ m.pc # "free" /\ (Told(m) => Told(me))
  /\ m.pc \in {"commit", "fail"} => m.seen.status \notin Terminal
  /\ tasks' = tasks \/ (m.pc = "ended" /\ tasks' = [tasks EXCEPT ![i] = NoRun])
  /\ row' = [row EXCEPT ![i] = w]
  /\ RowMoves(row[i], w, m) /\ EndMoves(i, me, m, w) /\ BillMoves(i, me, m, row[i], w)
  /\ HurtBy(i)

LEMMA KindsOf ==
  ASSUME Kinds, NEW r \in Runs, Live(r)
  PROVE  /\ run[r] \in RunRecords /\ run[r].id \in Ids /\ RunOK(run[r]) /\ run[r].calls \in Nat
         /\ row[run[r].id] \in Rows /\ (row[run[r].id].status = "absent" => row[run[r].id] = NoRow)
         /\ row \in [Ids -> Rows]
<1>1. run[r] \in RunRecords /\ run[r].id \in Ids /\ RunOK(run[r])
  BY DEF Kinds, RunOK, Live
<1>2. run[r].calls \in Nat
  BY <1>1 DEF RunRecords
<1> QED BY <1>1, <1>2 DEF Kinds, TablesOK

\* A step that leaves the row alone and prepares no write of it
LEMMA Continues ==
  ASSUME Kinds, NEW r \in Runs, Live(r), life = "up", NEW me,
         me.id = run[r].id, me.calls = run[r].calls, me.stop => run[r].stop,
         run[r].pc # "bill", GoesOn(r, me), UNCHANGED <<life, cancelled, req, row, hurt>>,
         run'[r].pc = "join" => run'[r].error # "cancelled",
         run'[r].pc = "ended" => run[r].id \in cancelled \/ row[run[r].id].status \notin {"pending", "running"},
         run[r].pc = "join" => run[r].error # "cancelled" \/ run[r].id \notin cancelled \/ run'[r].pc = "ended"
  PROVE  RunMoves(r)
<1> DEFINE i == run[r].id  m == run'[r]
<1>1. /\ run[r].id \in Ids /\ run[r].calls \in Nat /\ row[i] \in Rows
      /\ (row[i].status = "absent" => row[i] = NoRow) /\ row' = [row EXCEPT ![i] = row'[i]]
      /\ row'[i] = row[i] /\ hurt' = hurt
  BY KindsOf
<1>2. /\ RunOK(m) /\ m.id = i /\ m.calls = run[r].calls /\ (m.stop => run[r].stop)
      /\ m.pc \notin {"free", "bill", "write", "commit", "fail"} /\ run' = [run EXCEPT ![r] = m]
      /\ tasks' = tasks \/ (m.pc = "ended" /\ tasks' = [tasks EXCEPT ![i] = NoRun])
  BY DEF GoesOn
<1>3. RowMoves(row[i], row'[i], m) /\ HurtBy(i)
  BY <1>1 DEF RowMoves, HurtBy
<1>4. EndMoves(i, run[r], m, row'[i])
  BY <1>1, <1>2 DEF EndMoves
<1>5. BillMoves(i, run[r], m, row[i], row'[i])
  BY <1>1, <1>2 DEF BillMoves, Paid
<1>6. Told(m) => Told(run[r])
  BY <1>2 DEF Told
<1> HIDE DEF i, m
<1> QED BY <1>1, <1>2, <1>3, <1>4, <1>5, <1>6 DEF RunMoves, i, m

LEMMA LoadMoves ==
  ASSUME Kinds, NEW r \in Runs, life = "up", Load(r), UNCHANGED <<row, hurt>>, UNCHANGED <<env, cancelled, req>>
  PROVE  RunMoves(r)
<1>1. Live(r) /\ run[r].pc = "load"
  BY DEF Load, At, Live
<1>2. CASE row[run[r].id] = NoRow \/ run[r].id \in cancelled
  <2>1. End(r, run[r])
    BY <1>2 DEF Load
  <2>2. GoesOn(r, run[r]) /\ run'[r].pc = "ended"
    BY <1>1, <2>1, KindsOf, EndGoes
  <2> QED BY <1>1, <1>2, <2>2, Continues, NoRowKind DEF env
<1>3. CASE ~(row[run[r].id] = NoRow \/ run[r].id \in cancelled)
  <2> DEFINE me == [run[r] EXCEPT !.parent = row[run[r].id].parent]
  <2>1. Report(r, me, 1)
    BY <1>3 DEF Load
  <2>2. me \in RunRecords /\ me.id = run[r].id /\ me.calls = run[r].calls /\ me.stop = run[r].stop
    <3>1. row[run[r].id].parent \in Ids \cup {NoId} /\ run[r] \in RunRecords
      BY <1>1, KindsOf DEF Rows
    <3> QED BY <3>1 DEF RunRecords
  <2> HIDE DEF me
  <2>3. GoesOn(r, me) /\ run'[r].pc # "join" /\ (run'[r].pc = "ended" => me.id \in cancelled)
    BY <1>1, <2>1, <2>2, KindsOf, ReportGoes DEF Levels
  <2> QED BY <1>1, <2>2, <2>3, Continues DEF env
<1> QED BY <1>2, <1>3

\* A read of the row that is followed by a write
LEMMA Prepares ==
  ASSUME Kinds, NEW r \in Runs, Live(r), life = "up", run[r].pc \notin {"join", "bill"}, MayWrite(run[r].id),
         NEW place \in {"write", "commit", "fail"}, place = "write" => run[r].level \in Levels,
         Goto(r, [run[r] EXCEPT !.pc = place, !.seen = row[run[r].id]]),
         UNCHANGED <<life, cancelled, req, row, hurt>>
  PROVE  RunMoves(r)
<1> DEFINE i == run[r].id  m == [run[r] EXCEPT !.pc = place, !.seen = row[i]]
<1>1. /\ run[r] \in RunRecords /\ i \in Ids /\ run[r].calls \in Nat /\ row[i] \in Rows
      /\ (row[i].status = "absent" => row[i] = NoRow) /\ row' = [row EXCEPT ![i] = row'[i]]
      /\ row'[i] = row[i] /\ hurt' = hurt
  BY KindsOf
<1>2. run'[r] = m /\ run' = [run EXCEPT ![r] = m] /\ tasks' = tasks
  BY DEF Goto, Kinds
<1>3. /\ m.id = i /\ m.calls = run[r].calls /\ m.stop = run[r].stop /\ m.seen = row[i]
      /\ m.pc = place /\ m.level = run[r].level
  BY <1>1 DEF RunRecords
<1>4. m \in RunRecords
  BY <1>1 DEF RunRecords, RunPlaces
<1> HIDE DEF m
<1>5. RunOK(m)
  BY <1>1, <1>3, <1>4, MovedKind
<1>6. RowMoves(row[i], row'[i], m) /\ HurtBy(i)
  BY <1>1 DEF RowMoves, HurtBy
<1>7. EndMoves(i, run[r], m, row'[i])
  BY <1>3 DEF EndMoves
<1>8. BillMoves(i, run[r], m, row[i], row'[i])
  BY <1>1, <1>3 DEF BillMoves, Paid
<1>9. m.seen.status \notin Terminal
  BY <1>3 DEF MayWrite, Finished
<1>10. Told(m) => Told(run[r])
  BY <1>3 DEF Told
<1> HIDE DEF i
<1> QED BY <1>1, <1>2, <1>3, <1>5, <1>6, <1>7, <1>8, <1>9, <1>10 DEF RunMoves, i

LEMMA ProgressReadMoves ==
  ASSUME Kinds, NEW r \in Runs, life = "up", ProgressRead(r), UNCHANGED <<row, hurt>>, UNCHANGED <<env, cancelled, req>>
  PROVE  RunMoves(r)
<1>1. Live(r) /\ run[r].pc = "read"
  BY DEF ProgressRead, At, Live
<1>2. run[r] \in RunRecords /\ run[r].id \in Ids /\ run[r].level \in Levels
  BY <1>1, KindsOf DEF RunOK
<1>3. CASE MayWrite(run[r].id)
  <2>1. Goto(r, [run[r] EXCEPT !.pc = "write", !.seen = row[run[r].id]])
    BY <1>3 DEF ProgressRead
  <2> QED BY <1>1, <1>2, <1>3, <2>1, Prepares DEF env
<1>4. CASE ~MayWrite(run[r].id)
  <2>1. Proceed(r, run[r], run[r].level)
    BY <1>4 DEF ProgressRead
  <2>2. GoesOn(r, run[r]) /\ run'[r].pc # "join" /\ (run'[r].pc = "ended" => run[r].id \in cancelled)
    BY <1>2, <2>1, ProceedGoes
  <2> QED BY <1>1, <2>2, Continues DEF env
<1> QED BY <1>3, <1>4

LEMMA ReferenceMoves ==
  ASSUME Kinds, NEW r \in Runs, life = "up", Reference(r), UNCHANGED <<row, hurt>>, UNCHANGED <<env, cancelled, req>>
  PROVE  RunMoves(r)
<1>1. Live(r) /\ run[r].pc = "reference"
  BY DEF Reference, At, Live
<1>2. run[r] \in RunRecords /\ run[r].id \in Ids
  BY <1>1, KindsOf
<1>3. Report(r, run[r], 2) \/ Fail(r, run[r])
  BY DEF Reference
<1>4. GoesOn(r, run[r]) /\ run'[r].pc # "join" /\ (run'[r].pc = "ended" => run[r].id \in cancelled)
  BY <1>2, <1>3, ReportGoes, FailGoes DEF Levels
<1> QED BY <1>1, <1>4, Continues DEF env

LEMMA ModelFailsMoves ==
  ASSUME Kinds, NEW r \in Runs, life = "up", ModelFails(r), UNCHANGED <<row, hurt>>, UNCHANGED <<env, cancelled, req>>
  PROVE  RunMoves(r)
<1>1. Live(r) /\ run[r].pc = "model" /\ Raise(r, run[r])
  BY DEF ModelFails, At, Live
<1>2. run[r] \in RunRecords /\ run[r].id \in Ids
  BY <1>1, KindsOf
<1>3. /\ GoesOn(r, run[r]) /\ (run'[r].pc = "join" => run'[r].error = "error")
      /\ (run'[r].pc = "ended" => run[r].id \in cancelled)
  BY <1>1, <1>2, RaiseGoes
<1> QED BY <1>1, <1>3, Continues DEF env

LEMMA ModelAnswersMoves ==
  ASSUME Kinds, NEW r \in Runs, life = "up", ModelAnswers(r), UNCHANGED <<row, hurt>>, UNCHANGED <<env, cancelled, req>>
  PROVE  RunMoves(r)
<1>1. Live(r) /\ run[r].pc = "model"
  BY DEF ModelAnswers, At, Live
<1> DEFINE i == run[r].id
<1>2. PICK answer \in {"good", "bad", "length", "empty"} :
        Goto(r, [run[r] EXCEPT !.pc = "bill", !.answer = answer, !.calls = @ + 1])
  BY DEF ModelAnswers
<1> DEFINE m == [run[r] EXCEPT !.pc = "bill", !.answer = answer, !.calls = @ + 1]
<1>3. /\ run[r] \in RunRecords /\ i \in Ids /\ run[r].calls \in Nat /\ row[i] \in Rows
      /\ (row[i].status = "absent" => row[i] = NoRow) /\ row' = [row EXCEPT ![i] = row'[i]]
      /\ row'[i] = row[i] /\ hurt' = hurt
  BY <1>1, KindsOf
<1>4. run'[r] = m /\ run' = [run EXCEPT ![r] = m] /\ tasks' = tasks
  BY <1>2 DEF Goto, Kinds
<1>5. m.id = i /\ m.calls = run[r].calls + 1 /\ m.stop = run[r].stop /\ m.pc = "bill"
  BY <1>3 DEF RunRecords
<1>6. m \in RunRecords
  <2>1. [run[r] EXCEPT !.pc = "bill", !.answer = answer] \in RunRecords
    BY <1>3 DEF RunRecords, RunPlaces
  <2> DEFINE me == [run[r] EXCEPT !.pc = "bill", !.answer = answer]
  <2>2. m = [me EXCEPT !.calls = run[r].calls + 1] /\ run[r].calls + 1 \in Nat
    BY <1>3 DEF RunRecords
  <2> HIDE DEF m
  <2> QED BY <2>1, <2>2 DEF RunRecords
<1> HIDE DEF m
<1>7. RunOK(m)
  BY <1>3, <1>5, <1>6, MovedKind
<1>8. RowMoves(row[i], row'[i], m) /\ HurtBy(i)
  BY <1>3 DEF RowMoves, HurtBy
<1>9. EndMoves(i, run[r], m, row'[i])
  BY <1>5 DEF EndMoves
<1>10. BillMoves(i, run[r], m, row[i], row'[i])
  BY <1>1, <1>3, <1>5 DEF BillMoves, Paid
<1>11. Told(m) => Told(run[r])
  BY <1>5 DEF Told
<1> HIDE DEF i
<1> QED BY <1>1, <1>3, <1>4, <1>5, <1>7, <1>8, <1>9, <1>10, <1>11 DEF RunMoves, i, env

LEMMA JoinMoves ==
  ASSUME Kinds, NEW r \in Runs, life = "up", Join(r), UNCHANGED <<row, hurt>>, UNCHANGED <<env, cancelled, req>>
  PROVE  RunMoves(r)
<1> DEFINE me == [run[r] EXCEPT !.stop = FALSE, !.tick = "off", !.tickLevel = 0]
<1>1. Live(r) /\ run[r].pc = "join"
  BY DEF Join, Live
<1>2. /\ me \in RunRecords /\ me.id = run[r].id /\ me.id \in Ids /\ me.calls = run[r].calls
      /\ me.error = run[r].error /\ ~me.stop
  <2>1. run[r] \in RunRecords /\ run[r].id \in Ids
    BY <1>1, KindsOf
  <2>2. [run[r] EXCEPT !.stop = FALSE, !.tick = "off"] \in RunRecords
    BY <2>1 DEF RunRecords
  <2>3. me \in RunRecords
    BY <2>2 DEF RunRecords
  <2>4. me.id = run[r].id /\ me.calls = run[r].calls /\ me.error = run[r].error /\ ~me.stop
    BY <2>1 DEF RunRecords
  <2> QED BY <2>1, <2>3, <2>4
<1>3. \/ Report(r, me, 6) /\ me.error = "none"
      \/ Fail(r, me)
      \/ End(r, me) /\ me.error = "cancelled"
  BY <1>2 DEF Join, RunRecords
<1> HIDE DEF me
<1>4. CASE End(r, me) /\ me.error = "cancelled"
  <2>1. GoesOn(r, me) /\ run'[r].pc = "ended"
    BY <1>2, <1>4, EndGoes
  <2> DEFINE i == run[r].id  m == run'[r]
  <2>2. /\ run[r].id \in Ids /\ run[r].calls \in Nat /\ row[i] \in Rows
        /\ (row[i].status = "absent" => row[i] = NoRow) /\ row' = [row EXCEPT ![i] = row'[i]]
        /\ row'[i] = row[i] /\ hurt' = hurt
    BY <1>1, KindsOf
  <2>3. /\ RunOK(m) /\ m.id = i /\ m.calls = run[r].calls /\ ~m.stop /\ m.pc = "ended"
        /\ run' = [run EXCEPT ![r] = m] /\ tasks' = [tasks EXCEPT ![i] = NoRun]
    BY <1>2, <2>1 DEF GoesOn
  <2>4. RowMoves(row[i], row'[i], m) /\ HurtBy(i)
    BY <2>2 DEF RowMoves, HurtBy
  <2>5. EndMoves(i, run[r], m, row'[i])
    BY <1>1, <1>2, <1>4 DEF EndMoves, Told
  <2>6. BillMoves(i, run[r], m, row[i], row'[i])
    BY <2>2, <2>3 DEF BillMoves
  <2>7. Told(m) => Told(run[r])
    BY <2>3 DEF Told
  <2> HIDE DEF i, m
  <2> QED BY <1>1, <2>2, <2>3, <2>4, <2>5, <2>6, <2>7 DEF RunMoves, i, m, env
<1>5. CASE Report(r, me, 6) /\ me.error = "none"
  <2>1. GoesOn(r, me) /\ run'[r].pc # "join" /\ (run'[r].pc = "ended" => me.id \in cancelled)
    BY <1>2, <1>5, ReportGoes DEF Levels
  <2> QED BY <1>1, <1>2, <1>5, <2>1, Continues DEF env
<1>6. CASE Fail(r, me)
  <2>1. GoesOn(r, me) /\ run'[r].pc # "join" /\ (run'[r].pc = "ended" <=> me.id \in cancelled)
    BY <1>2, <1>6, FailGoes
  <2> QED BY <1>1, <1>2, <2>1, Continues DEF env
<1> QED BY <1>3, <1>4, <1>5, <1>6

LEMMA StoreMoves ==
  ASSUME Kinds, NEW r \in Runs, life = "up", Store(r) \/ Excuse(r), UNCHANGED <<row, hurt>>, UNCHANGED <<env, cancelled, req>>
  PROVE  RunMoves(r)
<1>1. Live(r) /\ run[r].pc \in {"store", "excuse"}
  BY DEF Store, Excuse, At, Live
<1>2. run[r] \in RunRecords /\ run[r].id \in Ids
  BY <1>1, KindsOf
<1>3. CASE MayWrite(run[r].id)
  <2>1. \E place \in {"commit", "fail"} : Goto(r, [run[r] EXCEPT !.pc = place, !.seen = row[run[r].id]])
    BY <1>3 DEF Store, Excuse
  <2> QED BY <1>1, <1>2, <1>3, <2>1, Prepares DEF env
<1>4. CASE ~MayWrite(run[r].id)
  <2>1. End(r, run[r])
    BY <1>4 DEF Store, Excuse
  <2>2. GoesOn(r, run[r]) /\ run'[r].pc = "ended"
    BY <1>2, <2>1, EndGoes
  <2>3. run[r].id \in cancelled \/ row[run[r].id].status \notin {"pending", "running"}
    BY <1>4, NoRowKind DEF MayWrite, Finished
  <2> QED BY <1>1, <2>2, <2>3, Continues DEF env
<1> QED BY <1>3, <1>4

\* The row after a write of run r
LEMMA WritesRow ==
  ASSUME Kinds, EndsPrepared, NEW r \in Runs, Live(r), Writing(run[r]),
         row' = [row EXCEPT ![run[r].id] = Written(run[r])]
  PROVE  LET me == run[r]  a == row[me.id]  w == row'[me.id] IN
         /\ row' = [row EXCEPT ![me.id] = w]
         /\ w \in Rows /\ (w.status = "absent" => w = NoRow) /\ (w = NoRow <=> a = NoRow)
         /\ w.status \in {a.status, "running"} \/ (me.pc \in {"commit", "fail"} /\ w.status \in {"done", "failed"})
         /\ me.pc \in {"commit", "fail"} => w = NoRow \/ w.status \in {"done", "failed"}
         /\ w.usage = a.usage \/ (me.pc = "bill" /\ w.usage = me.calls)
         /\ me.pc = "bill" /\ a # NoRow => w.usage = me.calls
<1>1. row'[run[r].id] = Written(run[r])
  BY KindsOf
<1> QED BY <1>1, KindsOf, WrittenKind DEF EndsPrepared, Kinds

LEMMA ProgressWriteMoves ==
  ASSUME Kinds, EndsPrepared, NEW r \in Runs, life = "up", ProgressWrite(r), UNCHANGED hurt, UNCHANGED <<env, cancelled, req>>
  PROVE  RunMoves(r)
<1> DEFINE i == run[r].id  m == run'[r]
<1>1. Live(r) /\ run[r].pc = "write"
  BY DEF ProgressWrite, At, Live
<1>2. run[r] \in RunRecords /\ i \in Ids /\ run[r].level \in Levels
  BY <1>1, KindsOf DEF RunOK
<1>3. CASE UpdateMisses(row[i], run[r].seen, WithProgress(run[r].seen, run[r].level))
  <2>1. Raise(r, run[r]) /\ row' = row
    BY <1>3 DEF ProgressWrite
  <2>2. /\ GoesOn(r, run[r]) /\ (run'[r].pc = "join" => run'[r].error = "error")
        /\ (run'[r].pc = "ended" => run[r].id \in cancelled)
    BY <1>2, <2>1, RaiseGoes
  <2> QED BY <1>1, <2>1, <2>2, Continues DEF env
<1>4. CASE ~UpdateMisses(row[i], run[r].seen, WithProgress(run[r].seen, run[r].level))
  <2> DEFINE me == [run[r] EXCEPT !.seen = NoRow]
  <2>1. row' = [row EXCEPT ![i] = Written(run[r])] /\ Proceed(r, me, run[r].level)
    BY <1>4 DEF ProgressWrite
  <2>2. me \in RunRecords /\ me.id = i /\ me.calls = run[r].calls /\ me.stop = run[r].stop
    BY <1>2, NoRowKind DEF RunRecords
  <2> HIDE DEF me
  <2>3. /\ RunOK(m) /\ m.id = i /\ m.calls = run[r].calls /\ (m.stop => run[r].stop)
        /\ m.pc \notin {"free", "bill", "write", "commit", "fail", "join"} /\ run' = [run EXCEPT ![r] = m]
        /\ tasks' = tasks \/ (m.pc = "ended" /\ tasks' = [tasks EXCEPT ![i] = NoRun])
        /\ m.pc = "ended" => i \in cancelled
    BY <1>2, <2>1, <2>2, ProceedGoes DEF GoesOn
  <2> DEFINE w == row'[i]
  <2>4. /\ row' = [row EXCEPT ![i] = w] /\ w \in Rows /\ (w.status = "absent" => w = NoRow)
        /\ (w = NoRow <=> row[i] = NoRow) /\ w.status \in {row[i].status, "running"} /\ w.usage = row[i].usage
    BY <1>1, <2>1, WritesRow DEF Writing
  <2>5. RowMoves(row[i], w, m) /\ HurtBy(i)
    BY <2>4 DEF RowMoves, HurtBy
  <2>6. EndMoves(i, run[r], m, w)
    BY <2>3 DEF EndMoves
  <2>7. BillMoves(i, run[r], m, row[i], w)
    BY <1>1, <2>3, <2>4 DEF BillMoves, Paid
  <2>8. Told(m) => Told(run[r])
    BY <2>3 DEF Told
  <2> HIDE DEF i, m, w
  <2> QED BY <1>1, <2>3, <2>4, <2>5, <2>6, <2>7, <2>8 DEF RunMoves, i, m, w, env
<1> QED BY <1>3, <1>4

LEMMA BillMovesRun ==
  ASSUME Kinds, EndsPrepared, NEW r \in Runs, life = "up", Bill(r), UNCHANGED hurt, UNCHANGED <<env, cancelled, req>>
  PROVE  RunMoves(r)
<1> DEFINE i == run[r].id  m == run'[r]  w == row'[i]
<1>1. Live(r) /\ run[r].pc = "bill"
  BY DEF Bill, At, Live
<1>2. run[r] \in RunRecords /\ i \in Ids /\ run[r].calls \in Nat
  BY <1>1, KindsOf
<1>3. GoesOn(r, run[r]) /\ (m.pc = "join" => m.error # "cancelled") /\ (m.pc = "ended" => i \in cancelled)
  <2>1. CASE run[r].answer = "empty" /\ run[r].attempt = 1
    <3> DEFINE n == [run[r] EXCEPT !.pc = "model", !.attempt = 2, !.answer = "none"]
    <3>1. Goto(r, n)
      BY <2>1 DEF Bill
    <3>2. n.id = i /\ n.calls = run[r].calls /\ n.stop = run[r].stop /\ n.pc = "model"
      BY <1>2 DEF RunRecords
    <3>3. n \in RunRecords
      <4>1. [run[r] EXCEPT !.pc = "model"] \in RunRecords
        BY <1>2 DEF RunRecords, RunPlaces
      <4>2. [run[r] EXCEPT !.pc = "model", !.attempt = 2] \in RunRecords
        BY <4>1 DEF RunRecords
      <4> QED BY <4>2 DEF RunRecords
    <3> HIDE DEF n
    <3>4. GoesOn(r, run[r]) /\ m = n
      BY <1>2, <3>1, <3>2, <3>3, GotoGoes, MovedKind
    <3> QED BY <3>2, <3>4
  <2>2. CASE /\ ~(run[r].answer = "empty" /\ run[r].attempt = 1)
             /\ run[r].answer = "good" /\ run[r].phase = "draft" /\ run[r].quality
    <3> DEFINE n == [run[r] EXCEPT !.answer = "none"]
    <3>1. Report(r, n, 4)
      BY <2>2 DEF Bill
    <3>2. n.id = i /\ n.calls = run[r].calls /\ n.stop = run[r].stop /\ n \in RunRecords
      BY <1>2 DEF RunRecords
    <3> HIDE DEF n
    <3>3. GoesOn(r, n) /\ m.pc # "join" /\ (m.pc = "ended" => i \in cancelled)
      BY <1>2, <3>1, <3>2, ReportGoes DEF Levels
    <3> QED BY <3>2, <3>3 DEF GoesOn
  <2>3. CASE /\ ~(run[r].answer = "empty" /\ run[r].attempt = 1)
             /\ ~(run[r].answer = "good" /\ run[r].phase = "draft" /\ run[r].quality)
    <3> DEFINE e == IF run[r].answer = "good" THEN "none" ELSE "error"
               n == [run[r] EXCEPT !.pc = "join", !.answer = "none", !.error = e]
    <3>1. Goto(r, n)
      BY <2>3 DEF Bill
    <3>2. n.id = i /\ n.calls = run[r].calls /\ n.stop = run[r].stop /\ n.pc = "join" /\ n.error = e
      BY <1>2 DEF RunRecords
    <3>3. n \in RunRecords
      BY ZenonT(30), <1>2 DEF RunRecords, RunPlaces
    <3>4. e # "cancelled"
      OBVIOUS
    <3> HIDE DEF n, e
    <3>5. GoesOn(r, run[r]) /\ m = n
      BY <1>2, <3>1, <3>2, <3>3, GotoGoes, MovedKind
    <3> QED BY <3>2, <3>4, <3>5
  <2> QED BY <2>1, <2>2, <2>3
<1>4. /\ RunOK(m) /\ m.id = i /\ m.calls = run[r].calls /\ (m.stop => run[r].stop)
      /\ m.pc \notin {"free", "bill", "write", "commit", "fail"} /\ run' = [run EXCEPT ![r] = m]
      /\ tasks' = tasks \/ (m.pc = "ended" /\ tasks' = [tasks EXCEPT ![i] = NoRun])
  BY <1>3 DEF GoesOn
<1>5. row' = [row EXCEPT ![i] = Written(run[r])]
  BY DEF Bill
<1>6. /\ row' = [row EXCEPT ![i] = w] /\ w \in Rows /\ (w.status = "absent" => w = NoRow)
      /\ (w = NoRow <=> row[i] = NoRow) /\ w.status \in {row[i].status, "running"}
      /\ w = NoRow \/ w.usage = run[r].calls
  BY <1>1, <1>5, WritesRow DEF Writing
<1>7. RowMoves(row[i], w, m) /\ HurtBy(i)
  BY <1>6 DEF RowMoves, HurtBy
<1>8. EndMoves(i, run[r], m, w)
  BY <1>3 DEF EndMoves
<1>9. BillMoves(i, run[r], m, row[i], w)
  BY <1>1, <1>2, <1>4, <1>6 DEF BillMoves, Paid
<1>10. Told(m) => Told(run[r])
  BY <1>3, <1>4 DEF Told
<1> HIDE DEF i, m, w
<1> QED BY <1>1, <1>4, <1>6, <1>7, <1>8, <1>9, <1>10 DEF RunMoves, i, m, w, env

LEMMA TimeoutMoves ==
  ASSUME Kinds, EndsPrepared, NEW r \in Runs, life = "up", Timeout(r), UNCHANGED <<env, cancelled, req>>
  PROVE  RunMoves(r)
<1> DEFINE i == run[r].id  m == Stopping(run[r], "error")  w == row'[i]
<1>1. Live(r) /\ run[r].pc \notin {"join", "commit", "fail"}
  BY DEF Timeout, InPipeline, Live
<1>2. run[r] \in RunRecords /\ i \in Ids /\ run[r].calls \in Nat
  BY <1>1, KindsOf
<1>3. Goto(r, m)
  BY DEF Timeout, Stopping
<1>4. run'[r] = m /\ run' = [run EXCEPT ![r] = m] /\ tasks' = tasks
  BY <1>3 DEF Goto, Kinds
<1>5. /\ RunOK(m) /\ m.id = i /\ m.calls = run[r].calls /\ m.stop = run[r].stop
      /\ m.pc = "join" /\ m.error = "error"
  BY <1>2, StoppingKind
<1> HIDE DEF m
<1>6. EndMoves(i, run[r], m, w)
  BY <1>5 DEF EndMoves
<1>7. Told(m) => Told(run[r])
  BY <1>5 DEF Told
<1>8. CASE Writing(run[r]) /\ row' = [row EXCEPT ![i] = Written(run[r])] /\ UNCHANGED hurt
  <2>1. /\ row' = [row EXCEPT ![i] = w] /\ w \in Rows /\ (w.status = "absent" => w = NoRow)
        /\ (w = NoRow <=> row[i] = NoRow) /\ w.status \in {row[i].status, "running"}
        /\ run[r].pc = "bill" => w = NoRow \/ w.usage = run[r].calls
        /\ w.usage = row[i].usage \/ run[r].pc = "bill"
    BY <1>1, <1>8, WritesRow
  <2>2. RowMoves(row[i], w, m) /\ HurtBy(i)
    BY <1>8, <2>1 DEF RowMoves, HurtBy
  <2>3. BillMoves(i, run[r], m, row[i], w)
    BY <1>1, <1>2, <1>5, <2>1 DEF BillMoves, Paid
  <2> HIDE DEF i, w
  <2> QED BY <1>1, <1>4, <1>5, <1>6, <1>7, <2>1, <2>2, <2>3 DEF RunMoves, i, w, env
<1>9. CASE UNCHANGED row /\ hurt' = IF run[r].pc = "bill" THEN hurt \cup {<<i, "fault">>} ELSE hurt
  <2>1. /\ row' = [row EXCEPT ![i] = w] /\ w \in Rows /\ (w.status = "absent" => w = NoRow) /\ w = row[i]
    BY <1>1, <1>9, KindsOf
  <2>2. RowMoves(row[i], w, m) /\ HurtBy(i)
    BY <1>9, <2>1 DEF RowMoves, HurtBy
  <2>3. BillMoves(i, run[r], m, row[i], w)
    BY <1>1, <1>2, <1>5, <1>9, <2>1 DEF BillMoves, Paid
  <2> HIDE DEF i, w
  <2> QED BY <1>1, <1>4, <1>5, <1>6, <1>7, <2>1, <2>2, <2>3 DEF RunMoves, i, w, env
<1> QED BY <1>8, <1>9 DEF Timeout

\* The last write of a run, or none because the row is gone
LEMMA CommitMoves ==
  ASSUME Kinds, EndsPrepared, NEW r \in Runs, life = "up", StoreCommit(r) \/ FailCommit(r),
         UNCHANGED hurt, UNCHANGED <<env, cancelled, req>>
  PROVE  RunMoves(r)
<1> DEFINE i == run[r].id  m == run'[r]  w == row'[i]
<1>1. Live(r) /\ run[r].pc \in {"commit", "fail"}
  BY DEF StoreCommit, FailCommit, At, Live
<1>2. run[r] \in RunRecords /\ i \in Ids /\ run[r].calls \in Nat
  BY <1>1, KindsOf
<1>3. CASE Raise(r, run[r]) /\ UNCHANGED row
  <2>1. /\ GoesOn(r, run[r]) /\ (run'[r].pc = "join" => run'[r].error = "error")
        /\ (run'[r].pc = "ended" => run[r].id \in cancelled)
    BY <1>2, <1>3, RaiseGoes
  <2> QED BY <1>1, <1>3, <2>1, Continues DEF env
<1>4. CASE row' = [row EXCEPT ![i] = Written(run[r])] /\ End(r, run[r])
  <2>1. /\ row' = [row EXCEPT ![i] = w] /\ w \in Rows /\ (w.status = "absent" => w = NoRow)
        /\ (w = NoRow <=> row[i] = NoRow)
        /\ w = NoRow \/ w.status \in {"done", "failed"}
        /\ w.usage = row[i].usage
    BY <1>1, <1>4, WritesRow DEF Writing
  <2>2. /\ RunOK(m) /\ m.id = i /\ m.calls = run[r].calls /\ m.pc = "ended" /\ (m.stop => run[r].stop)
        /\ run' = [run EXCEPT ![r] = m] /\ tasks' = [tasks EXCEPT ![i] = NoRun]
    BY <1>2, <1>4, EndGoes DEF GoesOn
  <2>3. RowMoves(row[i], w, m) /\ HurtBy(i)
    BY <2>1, <2>2, NoRowKind DEF RowMoves, HurtBy
  <2>4. EndMoves(i, run[r], m, w)
    BY <2>1, NoRowKind DEF EndMoves
  <2>5. BillMoves(i, run[r], m, row[i], w)
    BY <1>1, <1>2, <2>1, <2>2 DEF BillMoves, Paid
  <2>6. Told(m) => Told(run[r])
    BY <2>2 DEF Told
  <2> HIDE DEF i, m, w
  <2> QED BY <1>1, <2>1, <2>2, <2>3, <2>4, <2>5, <2>6 DEF RunMoves, i, m, w, env
<1> QED BY <1>3, <1>4 DEF StoreCommit, FailCommit

LEMMA UnwindMoves ==
  ASSUME Kinds, EndsPrepared, NEW r \in Runs, life = "up", Unwind(r), UNCHANGED <<env, cancelled, req>>
  PROVE  RunMoves(r)
<1> DEFINE i == run[r].id  m == run'[r]  w == row'[i]
           me == [run[r] EXCEPT !.stop = FALSE]
<1>1. Live(r) /\ run[r].pc # "join" /\ Told(run[r])
  BY DEF Unwind, Told
<1>2. run[r] \in RunRecords /\ i \in Ids /\ run[r].calls \in Nat
  BY <1>1, KindsOf
<1>3. me \in RunRecords /\ me.id = i /\ me.calls = run[r].calls /\ me.pc = run[r].pc
  BY <1>2 DEF RunRecords
<1>4. /\ RunOK(m) /\ m.id = i /\ run' = [run EXCEPT ![r] = m]
      /\ tasks' = tasks \/ (m.pc = "ended" /\ tasks' = [tasks EXCEPT ![i] = NoRun])
      /\ m.pc = "ended" \/ (m.pc = "join" /\ m.error = "cancelled")
      /\ m.pc = "ended" => run[r].pc \notin {"bill", "model"}
  <2>1. CASE InPipeline(me) /\ Goto(r, Stopping(me, "cancelled"))
    <3>1. m = Stopping(me, "cancelled") /\ run' = [run EXCEPT ![r] = m] /\ tasks' = tasks
      BY <2>1 DEF Goto, Kinds
    <3> HIDE DEF me
    <3> QED BY <1>2, <1>3, <3>1, StoppingKind
  <2>2. CASE ~InPipeline(me) /\ End(r, me)
    <3>1. run[r].pc \notin {"bill", "model"}
      BY <1>3, <2>2 DEF InPipeline
    <3> HIDE DEF me
    <3> QED BY <1>2, <1>3, <2>2, <3>1, EndGoes DEF GoesOn
  <2>3. CASE me.pc = "load" /\ Goto(r, [FreeRun EXCEPT !.pc = "ended", !.id = me.id])
    <3> DEFINE n == [FreeRun EXCEPT !.pc = "ended", !.id = me.id]
    <3>1. m = n /\ run' = [run EXCEPT ![r] = m] /\ tasks' = tasks
      BY <2>3 DEF Goto, Kinds
    <3>2. n.id = i /\ n.pc = "ended" /\ n.tick = "off"
      BY <1>3 DEF FreeRun
    <3> HIDE DEF me
    <3>3. n \in RunRecords
      BY ZenonT(30), <1>2, <1>3, NoRowKind DEF RunRecords, FreeRun, RunPlaces
    <3> HIDE DEF n
    <3>4. RunOK(n)
      BY <1>2, <3>2, <3>3 DEF RunOK
    <3> QED BY <1>3, <2>3, <3>1, <3>2, <3>4
  <2> QED BY <2>1, <2>2, <2>3 DEF Unwind, Stopping
<1>5. EndMoves(i, run[r], m, w)
  BY <1>1 DEF EndMoves
<1>6. Told(m) => Told(run[r])
  BY <1>1
<1>7. CASE UNCHANGED <<row, hurt>>
  <2>1. row' = [row EXCEPT ![i] = w] /\ w \in Rows /\ (w.status = "absent" => w = NoRow) /\ w = row[i]
    BY <1>1, <1>7, KindsOf
  <2>2. RowMoves(row[i], w, m) /\ HurtBy(i)
    BY <1>7, <2>1 DEF RowMoves, HurtBy
  <2>3. BillMoves(i, run[r], m, row[i], w)
    BY <1>1, <1>4, <2>1 DEF BillMoves
  <2> HIDE DEF i, m, w, me
  <2> QED BY <1>1, <1>4, <1>5, <1>6, <2>1, <2>2, <2>3 DEF RunMoves, i, m, w, env
<1>8. CASE /\ Writing(run[r]) /\ row' = [row EXCEPT ![i] = Written(run[r])]
           /\ hurt' = IF run[r].pc \in {"commit", "fail"} THEN hurt \cup {<<i, "late cancel">>} ELSE hurt
  <2>1. /\ row' = [row EXCEPT ![i] = w] /\ w \in Rows /\ (w.status = "absent" => w = NoRow)
        /\ (w = NoRow <=> row[i] = NoRow)
        /\ w.status \in {row[i].status, "running"} \/ (run[r].pc \in {"commit", "fail"} /\ w.status \in {"done", "failed"})
        /\ w.usage = row[i].usage \/ run[r].pc = "bill"
    BY <1>1, <1>8, WritesRow
  <2>2. CASE m.pc = "ended"
    <3>1. RowMoves(row[i], w, m)
      BY <2>1, <2>2 DEF RowMoves
    <3>2. HurtBy(i)
      BY <1>8 DEF HurtBy
    <3>3. w.usage = row[i].usage
      BY <1>4, <2>1, <2>2
    <3>4. m.calls = run[r].calls \/ w.status \in {row[i].status, "running"}
      <4>1. CASE run[r].pc \in {"commit", "fail"}
        <5>1. End(r, me)
          BY <1>3, <4>1 DEF Unwind, InPipeline
        <5> HIDE DEF me
        <5> QED BY <1>2, <1>3, <5>1, EndGoes DEF GoesOn
      <4> QED BY <2>1, <4>1
    <3>5. BillMoves(i, run[r], m, row[i], w)
      BY <1>1, <1>2, <1>4, <2>2, <3>3, <3>4 DEF BillMoves, Paid
    <3> HIDE DEF i, m, w, me
    <3> QED BY <1>1, <1>4, <1>5, <1>6, <2>1, <2>2, <3>1, <3>2, <3>5 DEF RunMoves, i, m, w, env
  <2>3. CASE m.pc = "join" /\ m.error = "cancelled"
    <3>1. run[r].pc \notin {"commit", "fail"}
      <4>1. m.pc # "ended" => InPipeline(me)
        <5>1. CASE ~InPipeline(me) /\ End(r, me)
          <6> HIDE DEF me
          <6> QED BY <1>2, <1>3, <5>1, EndGoes
        <5>2. CASE me.pc = "load" /\ Goto(r, [FreeRun EXCEPT !.pc = "ended", !.id = me.id])
          BY <5>2 DEF Goto, Kinds, FreeRun
        <5> QED BY <5>1, <5>2 DEF Unwind
      <4> QED BY <1>3, <2>3, <4>1 DEF InPipeline
    <3>2. RowMoves(row[i], w, m) /\ HurtBy(i)
      BY <1>8, <2>1, <3>1 DEF RowMoves, HurtBy
    <3>3. BillMoves(i, run[r], m, row[i], w)
      BY <1>1, <2>3 DEF BillMoves
    <3> HIDE DEF i, m, w, me
    <3> QED BY <1>1, <1>4, <1>5, <1>6, <2>1, <2>3, <3>2, <3>3 DEF RunMoves, i, m, w, env
  <2> QED BY <1>4, <2>2, <2>3
<1>9. Writing(me) => Writing(run[r]) /\ Written(me) = Written(run[r])
  <2>1. me.seen = run[r].seen /\ me.level = run[r].level
    BY <1>2 DEF RunRecords
  <2> HIDE DEF me
  <2> QED BY <1>3, <2>1 DEF Writing, Written, Usage
<1> QED BY <1>3, <1>7, <1>8, <1>9 DEF Unwind

LEMMA RunFaultMoves ==
  ASSUME Kinds, EndsPrepared, NEW r \in Runs, life = "up", RunFault(r), UNCHANGED req, UNCHANGED <<life, row, cancelled>>
  PROVE  RunMoves(r)
<1> DEFINE i == run[r].id  m == run'[r]  w == row'[i]
<1>1. Live(r) /\ run[r].pc # "join"
  BY DEF RunFault, At, Live
<1>2. run[r] \in RunRecords /\ i \in Ids /\ run[r].calls \in Nat
  BY <1>1, KindsOf
<1>3. Raise(r, run[r]) \/ (run[r].pc \in {"excuse", "fail"} /\ End(r, run[r]))
  BY DEF RunFault, At
<1>4. hurt' = IF run[r].pc \in {"bill", "excuse", "fail"} THEN hurt \cup {<<i, "fault">>} ELSE hurt
  BY DEF RunFault
<1>5. /\ GoesOn(r, run[r]) /\ (m.pc = "join" => m.error = "error")
      /\ (m.pc = "ended" => i \in cancelled \/ <<i, "fault">> \in hurt')
  <2>1. CASE Raise(r, run[r])
    BY <1>2, <2>1, RaiseGoes
  <2>2. CASE run[r].pc \in {"excuse", "fail"} /\ End(r, run[r])
    BY <1>2, <1>4, <2>2, EndGoes
  <2> QED BY <1>3, <2>1, <2>2
<1>6. /\ RunOK(m) /\ m.id = i /\ m.calls = run[r].calls /\ (m.stop => run[r].stop)
      /\ m.pc \notin {"free", "bill", "write", "commit", "fail"} /\ run' = [run EXCEPT ![r] = m]
      /\ tasks' = tasks \/ (m.pc = "ended" /\ tasks' = [tasks EXCEPT ![i] = NoRun])
  BY <1>5 DEF GoesOn
<1>7. row' = [row EXCEPT ![i] = w] /\ w \in Rows /\ (w.status = "absent" => w = NoRow) /\ w = row[i]
  BY <1>1, KindsOf
<1>8. RowMoves(row[i], w, m) /\ HurtBy(i)
  BY <1>4, <1>7 DEF RowMoves, HurtBy
<1>9. EndMoves(i, run[r], m, w)
  BY <1>5 DEF EndMoves
<1>10. BillMoves(i, run[r], m, row[i], w)
  BY <1>1, <1>2, <1>4, <1>6, <1>7 DEF BillMoves, Paid
<1>11. Told(m) => Told(run[r])
  BY <1>5, <1>6 DEF Told
<1> HIDE DEF i, m, w
<1> QED BY <1>1, <1>6, <1>7, <1>8, <1>9, <1>10, <1>11 DEF RunMoves, i, m, w

\* The ticker touches its own part of the run's record, and the progress.
LEMMA Ticks ==
  ASSUME Kinds, EndsPrepared, NEW r \in Runs, life = "up", run[r].tick \in {"sleep", "read", "write"},
         NEW m \in RunRecords, m.pc = run[r].pc, m.id = run[r].id, m.calls = run[r].calls, m.stop = run[r].stop,
         m.error = run[r].error, m.seen = run[r].seen, m.level = run[r].level, Goto(r, m),
         row' = row \/ row' = [row EXCEPT ![run[r].id] = TickWritten(run[r])],
         UNCHANGED <<life, cancelled, req, hurt>>
  PROVE  RunMoves(r)
<1> DEFINE i == run[r].id  w == row'[i]
<1>1. Live(r)
  BY DEF Kinds, RunOK, Live
<1>2. run[r] \in RunRecords /\ i \in Ids /\ RunOK(run[r])
  BY <1>1, KindsOf
<1>3. RunOK(m) /\ m.pc # "free" /\ m.pc # "ended"
  BY <1>1, <1>2 DEF RunOK, Live
<1>4. run'[r] = m /\ run' = [run EXCEPT ![r] = m] /\ tasks' = tasks
  BY DEF Goto, Kinds
<1>5. /\ row' = [row EXCEPT ![i] = w] /\ w \in Rows /\ (w.status = "absent" => w = NoRow)
      /\ (w = NoRow <=> row[i] = NoRow) /\ w.status \in {row[i].status, "running"} /\ w.usage = row[i].usage
  <2>1. CASE row' = row
    BY <1>1, <2>1, KindsOf
  <2>2. CASE row' = [row EXCEPT ![i] = TickWritten(run[r])]
    <3> DEFINE b == run[r].tickSeen  c == WithProgress(b, run[r].tickLevel)
    <3>1. b \in Rows /\ run[r].tickLevel \in Nat
      BY <1>2 DEF RunRecords
    <3>2. c \in Rows /\ c.status = "running" /\ c.usage = b.usage
      BY ZenonT(30), <3>1, ProgressKind
    <3>3. w = OrmUpdate(row[i], b, c) /\ row' = [row EXCEPT ![i] = w]
      BY <1>1, <2>2, KindsOf DEF TickWritten
    <3>4. row[i] \in Rows /\ (row[i].status = "absent" => row[i] = NoRow)
      BY <1>1, KindsOf
    <3> HIDE DEF b, c, w, i
    <3> QED BY <3>1, <3>2, <3>3, <3>4, FlushKind, NoRowKind
  <2> QED BY <2>1, <2>2
<1>6. RowMoves(row[i], w, m) /\ HurtBy(i)
  BY <1>5 DEF RowMoves, HurtBy
<1>7. EndMoves(i, run[r], m, w)
  BY <1>3 DEF EndMoves
<1>8. BillMoves(i, run[r], m, row[i], w)
  BY <1>5 DEF BillMoves, Paid
<1>9. Told(m) => Told(run[r])
  BY DEF Told
<1>10. m.pc \in {"commit", "fail"} => m.seen.status \notin Terminal
  BY DEF EndsPrepared
<1> HIDE DEF i, w
<1> QED BY <1>1, <1>3, <1>4, <1>5, <1>6, <1>7, <1>8, <1>9, <1>10 DEF RunMoves, i, w

LEMMA TickMoves ==
  ASSUME Kinds, EndsPrepared, NEW r \in Runs,
         \/ TickStep(r)
         \/ life = "up" /\ TickFault(r) /\ UNCHANGED req /\ UNCHANGED <<life, row, cancelled>>
  PROVE  RunMoves(r)
<1>1. life = "up" /\ run[r].tick \in {"sleep", "read", "write"} /\ UNCHANGED <<life, cancelled, req, hurt>>
  BY DEF TickStep, TickWake, TickRead, TickWrite, TickStop, TickFault, TickAt, env
<1>2. Live(r)
  BY <1>1 DEF Kinds, RunOK, Live
<1>3. run[r] \in RunRecords /\ run[r].id \in Ids /\ row[run[r].id] \in Rows
  BY <1>2, KindsOf
<1>4. ASSUME NEW tick \in {"sleep", "ended", "died"}, Goto(r, [run[r] EXCEPT !.tick = tick, !.tickSeen = NoRow]),
             row' = row \/ row' = [row EXCEPT ![run[r].id] = TickWritten(run[r])]
      PROVE  RunMoves(r)
  <2> DEFINE m == [run[r] EXCEPT !.tick = tick, !.tickSeen = NoRow]
  <2>1. /\ m.pc = run[r].pc /\ m.id = run[r].id /\ m.calls = run[r].calls /\ m.stop = run[r].stop
        /\ m.error = run[r].error /\ m.seen = run[r].seen /\ m.level = run[r].level
    BY <1>3 DEF RunRecords
  <2>2. m \in RunRecords
    BY <1>3, NoRowKind DEF RunRecords
  <2> HIDE DEF m
  <2>3. Goto(r, m)
    BY <1>4 DEF m
  <2> QED BY <1>1, <1>4, <2>1, <2>2, <2>3, Ticks
<1>5. ASSUME row' = row \/ row' = [row EXCEPT ![run[r].id] = TickWritten(run[r])], TickLoop(r)
      PROVE  RunMoves(r)
  <2> DEFINE tick == IF run[r].id \in cancelled THEN "ended" ELSE "sleep"
  <2>1. Goto(r, [run[r] EXCEPT !.tick = tick, !.tickSeen = NoRow]) /\ tick \in {"sleep", "ended", "died"}
    <3>1. [run[r] EXCEPT !.tickSeen = NoRow, !.tick = tick] = [run[r] EXCEPT !.tick = tick, !.tickSeen = NoRow]
      BY <1>3 DEF RunRecords
    <3> QED BY <1>5, <3>1 DEF TickLoop
  <2> HIDE DEF tick
  <2> QED BY <1>4, <1>5, <2>1
<1>6. ASSUME NEW p \in TickLevels, Goto(r, [run[r] EXCEPT !.tick = "read", !.tickLevel = p]), row' = row
      PROVE  RunMoves(r)
  <2> DEFINE m == [run[r] EXCEPT !.tick = "read", !.tickLevel = p]
  <2>1. /\ m.pc = run[r].pc /\ m.id = run[r].id /\ m.calls = run[r].calls /\ m.stop = run[r].stop
        /\ m.error = run[r].error /\ m.seen = run[r].seen /\ m.level = run[r].level
    BY <1>3 DEF RunRecords
  <2>2. m \in RunRecords
    <3>1. p \in {0, 3, 5}
      OBVIOUS
    <3>2. [run[r] EXCEPT !.tick = "read"] \in RunRecords
      BY <1>3 DEF RunRecords
    <3> QED BY <3>1, <3>2 DEF RunRecords
  <2> HIDE DEF m
  <2>3. Goto(r, m)
    BY <1>6 DEF m
  <2> QED BY <1>1, <1>6, <2>1, <2>2, <2>3, Ticks
<1>7. ASSUME Goto(r, [run[r] EXCEPT !.tick = "write", !.tickSeen = row[run[r].id]]), row' = row
      PROVE  RunMoves(r)
  <2> DEFINE m == [run[r] EXCEPT !.tick = "write", !.tickSeen = row[run[r].id]]
  <2>1. /\ m.pc = run[r].pc /\ m.id = run[r].id /\ m.calls = run[r].calls /\ m.stop = run[r].stop
        /\ m.error = run[r].error /\ m.seen = run[r].seen /\ m.level = run[r].level
    BY <1>3 DEF RunRecords
  <2>2. m \in RunRecords
    BY <1>3 DEF RunRecords
  <2> HIDE DEF m
  <2>3. Goto(r, m)
    BY <1>7 DEF m
  <2> QED BY <1>1, <1>7, <2>1, <2>2, <2>3, Ticks
<1>8. CASE TickWake(r) /\ UNCHANGED row
  BY <1>5, <1>6, <1>8 DEF TickWake
<1>9. CASE TickRead(r) /\ UNCHANGED row
  BY <1>5, <1>7, <1>9 DEF TickRead
<1>10. CASE TickWrite(r)
  BY <1>4, <1>5, <1>10 DEF TickWrite
<1>11. CASE TickStop(r)
  BY <1>4, <1>11 DEF TickStop
<1>12. CASE TickFault(r) /\ UNCHANGED row
  BY <1>4, <1>12 DEF TickFault
<1> QED BY <1>8, <1>9, <1>10, <1>11, <1>12 DEF TickStep

\* Every step of a run
LEMMA AllRunMoves ==
  ASSUME Kinds, EndsPrepared, NEW r \in Runs,
         \/ RunStep(r) \/ TickStep(r)
         \/ life = "up" /\ (RunFault(r) \/ TickFault(r)) /\ UNCHANGED req /\ UNCHANGED <<life, row, cancelled>>
  PROVE  RunMoves(r)
<1>1. CASE RunStep(r)
  BY <1>1, LoadMoves, ProgressReadMoves, ReferenceMoves, ModelAnswersMoves, ModelFailsMoves, JoinMoves, StoreMoves,
     ProgressWriteMoves, BillMovesRun, CommitMoves, TimeoutMoves, UnwindMoves DEF RunStep
<1>2. CASE TickStep(r) \/ (life = "up" /\ TickFault(r) /\ UNCHANGED req /\ UNCHANGED <<life, row, cancelled>>)
  BY <1>2, TickMoves
<1>3. CASE life = "up" /\ RunFault(r) /\ UNCHANGED req /\ UNCHANGED <<life, row, cancelled>>
  BY <1>3, RunFaultMoves
<1> QED BY <1>1, <1>2, <1>3

-----------------------------------------------------------------------------
(* Every step keeps the invariant.  First the steps of a run and its ticker. *)

LEMMA HurtKeeps ==
  ASSUME NEW i, HurtBy(i)
  PROVE  /\ \A j : \A what \in {"reset", "early cancel", "crash"} : <<j, what>> \in hurt' <=> <<j, what>> \in hurt
         /\ \A j, what : <<j, what>> \in hurt => <<j, what>> \in hurt'
         /\ Calm' <=> Calm
         /\ \A j : Undisturbed(j)' <=> Undisturbed(j)
         /\ \A j, S : Spared(j, S)' => Spared(j, S)
<1>1. \A j : \A what \in {"reset", "early cancel", "crash"} : <<j, what>> \in hurt' <=> <<j, what>> \in hurt
  BY DEF HurtBy
<1>2. \A j, what : <<j, what>> \in hurt => <<j, what>> \in hurt'
  BY DEF HurtBy
<1> QED BY <1>1, <1>2 DEF Calm, Undisturbed, Spared

LEMMA RunKeeps ==
  ASSUME IInv, NEW r \in Runs, RunMoves(r)
  PROVE  IInv'
<1> DEFINE i == run[r].id  m == run'[r]  w == row'[i]
<1> USE DEF IInv
<1>1. /\ i \in Ids /\ i # NoId /\ Live(r) /\ life = "up" /\ UNCHANGED <<life, cancelled, req>>
      /\ m.id = i /\ RunOK(m) /\ m.pc # "free"
  BY KindsOf DEF RunMoves
<1>2. ASSUME NEW q \in Runs
      PROVE  /\ q # r => run'[q] = run[q]
             /\ run'[q].id = run[q].id /\ (Exists(q)' <=> Exists(q)) /\ (Live(q)' => Live(q))
  BY <1>1 DEF RunMoves, Exists, Live, Kinds
<1>3. /\ w \in Rows /\ (w.status = "absent" => w = NoRow) /\ (w = NoRow <=> row[i] = NoRow)
      /\ w.status \in {row[i].status, "running"} \/ (m.pc = "ended" /\ w.status \in {"done", "failed"})
      /\ \A j \in Ids \ {i} : row'[j] = row[j]
  BY <1>1 DEF RunMoves, RowMoves, Kinds, TablesOK
<1>4. tasks' = tasks \/ (m.pc = "ended" /\ tasks' = [tasks EXCEPT ![i] = NoRun])
  BY DEF RunMoves
<1>5. /\ \A j : \A what \in {"reset", "early cancel", "crash"} : <<j, what>> \in hurt' <=> <<j, what>> \in hurt
      /\ \A j, what : <<j, what>> \in hurt => <<j, what>> \in hurt'
      /\ Calm' <=> Calm
      /\ \A j : Undisturbed(j)' <=> Undisturbed(j)
      /\ \A j, S : Spared(j, S)' => Spared(j, S)
  BY HurtKeeps DEF RunMoves
<1>6. EndMoves(i, run[r], m, w) /\ BillMoves(i, run[r], m, row[i], w)
  BY DEF RunMoves
<1>7. Told(m) => Told(run[r])
  BY DEF RunMoves
<1> HIDE DEF i, m, w
<1>10. Kinds'
  <2>1. TablesOK'
    <3>1. row' \in [Ids -> Rows] /\ \A j \in Ids : row'[j].status = "absent" => row'[j] = NoRow
      BY <1>1, <1>3 DEF RunMoves, Kinds, TablesOK, i, w
    <3>2. tasks' \in [Ids -> Runs \cup {NoRun}]
      BY <1>1, <1>4 DEF Kinds, TablesOK
    <3> QED BY <3>1, <3>2 DEF TablesOK
  <2>2. run' \in [Runs -> RunRecords] /\ \A q \in Runs : RunOK(run'[q])
    BY <1>1, <1>2 DEF RunMoves, Kinds, RunOK, m
  <2> QED BY <1>1, <2>1, <2>2 DEF Kinds, RequestOK
<1>11. DownIsIdle'
  BY <1>1 DEF DownIsIdle
<1>12. ResetMarks'
  BY <1>1, <1>5 DEF ResetMarks
<1>13. Registered'
  <2>1. ASSUME NEW j \in Ids, tasks'[j] # NoRun
        PROVE  run'[tasks'[j]].pc # "free" /\ run'[tasks'[j]].id = j
    <3>1. tasks'[j] = tasks[j] /\ tasks[j] \in Runs
      BY <1>1, <1>4, <2>1 DEF Kinds, TablesOK
    <3>2. Exists(tasks[j]) /\ run[tasks[j]].id = j
      BY <2>1, <3>1 DEF Registered
    <3> QED BY <1>2, <3>1, <3>2 DEF Exists
  <2>2. ASSUME Calm', NEW q \in Runs, Live(q)'
        PROVE  tasks'[run'[q].id] = q
    <3>1. tasks[run[q].id] = q /\ run'[q].id = run[q].id /\ run[q].id \in Ids /\ Exists(q)
      BY <1>2, <1>5, <2>2, KindsOf DEF Registered, Exists, Live
    <3>2. run[q].id # i \/ m.pc # "ended"
      BY <1>1, <1>5, <2>2, <3>1 DEF OneOwner, Exists, Live, i, m
    <3> QED BY <1>1, <1>4, <3>1, <3>2 DEF Kinds, TablesOK
  <2> QED BY <2>1, <2>2 DEF Registered, Exists
<1>14. EndsPrepared'
  BY <1>1, <1>2 DEF EndsPrepared, RunMoves, m
<1>15. Calm' => OneOwner'
  <2> SUFFICES ASSUME Calm PROVE OneOwner'
    BY <1>5
  <2>1. \A q, p \in Runs : Exists(q)' /\ Exists(p)' /\ run'[q].id = run'[p].id => q = p
    BY <1>2 DEF OneOwner
  <2>2. \A g \in Requests : req[g].pc = "enqueue" =>
          /\ \A q \in Runs : Exists(q)' => run'[q].id # req[g].id
          /\ \A k \in Requests : OnTask(k, req[g].id, {"enqueue"}) => k = g
    BY <1>2 DEF OneOwner
  <2>3. \A j \in Ids : row'[j] = NoRow <=> row[j] = NoRow
    BY <1>1, <1>3 DEF w
  <2>4. \A q \in Runs : Exists(q)' => row'[run'[q].id] # NoRow
    BY <1>2, <2>3 DEF OneOwner, Kinds, RunOK, Exists
  <2>5. \A j \in cancelled : row'[j] # NoRow
    BY <2>3 DEF OneOwner, Kinds
  <2>6. \A h \in Requests, j \in Ids : OnTask(h, j, {"enqueue", "waiting", "recheck", "mark"}) => row'[j] # NoRow
    BY <2>3 DEF OneOwner
  <2> QED BY <1>1, <2>1, <2>2, <2>4, <2>5, <2>6 DEF OneOwner, OnTask
<1>16. Calm' => EndsByRun'
  <2> SUFFICES ASSUME Calm PROVE EndsByRun'
    BY <1>5
  <2>1. ASSUME NEW q \in Runs, Live(q)'
        PROVE  row'[run'[q].id].status \notin {"done", "failed"}
    <3>1. Live(q) /\ run'[q].id = run[q].id /\ run[q].id \in Ids /\ row[run[q].id].status \notin {"done", "failed"}
      BY <1>2, <2>1, KindsOf DEF EndsByRun
    <3>2. run[q].id # i \/ m.pc # "ended"
      BY <1>1, <2>1, <3>1 DEF OneOwner, Exists, Live, i, m
    <3> QED BY <1>3, <3>1, <3>2 DEF w
  <2>2. ASSUME NEW g \in Requests, req[g].pc = "enqueue"
        PROVE  row'[req[g].id].status \notin {"done", "failed"}
    <3>1. req[g].id \in Ids /\ req[g].id # i
      BY <1>1, <2>2 DEF OneOwner, Exists, Live, Kinds, RequestOK, i
    <3> QED BY <1>3, <2>2, <3>1 DEF EndsByRun
  <2> QED BY <1>1, <2>1, <2>2 DEF EndsByRun
<1>17. StopsCancelled'
  <2>1. ASSUME NEW q \in Runs, Told(run'[q])
        PROVE  Told(run[q])
    BY <1>2, <1>7, <2>1 DEF m
  <2> QED BY <1>1, <1>2, <1>5, <2>1 DEF StopsCancelled
<1>18. StopsAwaited'
  <2> SUFFICES ASSUME Calm, NEW q \in Runs, Live(q)', run'[q].id \in cancelled
               PROVE  \/ \E h \in Cancellers : req[h].id = run'[q].id /\ req[h].pc = "waiting"
                      \/ \E h \in Resetters : req[h].pc = "waiting"
    BY ZenonT(30), <1>1, <1>5 DEF StopsAwaited, OnTask
  <2>1. Live(q) /\ run'[q].id = run[q].id
    BY <1>2
  <2> QED BY <2>1 DEF StopsAwaited, OnTask
<1>19. WaitsForRun'
  <2> SUFFICES ASSUME Calm, NEW h \in Cancellers, req[h].pc = "waiting"
               PROVE  \E q \in req[h].runs : Exists(q)' /\ run'[q].id = req[h].id
    BY <1>1, <1>5 DEF WaitsForRun
  <2>1. PICK q \in req[h].runs : Exists(q) /\ run[q].id = req[h].id
    BY DEF WaitsForRun
  <2>2. q \in Runs
    BY DEF Kinds, RequestRecords, Requests
  <2> QED BY <1>2, <2>1, <2>2
<1>20. CancelsAlone'
  <2> SUFFICES ASSUME NEW h \in Cancellers, NEW j \in Ids, Undisturbed(j)
               PROVE  (/\ OnTask(h, j, {"recheck", "mark"}) =>
                            /\ \A g \in Requests : ~OnTask(g, j, {"enqueue"})
                            /\ \A q \in Runs : run[q].id = j => ~Live(q)
                       /\ OnTask(h, j, {"mark"}) => row[j].status \in {"pending", "running", "cancelled"}
                       /\ OnTask(h, j, {"cancelled"}) => row[j].status = "cancelled")'
    BY <1>5 DEF CancelsAlone
  <2>1. OnTask(h, j, {"recheck", "mark", "cancelled"}) => j # i
    BY <1>1 DEF CancelsAlone, EndedIsIdle, OnTask, Finished, i
  <2> QED BY <1>1, <1>2, <1>3, <2>1 DEF CancelsAlone, OnTask
<1>21. EndedIsIdle'
  <2> SUFFICES ASSUME NEW j \in Ids, Undisturbed(j), Finished(j)'
               PROVE  /\ \A q \in Runs : run[q].id = j => ~Live(q)'
                      /\ \A g \in Requests : ~OnTask(g, j, {"enqueue"})
    BY <1>1, <1>2, <1>5 DEF EndedIsIdle, OnTask
  <2>1. CASE j # i
    BY <1>2, <1>3, <2>1 DEF EndedIsIdle, Finished
  <2>2. CASE j = i
    <3>1. ~Finished(i)
      BY <1>1, <2>2 DEF EndedIsIdle, i
    <3>2. m.pc = "ended"
      BY <1>3, <2>2, <3>1 DEF Finished, w
    <3>3. Calm
      BY <1>1, <2>2 DEF Undisturbed, Spared, ResetMarks, Calm
    <3> QED BY <1>1, <1>2, <2>2, <3>2, <3>3 DEF OneOwner, Exists, Live, OnTask, i, m
  <2> QED BY <2>1, <2>2
<1>22. CancelsPending'
  <2> SUFFICES ASSUME NEW j \in cancelled, j \in Ids, Open(j)', Spared(j, {"fault", "reset"})
               PROVE  \/ \E h \in Requests : OnTask(h, j, {"waiting", "recheck", "mark"})
                      \/ \E h \in Resetters : req[h].pc \in {"waiting", "drop"}
    BY <1>1, <1>5 DEF CancelsPending, OnTask
  <2>1. CASE j # i
    BY <1>3, <2>1 DEF CancelsPending, Open
  <2>2. CASE j = i
    <3>1. Calm
      BY <2>2 DEF Spared, ResetMarks, Calm
    <3> QED BY <1>1, <2>2, <3>1 DEF StopsAwaited, OnTask, Requests, i
  <2> QED BY <2>1, <2>2
<1>23. WorkedOn'
  <2> SUFFICES ASSUME NEW j \in Ids \ cancelled, Open(j)', Spared(j, {"fault", "reset"})'
               PROVE  \/ \E q \in Runs : run'[q].id = j /\ Live(q)'
                      \/ \E g \in Requests : OnTask(g, j, {"enqueue"})
    BY <1>1 DEF WorkedOn, OnTask
  <2>1. CASE j # i
    <3>1. Open(j) /\ Spared(j, {"fault", "reset"})
      BY <1>3, <1>5, <2>1 DEF Open
    <3>2. CASE \E q \in Runs : run[q].id = j /\ Live(q)
      <4>1. PICK q \in Runs : run[q].id = j /\ Live(q)
        BY <3>2
      <4>2. run'[q] = run[q]
        BY <1>2, <2>1, <4>1 DEF i
      <4> QED BY <4>1, <4>2 DEF Live
    <3> QED BY <1>1, <3>1, <3>2 DEF WorkedOn
  <2>2. CASE j = i /\ m.pc # "ended"
    BY <1>1, <2>2 DEF Live, m
  <2>3. CASE j = i /\ m.pc = "ended"
    <3>1. ~Told(run[r])
      <4>1. <<i, "reset">> \notin hurt
        BY <1>5, <2>3 DEF Spared
      <4>2. Calm
        BY <1>1, <4>1 DEF ResetMarks, Calm
      <4> QED BY <2>3, <4>2 DEF StopsCancelled, i
    <3>2. w.status \in {"pending", "running"} /\ <<i, "fault">> \notin hurt'
      BY <2>3 DEF Open, Spared, w
    <3> QED BY <1>6, <2>3, <3>1, <3>2 DEF EndMoves
  <2> QED BY <2>1, <2>2, <2>3
<1>24. Billed'
  <2>1. ASSUME NEW q \in Runs, Exists(q)', Spared(run[q].id, {"fault", "crash", "reset"})'
        PROVE  row'[run'[q].id].usage = Paid(run'[q]) \/ Cut(q)'
    <3>1. Exists(q) /\ run'[q].id = run[q].id /\ run[q].id \in Ids /\ Spared(run[q].id, {"fault", "crash", "reset"})
      BY <1>2, <1>5, <2>1 DEF Kinds, RunOK, Exists
    <3>2. Calm /\ OneOwner /\ EndsByRun
      BY <3>1 DEF Spared, ResetMarks, Calm
    <3>3. row[run[q].id].usage = Paid(run[q]) \/ Cut(q)
      BY <3>1 DEF Billed
    <3>4. CASE q # r
      <4>1. run[q].id # i
        BY <1>1, <3>1, <3>2, <3>4 DEF OneOwner, Exists, Live, i
      <4>2. run'[q] = run[q] /\ row'[run[q].id] = row[run[q].id]
        BY <1>2, <1>3, <3>1, <3>4, <4>1
      <4> QED BY <3>3, <4>2 DEF Cut
    <3>5. CASE q = r
      <4>1. row[i].status \notin {"done", "failed"} /\ row[i] # NoRow
        BY <1>1, <3>1, <3>2, <3>5 DEF EndsByRun, OneOwner, i
      <4>2. <<i, "fault">> \notin hurt' /\ w # NoRow
        BY <1>3, <2>1, <3>1, <3>5, <4>1 DEF Spared, i
      <4>3. m.pc = "ended" /\ w.status \in {row[i].status, "running"} => Cut(r)'
        BY <1>1, <4>1 DEF Cut, m, w
      <4>4. m.pc = "join" /\ m.error = "cancelled" => Cut(r)'
        BY DEF Cut, m
      <4>5. Cut(r) => run[r].pc = "join" /\ run[r].error = "cancelled" /\ i \in cancelled
        BY <1>1, <3>2 DEF Cut, Live, StopsCancelled, Told, i
      <4>6. CASE Cut(r)
        BY <1>6, <3>5, <4>3, <4>4, <4>5, <4>6 DEF BillMoves
      <4>7. CASE row[i].usage = Paid(run[r])
        BY <1>1, <1>6, <3>5, <4>2, <4>3, <4>4, <4>7 DEF BillMoves, m, w
      <4> QED BY <3>3, <3>5, <4>6, <4>7 DEF i
    <3> QED BY <3>4, <3>5
  <2>2. ASSUME Calm, NEW g \in Requests, req[g].pc = "enqueue"
        PROVE  row'[req[g].id].usage = 0
    <3>1. req[g].id \in Ids /\ req[g].id # i
      BY <1>1, <2>2 DEF OneOwner, Exists, Live, Kinds, RequestOK, i
    <3> QED BY <1>3, <2>2, <3>1 DEF Billed
  <2>3. life' # "down"
    BY <1>1
  <2>4. Calm' => \A g \in Requests : req'[g].pc = "enqueue" => row'[req'[g].id].usage = 0
    BY <1>1, <1>5, <2>2
  <2>5. \A q \in Runs : Exists(q)' /\ Spared(run[q].id, {"fault", "crash", "reset"})'
                         => row'[run'[q].id].usage = Paid(run'[q]) \/ Cut(q)'
    BY <2>1
  <2> QED BY <2>3, <2>4, <2>5 DEF Billed
<1> QED BY <1>10, <1>11, <1>12, <1>13, <1>14, <1>15, <1>16, <1>17, <1>18, <1>19, <1>20, <1>21, <1>22, <1>23, <1>24

\* Then the steps of a request that change its own record only
AskMoves(h) ==
  LET q == req[h]  n == req'[h] IN
  /\ UNCHANGED <<life, row, cancelled, tasks, run>>
  /\ life = "up"
  /\ req' = [req EXCEPT ![h] = n] /\ RequestOK(h, n)
  /\ n.pc \notin {"enqueue", "waiting", "cancelled", "drop"}
  /\ n.pc = "recheck" => q.pc = "waiting" /\ n.id = q.id /\ \A r \in q.runs : run[r].pc = "ended"
  /\ n.pc = "mark" => q.pc = "recheck" /\ n.id = q.id /\ n.seen = row[q.id] /\ row[q.id] # NoRow /\ ~Finished(q.id)
  /\ q.pc \notin {"cancelled", "drop"}
  /\ q.pc = "waiting" => h \in Cancellers /\ n.pc = "recheck"
  /\ q.pc \in {"enqueue", "recheck", "mark"} => n.pc = "mark" \/ row[q.id] = NoRow \/ Finished(q.id) \/ <<q.id, "fault">> \in hurt'
  /\ \E i : HurtBy(i)

LEMMA AskKeeps ==
  ASSUME IInv, NEW h \in Requests, AskMoves(h)
  PROVE  IInv'
<1> DEFINE q == req[h]  n == req'[h]
<1> USE DEF IInv
<1>1. /\ UNCHANGED <<life, row, cancelled, tasks, run>> /\ life = "up" /\ RequestOK(h, n)
      /\ n.pc \notin {"enqueue", "waiting", "cancelled", "drop"}
      /\ n.pc = "recheck" => q.pc = "waiting" /\ n.id = q.id /\ \A r \in q.runs : run[r].pc = "ended"
      /\ n.pc = "mark" => q.pc = "recheck" /\ n.id = q.id /\ n.seen = row[q.id] /\ row[q.id] # NoRow /\ ~Finished(q.id)
      /\ q.pc \notin {"cancelled", "drop"}
      /\ q.pc = "waiting" => h \in Cancellers /\ n.pc = "recheck"
      /\ q.pc \in {"enqueue", "recheck", "mark"} => n.pc = "mark" \/ row[q.id] = NoRow \/ Finished(q.id) \/ <<q.id, "fault">> \in hurt'
  BY DEF AskMoves
<1>2. /\ \A j : \A what \in {"reset", "early cancel", "crash"} : <<j, what>> \in hurt' <=> <<j, what>> \in hurt
      /\ \A j, what : <<j, what>> \in hurt => <<j, what>> \in hurt'
      /\ Calm' <=> Calm
      /\ \A j : Undisturbed(j)' <=> Undisturbed(j)
      /\ \A j, S : Spared(j, S)' => Spared(j, S)
  BY HurtKeeps DEF AskMoves
<1>3. \A g \in Requests \ {h} : req'[g] = req[g]
  BY DEF AskMoves, Kinds
<1>4. q \in RequestRecords /\ RequestOK(h, q) /\ n \in RequestRecords
  BY <1>1 DEF Kinds, RequestOK
<1>5. \A g \in Requests : req'[g].pc = "enqueue" => g # h /\ req[g].pc = "enqueue" /\ req'[g] = req[g]
  BY <1>1, <1>3
<1>6. \A g \in Requests, j \in Ids : OnTask(g, j, {"enqueue"})' => OnTask(g, j, {"enqueue"})
  BY <1>5 DEF OnTask
<1> HIDE DEF q, n
<1>10. Kinds'
  <2>1. req' \in [Requests -> RequestRecords] /\ \A g \in Requests : RequestOK(g, req'[g])
    BY <1>1, <1>3, <1>4 DEF AskMoves, Kinds, n
  <2> QED BY <1>1, <2>1 DEF Kinds, TablesOK
<1>11. DownIsIdle'
  BY <1>1 DEF DownIsIdle
<1>12. ResetMarks'
  BY <1>1, <1>2, <1>3 DEF ResetMarks, n
<1>13. Registered'
  BY <1>1, <1>2 DEF Registered, Exists, Live
<1>14. EndsPrepared'
  BY <1>1, <1>3 DEF EndsPrepared, Finished, n
<1>15. Calm' => OneOwner'
  <2> SUFFICES ASSUME Calm PROVE OneOwner'
    BY <1>2
  <2>1. \A r, p \in Runs : Exists(r)' /\ Exists(p)' /\ run'[r].id = run'[p].id => r = p
    BY <1>1 DEF OneOwner, Exists
  <2>2. \A g \in Requests : req'[g].pc = "enqueue" =>
          /\ \A r \in Runs : Exists(r)' => run'[r].id # req'[g].id
          /\ \A k \in Requests : req'[k].id = req'[g].id /\ req'[k].pc \in {"enqueue"} => k = g
    BY <1>1, <1>5 DEF OneOwner, Exists, OnTask
  <2>3. \A r \in Runs : Exists(r)' => row'[run'[r].id] # NoRow
    BY <1>1 DEF OneOwner, Exists
  <2>4. \A j \in cancelled' : row'[j] # NoRow
    BY <1>1 DEF OneOwner
  <2>5. \A g \in Requests, j \in Ids :
          req'[g].id = j /\ req'[g].pc \in {"enqueue", "waiting", "recheck", "mark"} => row'[j] # NoRow
    BY <1>1, <1>3 DEF OneOwner, OnTask, q, n
  <2> QED BY <2>1, <2>2, <2>3, <2>4, <2>5 DEF OneOwner, OnTask
<1>16. Calm' => EndsByRun'
  BY <1>1, <1>2, <1>5 DEF EndsByRun, Live
<1>17. StopsCancelled'
  BY <1>1, <1>2 DEF StopsCancelled
<1>18. StopsAwaited'
  <2> SUFFICES ASSUME Calm, NEW r \in Runs, Live(r), run[r].id \in cancelled
               PROVE  \/ \E g \in Cancellers : req'[g].id = run[r].id /\ req'[g].pc = "waiting"
                      \/ \E g \in Resetters : req'[g].pc = "waiting"
    BY <1>1, <1>2 DEF StopsAwaited, OnTask, Live
  <2>1. CASE \E g \in Resetters : req[g].pc = "waiting"
    BY <1>1, <1>3, <2>1, RequestsAssumption DEF q, Requests
  <2>2. CASE \E g \in Cancellers : OnTask(g, run[r].id, {"waiting"})
    <3>1. PICK g \in Cancellers : req[g].id = run[r].id /\ req[g].pc = "waiting"
      BY <2>2 DEF OnTask
    <3>2. CASE g = h
      <4>1. PICK p \in req[h].runs : Exists(p) /\ run[p].id = req[h].id
        BY <3>1, <3>2 DEF WaitsForRun
      <4>2. p \in Runs /\ run[p].pc = "ended"
        BY <1>1, <1>4, <3>1, <3>2, <4>1 DEF RequestRecords, q
      <4>3. p = r
        BY <3>1, <3>2, <4>1, <4>2 DEF OneOwner, Exists, Live
      <4> QED BY <4>2, <4>3 DEF Live
    <3> QED BY <1>3, <3>1, <3>2 DEF Requests
  <2> QED BY <2>1, <2>2 DEF StopsAwaited
<1>19. WaitsForRun'
  <2>1. \A g \in Cancellers : req'[g].pc = "waiting" => req'[g] = req[g]
    BY <1>1, <1>3 DEF n, Requests
  <2> SUFFICES ASSUME Calm, NEW g \in Cancellers, req'[g].pc = "waiting"
               PROVE  \E r \in req'[g].runs : run'[r].pc # "free" /\ run'[r].id = req'[g].id
    BY <1>2 DEF WaitsForRun, Exists
  <2>2. req'[g] = req[g] /\ \E r \in req[g].runs : run[r].pc # "free" /\ run[r].id = req[g].id
    BY <2>1 DEF WaitsForRun, Exists
  <2> QED BY <1>1, <2>2
<1>20. CancelsAlone'
  <2> SUFFICES ASSUME NEW g \in Cancellers, NEW j \in Ids, Undisturbed(j)
               PROVE  (/\ OnTask(g, j, {"recheck", "mark"}) =>
                            /\ \A k \in Requests : ~OnTask(k, j, {"enqueue"})
                            /\ \A r \in Runs : run[r].id = j => ~Live(r)
                       /\ OnTask(g, j, {"mark"}) => row[j].status \in {"pending", "running", "cancelled"}
                       /\ OnTask(g, j, {"cancelled"}) => row[j].status = "cancelled")'
    BY <1>2 DEF CancelsAlone
  <2>1. g \in Requests
    BY DEF Requests
  <2>2. CASE g # h
    <3>1. req'[g] = req[g]
      BY <1>3, <2>1, <2>2
    <3> QED BY <1>1, <1>6, <3>1 DEF CancelsAlone, OnTask, Live
  <2>3. CASE g = h /\ n.pc = "recheck" /\ n.id = j
    <3>0. Calm /\ q.pc = "waiting" /\ q.id = j
      BY <1>1, <2>3 DEF Undisturbed, Spared, ResetMarks, Calm
    <3>1. PICK p \in req[h].runs : Exists(p) /\ run[p].id = req[h].id
      BY <2>3, <3>0 DEF WaitsForRun, q
    <3>2. p \in Runs /\ run[p].pc = "ended"
      BY <1>1, <1>4, <2>3, <3>1 DEF RequestRecords, q
    <3>3. \A r \in Runs : run[r].id = j => ~Live(r)
      BY <3>0, <3>1, <3>2 DEF OneOwner, Exists, Live, q
    <3>4. \A k \in Requests : ~OnTask(k, j, {"enqueue"})
      BY <3>0, <3>1, <3>2 DEF OneOwner, OnTask, q
    <3> QED BY <1>1, <1>6, <2>3, <3>3, <3>4 DEF OnTask, Live, n
  <2>4. CASE g = h /\ n.pc = "mark" /\ n.id = j
    <3>1. OnTask(h, j, {"recheck", "mark"})
      BY <1>1, <2>4 DEF OnTask, q
    <3>2. row[j].status \in {"pending", "running"}
      BY <1>1, <2>4 DEF Kinds, TablesOK, Finished, Rows
    <3> QED BY <1>1, <1>6, <2>4, <3>1, <3>2 DEF CancelsAlone, OnTask, Live, n
  <2>5. CASE g = h /\ ~(n.pc \in {"recheck", "mark"} /\ n.id = j)
    BY <1>1, <2>5 DEF OnTask, n
  <2> QED BY <2>2, <2>3, <2>4, <2>5
<1>21. EndedIsIdle'
  BY <1>1, <1>2, <1>6 DEF EndedIsIdle, Finished, Live
<1>22. CancelsPending'
  <2> SUFFICES ASSUME NEW j \in cancelled, j \in Ids, Open(j), Spared(j, {"fault", "reset"})'
               PROVE  \/ \E g \in Requests : req'[g].id = j /\ req'[g].pc \in {"waiting", "recheck", "mark"}
                      \/ \E g \in Resetters : req'[g].pc \in {"waiting", "drop"}
    BY <1>1 DEF CancelsPending, OnTask, Open
  <2>1. CASE \E g \in Requests : OnTask(g, j, {"waiting", "recheck", "mark"})
    <3>1. PICK g \in Requests : req[g].id = j /\ req[g].pc \in {"waiting", "recheck", "mark"}
      BY <2>1 DEF OnTask
    <3>2. g = h => n.id = j /\ n.pc \in {"recheck", "mark"}
      BY <1>1, <3>1, NoRowKind DEF Spared, Open, Finished, q
    <3> QED BY <1>3, <3>1, <3>2 DEF n
  <2>2. CASE \E g \in Resetters : req[g].pc \in {"waiting", "drop"}
    BY <1>1, <1>3, <2>2, RequestsAssumption DEF q, Requests
  <2> QED BY <1>2, <2>1, <2>2 DEF CancelsPending
<1>23. WorkedOn'
  <2> SUFFICES ASSUME NEW j \in Ids \ cancelled, Open(j), Spared(j, {"fault", "reset"})'
               PROVE  \/ \E r \in Runs : run[r].id = j /\ Live(r)
                      \/ \E g \in Requests : req'[g].id = j /\ req'[g].pc = "enqueue"
    BY <1>1 DEF WorkedOn, OnTask, Open, Live
  <2>1. ASSUME NEW g \in Requests, req[g].id = j, req[g].pc = "enqueue"
        PROVE  g # h
    BY <1>1, <2>1, NoRowKind DEF Spared, Open, Finished, q
  <2>2. Spared(j, {"fault", "reset"})
    BY <1>2
  <2>3. \/ \E r \in Runs : run[r].id = j /\ Live(r)
        \/ \E g \in Requests : req[g].id = j /\ req[g].pc = "enqueue"
    BY <1>1, <2>2 DEF WorkedOn, OnTask
  <2> QED BY <1>3, <2>1, <2>3
<1>24. Billed'
  <2>1. Calm' => \A g \in Requests : req'[g].pc = "enqueue" => row'[req'[g].id].usage = 0
    BY <1>1, <1>2, <1>5 DEF Billed
  <2>2. \A r \in Runs : Exists(r)' /\ Spared(run[r].id, {"fault", "crash", "reset"})'
                         => row'[run'[r].id].usage = Paid(run'[r]) \/ Cut(r)'
    BY <1>1, <1>2 DEF Billed, Exists, Cut
  <2> QED BY <1>1, <2>1, <2>2 DEF Billed
<1> QED BY <1>10, <1>11, <1>12, <1>13, <1>14, <1>15, <1>16, <1>17, <1>18, <1>19, <1>20, <1>21, <1>22, <1>23, <1>24

LEMMA AnswerKind ==
  ASSUME Kinds, NEW h \in Requests, NEW pc \in RequestPlaces, Answer(h, pc)
  PROVE  LET n == req'[h] IN
         /\ req' = [req EXCEPT ![h] = n] /\ n \in RequestRecords /\ req[h] \in RequestRecords /\ RequestOK(h, req[h])
         /\ n.pc = pc /\ n.id = req[h].id
<1> DEFINE n == [req[h] EXCEPT !.pc = pc, !.seen = NoRow, !.runs = {}]
<1>1. req[h] \in RequestRecords /\ RequestOK(h, req[h])
  BY DEF Kinds
<1>2. n.pc = pc /\ n.id = req[h].id
  BY <1>1 DEF RequestRecords
<1>3. n \in RequestRecords
  BY <1>1, NoRowKind DEF RequestRecords
<1>4. req' = [req EXCEPT ![h] = n] /\ req'[h] = n
  BY DEF Answer, Kinds
<1> HIDE DEF n
<1> QED BY <1>1, <1>2, <1>3, <1>4

LEMMA NobodyHurt == UNCHANGED hurt => HurtBy(NoId)
BY DEF HurtBy

LEMMA CopyLoadAsks ==
  ASSUME Kinds, life = "up", NEW h \in Copiers, NEW i \in Ids, CopyLoad(h, i), UNCHANGED env
  PROVE  AskMoves(h)
<1>1. h \in Requests /\ req[h] \in RequestRecords /\ RequestOK(h, req[h]) /\ req[h].pc = "idle"
  BY DEF Requests, Kinds, CopyLoad
<1>2. CASE Answer(h, "refused")
  BY <1>1, <1>2, AnswerKind, NobodyHurt DEF AskMoves, RequestOK, RequestPlaces, Settled, CopyLoad, env
<1>3. ASSUME NEW p \in Ids \cup {NoId}, req' = [req EXCEPT ![h].pc = "insert", ![h].parent = p]
      PROVE  AskMoves(h)
  <2> DEFINE n == [req[h] EXCEPT !.pc = "insert", !.parent = p]
  <2>1. req' = [req EXCEPT ![h] = n] /\ req'[h] = n
    BY <1>1, <1>3 DEF Kinds
  <2>2. n.pc = "insert" /\ n.id = req[h].id
    BY <1>1 DEF RequestRecords
  <2>3. n \in RequestRecords
    BY <1>1 DEF RequestRecords, RequestPlaces
  <2> HIDE DEF n
  <2> QED BY <1>1, <2>1, <2>2, <2>3, NobodyHurt DEF AskMoves, RequestOK, CopyLoad, env
<1>4. row[i].parent \in Ids \cup {NoId}
  BY DEF Kinds, TablesOK, Rows
<1> QED BY <1>2, <1>3, <1>4 DEF CopyLoad

LEMMA CancelAsks ==
  ASSUME Kinds, life = "up", NEW h \in Requests, UNCHANGED env,
         \/ h \in Cancellers /\ \E i \in Ids : CancelLoad(h, i) /\ ~Open(i)
         \/ CancelReturns(h)
         \/ CancelRecheck(h)
  PROVE  AskMoves(h)
<1>1. req[h] \in RequestRecords /\ RequestOK(h, req[h])
  BY DEF Kinds
<1>2. CASE h \in Cancellers /\ \E i \in Ids : CancelLoad(h, i) /\ ~Open(i)
  <2>1. PICK i \in Ids : CancelLoad(h, i) /\ ~Open(i)
    BY <1>2
  <2> DEFINE n == [req[h] EXCEPT !.pc = "refused", !.id = i]
  <2>2. req' = [req EXCEPT ![h] = n] /\ req'[h] = n
    BY <2>1 DEF CancelLoad, Kinds
  <2>3. n.pc = "refused" /\ n.id = i
    BY <1>1 DEF RequestRecords
  <2>4. n \in RequestRecords
    BY <1>1 DEF RequestRecords, RequestPlaces, Settled
  <2> HIDE DEF n
  <2>5. req[h].pc = "idle" /\ UNCHANGED <<row, cancelled, tasks, run, hurt>>
    BY <2>1 DEF CancelLoad
  <2> QED BY <1>1, <2>2, <2>3, <2>4, <2>5, NobodyHurt DEF AskMoves, RequestOK, env
<1>3. CASE CancelReturns(h)
  <2>1. Answer(h, "recheck") /\ h \in Cancellers /\ WaitOver(h) /\ UNCHANGED <<row, cancelled, tasks, run, hurt>>
    BY <1>3 DEF CancelReturns
  <2>2. "recheck" \in RequestPlaces
    BY DEF RequestPlaces
  <2> QED BY <1>1, <2>1, <2>2, AnswerKind, NobodyHurt DEF AskMoves, RequestOK, WaitOver, env
<1>4. CASE CancelRecheck(h)
  <2>1. req[h].pc = "recheck" /\ req[h].id \in Ids /\ h \in Cancellers /\ UNCHANGED <<row, cancelled, tasks, run, hurt>>
    BY <1>1, <1>4 DEF CancelRecheck, RequestOK
  <2>2. CASE row[req[h].id] = NoRow \/ Finished(req[h].id)
    <3>1. \E pc \in {"broken", "refused"} : Answer(h, pc)
      BY <1>4, <2>2 DEF CancelRecheck
    <3>2. {"broken", "refused"} \subseteq RequestPlaces
      BY DEF RequestPlaces, Settled
    <3> QED BY <1>1, <2>1, <2>2, <3>1, <3>2, AnswerKind, NobodyHurt DEF AskMoves, RequestOK, env
  <2>3. CASE row[req[h].id] # NoRow /\ ~Finished(req[h].id)
    <3> DEFINE n == [req[h] EXCEPT !.pc = "mark", !.seen = row[req[h].id]]
    <3>1. req' = [req EXCEPT ![h] = n] /\ req'[h] = n
      BY <1>4, <2>3 DEF CancelRecheck, Kinds
    <3>2. n.pc = "mark" /\ n.id = req[h].id /\ n.seen = row[req[h].id]
      BY <1>1 DEF RequestRecords
    <3>3. n \in RequestRecords
      BY <1>1, <2>1 DEF RequestRecords, RequestPlaces, Kinds, TablesOK
    <3> HIDE DEF n
    <3> QED BY <1>1, <2>1, <2>3, <3>1, <3>2, <3>3, NobodyHurt DEF AskMoves, RequestOK, env
  <2> QED BY <2>2, <2>3
<1> QED BY <1>2, <1>3, <1>4

LEMMA BreakAsks ==
  ASSUME Kinds, life = "up", NEW h \in Requests, UNCHANGED <<life, row, cancelled, tasks, run>>, Answer(h, "broken"),
         req[h].pc \in {"enqueue", "recheck", "mark"},
         \/ row[req[h].id] = NoRow /\ UNCHANGED hurt
         \/ hurt' = hurt \cup {<<req[h].id, "fault">>}
  PROVE  AskMoves(h)
<1>1. "broken" \in RequestPlaces
  BY DEF RequestPlaces, Settled
<1>2. HurtBy(req[h].id)
  BY DEF HurtBy
<1> QED BY <1>1, <1>2, AnswerKind DEF AskMoves, RequestOK

-----------------------------------------------------------------------------
(* Steps that the tables do not notice *)

LEMMA QuietKeeps ==
  ASSUME IInv, UNCHANGED <<life, row, cancelled, tasks, run, req>>, NEW i, HurtBy(i)
  PROVE  IInv'
<1> USE DEF IInv
<1>1. /\ \A j : \A what \in {"reset", "early cancel", "crash"} : <<j, what>> \in hurt' <=> <<j, what>> \in hurt
      /\ \A j, what : <<j, what>> \in hurt => <<j, what>> \in hurt'
      /\ Calm' <=> Calm
      /\ \A j : Undisturbed(j)' <=> Undisturbed(j)
      /\ \A j, S : Spared(j, S)' => Spared(j, S)
  BY HurtKeeps
<1>2. Kinds' /\ DownIsIdle' /\ ResetMarks' /\ Registered' /\ EndsPrepared'
  BY <1>1 DEF Kinds, TablesOK, DownIsIdle, ResetMarks, Registered, EndsPrepared, Live, Exists
<1>3. Calm' => OneOwner' /\ EndsByRun'
  BY <1>1 DEF OneOwner, EndsByRun, Exists, Live, OnTask
<1>4. StopsCancelled' /\ WaitsForRun'
  BY <1>1 DEF StopsCancelled, WaitsForRun, Exists
<1>5. StopsAwaited'
  BY <1>1 DEF StopsAwaited, Live, OnTask
<1>6. CancelsAlone'
  BY <1>1 DEF CancelsAlone, Live, OnTask
<1>7. EndedIsIdle'
  BY <1>1 DEF EndedIsIdle, Live, OnTask, Finished
<1>8. CancelsPending'
  BY <1>1 DEF CancelsPending, OnTask, Open
<1>9. WorkedOn'
  BY ZenonT(30), <1>1 DEF WorkedOn, OnTask, Open, Live
<1>10. Billed'
  <2>1. \A r \in Runs : Exists(r)' /\ Spared(run[r].id, {"fault", "crash", "reset"})'
                         => row'[run'[r].id].usage = Paid(run'[r]) \/ Cut(r)'
    BY <1>1 DEF Billed, Exists, Cut
  <2>2. Calm' => \A g \in Requests : req'[g].pc = "enqueue" => row'[req'[g].id].usage = 0
    BY <1>1 DEF Billed
  <2>3. life' = "down" => \A r \in Runs : Exists(r)' /\ Open(run[r].id)' => <<run'[r].id, "crash">> \in hurt'
    BY <1>1 DEF Billed, Exists, Open
  <2> QED BY <2>1, <2>2, <2>3 DEF Billed
<1> QED BY <1>2, <1>3, <1>4, <1>5, <1>6, <1>7, <1>8, <1>9, <1>10

-----------------------------------------------------------------------------
(* The handlers' steps that change a table *)

LEMMA CalmIf ==
  ASSUME ResetMarks, NEW j \in Ids, <<j, "reset">> \notin hurt
  PROVE  Calm
BY DEF ResetMarks, Calm

LEMMA NewRowKind ==
  ASSUME NEW p \in Ids \cup {NoId}
  PROVE  NewRow(p) \in Rows /\ NewRow(p).status = "pending" /\ NewRow(p).usage = 0 /\ NewRow(p) # NoRow
<1>1. NewRow(p).status = "pending" /\ NewRow(p).usage = 0
  BY DEF NewRow, NoRow
<1>2. NewRow(p) \in Rows
  BY DEF NewRow, NoRow, Rows
<1> QED BY <1>1, <1>2, NoRowKind

LEMMA InsertKeeps ==
  ASSUME IInv, life = "up", NEW h \in Requests, NEW i \in Ids, Insert(h, i), UNCHANGED env
  PROVE  IInv'
<1> DEFINE n == [req[h] EXCEPT !.pc = "enqueue", !.id = i]
<1> USE DEF IInv
<1>1. UNCHANGED <<life, cancelled, tasks, run, hurt>> /\ row[i] = NoRow /\ req[h].pc \in {"idle", "insert"}
  BY DEF Insert, NextId, env
<1>2. req[h] \in RequestRecords /\ RequestOK(h, req[h])
  BY DEF Kinds
<1>3. req' = [req EXCEPT ![h] = n] /\ req'[h] = n
  BY DEF Insert, Kinds
<1>4. n.pc = "enqueue" /\ n.id = i /\ n \in RequestRecords /\ RequestOK(h, n)
  <2>1. n.pc = "enqueue" /\ n.id = i
    BY <1>2 DEF RequestRecords
  <2>2. n \in RequestRecords
    BY <1>2 DEF RequestRecords, RequestPlaces
  <2> HIDE DEF n
  <2> QED BY <2>1, <2>2 DEF RequestOK
<1>5. /\ row' = [row EXCEPT ![i] = row'[i]] /\ row'[i] \in Rows
      /\ row'[i].status = "pending" /\ row'[i].usage = 0 /\ row'[i] # NoRow
  <2>1. row' = [row EXCEPT ![i] = NewRow(req[h].parent)] /\ req[h].parent \in Ids \cup {NoId}
    BY <1>2 DEF Insert, RequestRecords
  <2> QED BY <2>1, NewRowKind DEF Kinds, TablesOK
<1> HIDE DEF n
<1>6. \A g \in Requests \ {h} : req'[g] = req[g]
  BY <1>3 DEF Kinds
<1>7. \A j \in Ids \ {i} : row'[j] = row[j]
  BY <1>5 DEF Kinds, TablesOK
<1>8. Calm => /\ \A r \in Runs : Exists(r) => run[r].id # i /\ run[r].id \in Ids
              /\ \A g \in Requests : OnTask(g, i, {"enqueue", "waiting", "recheck", "mark"}) => FALSE
  BY <1>1 DEF OneOwner, Kinds, RunOK, Exists
<1>9. \A j \in Ids : Undisturbed(j) \/ Spared(j, {"fault", "reset"}) => Calm
  BY CalmIf DEF Undisturbed, Spared
<1>10. Kinds'
  <2>1. row \in [Ids -> Rows] /\ (\A j \in Ids : row[j].status = "absent" => row[j] = NoRow)
    BY DEF Kinds, TablesOK
  <2>2. row' \in [Ids -> Rows] /\ (\A j \in Ids : row'[j].status = "absent" => row'[j] = NoRow)
    BY <1>5, <1>7, <2>1
  <2>3. TablesOK'
    BY <1>1, <2>2 DEF Kinds, TablesOK
  <2>4. req' \in [Requests -> RequestRecords] /\ \A g \in Requests : RequestOK(g, req'[g])
    BY <1>3, <1>4, <1>6 DEF Kinds
  <2>5. life' = life /\ cancelled' = cancelled /\ run' = run
    BY <1>1
  <2> QED BY <2>3, <2>4, <2>5 DEF Kinds
<1>11. DownIsIdle' /\ Registered' /\ EndsPrepared'
  BY <1>1, <1>3, <1>4, <1>6 DEF DownIsIdle, Registered, EndsPrepared, Exists, Live, Calm
<1>12. ResetMarks'
  BY <1>1, <1>3, <1>4, <1>6 DEF ResetMarks, Calm
<1>13. Calm' => OneOwner'
  <2> SUFFICES ASSUME Calm PROVE OneOwner'
    BY <1>1 DEF Calm
  <2>1. \A r, p \in Runs : Exists(r)' /\ Exists(p)' /\ run'[r].id = run'[p].id => r = p
    BY <1>1 DEF OneOwner, Exists
  <2>2. \A g \in Requests : req'[g].pc = "enqueue" =>
          /\ \A r \in Runs : Exists(r)' => run'[r].id # req'[g].id
          /\ \A k \in Requests : req'[k].id = req'[g].id /\ req'[k].pc \in {"enqueue"} => k = g
    BY <1>1, <1>3, <1>4, <1>6, <1>8 DEF OneOwner, Exists, OnTask
  <2>3. \A r \in Runs : Exists(r)' => row'[run'[r].id] # NoRow
    BY <1>1, <1>7, <1>8 DEF OneOwner, Exists
  <2>4. \A j \in cancelled' : row'[j] # NoRow
    BY <1>1, <1>5, <1>7 DEF OneOwner, Kinds
  <2>5. \A g \in Requests, j \in Ids :
          req'[g].id = j /\ req'[g].pc \in {"enqueue", "waiting", "recheck", "mark"} => row'[j] # NoRow
    BY <1>3, <1>4, <1>5, <1>6, <1>7 DEF OneOwner, OnTask
  <2> QED BY <2>1, <2>2, <2>3, <2>4, <2>5 DEF OneOwner, OnTask
<1>14. Calm' => EndsByRun'
  <2> SUFFICES ASSUME Calm PROVE EndsByRun'
    BY <1>1 DEF Calm
  <2>1. \A r \in Runs : Live(r) => row'[run[r].id].status \notin {"done", "failed"}
    BY <1>7, <1>8 DEF EndsByRun, Live, Exists
  <2>2. \A g \in Requests : req'[g].pc = "enqueue" => row'[req'[g].id].status \notin {"done", "failed"}
    BY <1>3, <1>4, <1>5, <1>6, <1>7, <1>10 DEF EndsByRun, Kinds, RequestOK
  <2> QED BY <1>1, <2>1, <2>2 DEF EndsByRun, Live
<1>15. StopsCancelled'
  BY <1>1 DEF StopsCancelled, Calm
<1>16. StopsAwaited'
  <2>1. \A j : \A g \in Requests : OnTask(g, j, {"waiting"}) => req'[g].id = j /\ req'[g].pc = "waiting"
    BY <1>1, <1>6 DEF OnTask
  <2>2. \A g \in Requests : req[g].pc = "waiting" => req'[g].pc = "waiting"
    BY <1>1, <1>6
  <2> QED BY <1>1, <2>1, <2>2 DEF StopsAwaited, OnTask, Live, Calm, Requests
<1>17. WaitsForRun'
  <2> SUFFICES ASSUME Calm, NEW g \in Cancellers, req'[g].pc = "waiting"
               PROVE  \E r \in req'[g].runs : run'[r].pc # "free" /\ run'[r].id = req'[g].id
    BY <1>1 DEF WaitsForRun, Exists, Calm
  <2>1. req'[g] = req[g]
    BY <1>3, <1>4, <1>6 DEF Requests
  <2> QED BY <1>1, <2>1 DEF WaitsForRun, Exists
<1>18. CancelsAlone'
  <2> SUFFICES ASSUME NEW g \in Cancellers, NEW j \in Ids, Undisturbed(j)
               PROVE  (/\ OnTask(g, j, {"recheck", "mark"}) =>
                            /\ \A k \in Requests : ~OnTask(k, j, {"enqueue"})
                            /\ \A r \in Runs : run[r].id = j => ~Live(r)
                       /\ OnTask(g, j, {"mark"}) => row[j].status \in {"pending", "running", "cancelled"}
                       /\ OnTask(g, j, {"cancelled"}) => row[j].status = "cancelled")'
    BY <1>1 DEF CancelsAlone, Undisturbed, Spared
  <2>1. g \in Requests /\ Calm
    BY <1>9 DEF Requests
  <2>2. CASE g = h
    BY <1>3, <1>4, <2>2 DEF OnTask
  <2>3. CASE g # h
    <3>1. req'[g] = req[g]
      BY <1>6, <2>1, <2>3
    <3>2. CASE j = i
      <4>1. ~OnTask(g, i, {"recheck", "mark", "cancelled"})
        BY <1>1, <1>8, <2>1, <3>2, NoRowKind DEF OnTask, CancelsAlone
      <4> QED BY <3>1, <3>2, <4>1 DEF OnTask
    <3>3. CASE j # i
      <4>1. \A k \in Requests : OnTask(k, j, {"enqueue"})' => OnTask(k, j, {"enqueue"})
        BY <1>3, <1>4, <1>6, <3>3 DEF OnTask
      <4> QED BY <1>1, <1>7, <3>1, <3>3, <4>1 DEF CancelsAlone, OnTask, Live
    <3> QED BY <3>2, <3>3
  <2> QED BY <2>2, <2>3
<1>19. EndedIsIdle'
  <2> SUFFICES ASSUME NEW j \in Ids, Undisturbed(j), Finished(j)'
               PROVE  /\ \A r \in Runs : run[r].id = j => ~Live(r)
                      /\ \A g \in Requests : req'[g].id = j => req'[g].pc # "enqueue"
    BY <1>1 DEF EndedIsIdle, Undisturbed, Spared, OnTask, Live
  <2>1. j # i /\ Finished(j)
    BY <1>5, <1>7 DEF Finished
  <2> QED BY <1>3, <1>4, <1>6, <2>1 DEF EndedIsIdle, OnTask
<1>20. CancelsPending'
  <2> SUFFICES ASSUME NEW j \in cancelled, j \in Ids, Open(j)', Spared(j, {"fault", "reset"})
               PROVE  \/ \E g \in Requests : req'[g].id = j /\ req'[g].pc \in {"waiting", "recheck", "mark"}
                      \/ \E g \in Resetters : req'[g].pc \in {"waiting", "drop"}
    BY <1>1 DEF CancelsPending, OnTask, Spared
  <2>1. j # i /\ Open(j)
    BY <1>1, <1>7, <1>9 DEF OneOwner, Open
  <2>2. \/ \E g \in Requests : req[g].id = j /\ req[g].pc \in {"waiting", "recheck", "mark"}
        \/ \E g \in Resetters : req[g].pc \in {"waiting", "drop"}
    BY <2>1 DEF CancelsPending, OnTask
  <2> QED BY <1>1, <1>6, <2>2 DEF Requests
<1>21. WorkedOn'
  <2> SUFFICES ASSUME NEW j \in Ids \ cancelled, Open(j)', Spared(j, {"fault", "reset"})
               PROVE  \/ \E r \in Runs : run[r].id = j /\ Live(r)
                      \/ \E g \in Requests : req'[g].id = j /\ req'[g].pc = "enqueue"
    BY <1>1 DEF WorkedOn, OnTask, Spared, Live
  <2>1. CASE j = i
    BY <1>3, <1>4, <2>1
  <2>2. CASE j # i
    <3>1. Open(j)
      BY <1>7, <2>2 DEF Open
    <3> QED BY <1>1, <1>6, <3>1 DEF WorkedOn, OnTask
  <2> QED BY <2>1, <2>2
<1>22. Billed'
  <2>1. ASSUME NEW r \in Runs, Exists(r), Spared(run[r].id, {"fault", "crash", "reset"})
        PROVE  row'[run'[r].id].usage = Paid(run'[r]) \/ Cut(r)'
    <3>1. run[r].id \in Ids
      BY <2>1 DEF Kinds, RunOK, Exists
    <3>2. Calm
      BY <2>1, <3>1, CalmIf DEF Spared
    <3>3. row'[run[r].id] = row[run[r].id]
      BY <1>7, <1>8, <2>1, <3>2
    <3> QED BY <1>1, <2>1, <3>3 DEF Billed, Cut
  <2>2. Calm' => \A g \in Requests : req'[g].pc = "enqueue" => row'[req'[g].id].usage = 0
    BY <1>1, <1>3, <1>4, <1>5, <1>6, <1>7, <1>10 DEF Billed, Calm, Kinds, RequestOK
  <2>3. \A r \in Runs : Exists(r)' /\ Spared(run[r].id, {"fault", "crash", "reset"})'
                         => row'[run'[r].id].usage = Paid(run'[r]) \/ Cut(r)'
    BY <1>1, <2>1 DEF Exists, Spared
  <2> QED BY <1>1, <2>2, <2>3 DEF Billed
<1> QED BY <1>10, <1>11, <1>12, <1>13, <1>14, <1>15, <1>16, <1>17, <1>18, <1>19, <1>20, <1>21, <1>22

LEMMA EnqueueKeeps ==
  ASSUME IInv, life = "up", NEW h \in Requests, Enqueue(h), row[req[h].id] # NoRow, UNCHANGED env
  PROVE  IInv'
<1> DEFINE i == req[h].id
<1> USE DEF IInv
<1>1. req[h].pc = "enqueue" /\ i \in Ids /\ UNCHANGED <<life, row, hurt>>
  BY DEF Enqueue, Kinds, RequestOK, env
<1>2. PICK s \in Runs, quality \in BOOLEAN :
        /\ run[s].pc = "free"
        /\ cancelled' = cancelled \ {i}
        /\ run' = [run EXCEPT ![s] = [FreeRun EXCEPT !.pc = "load", !.id = i, !.quality = quality]]
        /\ tasks' = [tasks EXCEPT ![i] = s]
        /\ Answer(h, "answered")
  BY DEF Enqueue, NextRun
<1> DEFINE m == [FreeRun EXCEPT !.pc = "load", !.id = i, !.quality = quality]
<1>3. run'[s] = m /\ \A r \in Runs \ {s} : run'[r] = run[r]
  BY <1>2 DEF Kinds
<1>4. m.pc = "load" /\ m.id = i /\ m.calls = 0 /\ ~m.stop
  BY DEF FreeRun
<1>5. RunOK(m)
  <2>1. m \in RunRecords
    BY <1>1, NoRowKind DEF RunRecords, FreeRun, RunPlaces
  <2> HIDE DEF m
  <2> QED BY <1>1, <1>4, <2>1 DEF RunOK
<1>6. /\ req' = [req EXCEPT ![h] = req'[h]] /\ req'[h].pc = "answered" /\ req'[h].id = i /\ RequestOK(h, req'[h])
      /\ \A g \in Requests \ {h} : req'[g] = req[g]
  <2>1. "answered" \in RequestPlaces
    BY DEF RequestPlaces, Settled
  <2> QED BY <1>2, <2>1, AnswerKind DEF RequestOK, Kinds
<1> HIDE DEF m, i
<1>7. Calm => /\ \A r \in Runs : Exists(r) => run[r].id # i
              /\ \A g \in Requests : OnTask(g, i, {"enqueue"}) => g = h
  BY <1>1 DEF OneOwner, i
<1>8. \A r \in Runs : (Exists(r)' <=> Exists(r) \/ r = s) /\ (Live(r)' <=> Live(r) \/ r = s)
  BY <1>3, <1>4 DEF Exists, Live
<1>9. \A r \in Runs : Exists(r) => r # s
  BY <1>2 DEF Exists
<1>10. \A r \in Runs : Live(r) => Exists(r)
  BY DEF Live, Exists
<1>11. \A j \in Ids : Undisturbed(j) \/ Spared(j, {"fault", "reset"}) => Calm
  BY CalmIf DEF Undisturbed, Spared
<1>12. \A g \in Requests, j \in Ids : OnTask(g, j, {"enqueue"})' => OnTask(g, j, {"enqueue"}) /\ g # h
  BY <1>6 DEF OnTask
<1>13. /\ Calm' <=> Calm
       /\ \A j : Undisturbed(j)' <=> Undisturbed(j)
       /\ \A j, S : Spared(j, S)' <=> Spared(j, S)
  BY <1>1 DEF Calm, Undisturbed, Spared
<1>14. \A g \in Requests : req'[g].pc \notin {"answered"} => g # h /\ req'[g] = req[g]
  BY <1>6
<1>20. Kinds'
  <2>1. run' \in [Runs -> RunRecords] /\ \A r \in Runs : RunOK(run'[r])
    BY <1>2, <1>3, <1>5 DEF Kinds, RunOK, m
  <2>2. req' \in [Requests -> RequestRecords] /\ \A g \in Requests : RequestOK(g, req'[g])
    BY <1>6 DEF Kinds, RequestOK
  <2>3. tasks' \in [Ids -> Runs \cup {NoRun}]
    BY <1>1, <1>2 DEF Kinds, TablesOK
  <2> QED BY <1>1, <1>2, <2>1, <2>2, <2>3 DEF Kinds, TablesOK
<1>21. DownIsIdle'
  BY <1>1 DEF DownIsIdle
<1>22. ResetMarks'
  BY <1>1, <1>13, <1>14 DEF ResetMarks
<1>23. Registered'
  <2>1. ASSUME NEW j \in Ids, tasks'[j] # NoRun
        PROVE  run'[tasks'[j]].pc # "free" /\ run'[tasks'[j]].id = j
    <3>1. CASE j = i
      BY <1>1, <1>2, <1>3, <1>4, <3>1 DEF Kinds, TablesOK
    <3>2. CASE j # i
      <4>1. tasks'[j] = tasks[j] /\ tasks[j] \in Runs
        BY <1>1, <1>2, <2>1, <3>2 DEF Kinds, TablesOK
      <4>2. Exists(tasks[j]) /\ run[tasks[j]].id = j
        BY <2>1, <4>1 DEF Registered
      <4> QED BY <1>3, <1>9, <4>1, <4>2 DEF Exists
    <3> QED BY <3>1, <3>2
  <2>2. ASSUME Calm, NEW r \in Runs, Live(r)'
        PROVE  tasks'[run'[r].id] = r
    <3>1. CASE r = s
      BY <1>1, <1>2, <1>3, <1>4, <3>1 DEF Kinds, TablesOK
    <3>2. CASE r # s
      <4>1. Live(r) /\ run'[r] = run[r] /\ run[r].id # i /\ run[r].id \in Ids
        BY <1>3, <1>7, <1>8, <1>10, <2>2, <3>2, KindsOf
      <4> QED BY <1>1, <1>2, <2>2, <4>1 DEF Registered, Kinds, TablesOK
    <3> QED BY <3>1, <3>2
  <2> QED BY <1>13, <2>1, <2>2 DEF Registered, Exists
<1>24. EndsPrepared'
  <2>1. \A r \in Runs : run'[r].pc \in {"commit", "fail"} => run'[r].seen.status \notin Terminal
    BY <1>3, <1>4 DEF EndsPrepared
  <2>2. \A g \in Requests : req'[g].pc = "mark" => req'[g].seen.status \notin Terminal
    BY <1>14 DEF EndsPrepared
  <2> QED BY <2>1, <2>2 DEF EndsPrepared
<1>25. Calm' => OneOwner'
  <2> SUFFICES ASSUME Calm PROVE OneOwner'
    BY <1>13
  <2>1. \A r, p \in Runs : Exists(r)' /\ Exists(p)' /\ run'[r].id = run'[p].id => r = p
    BY <1>3, <1>4, <1>7, <1>8, <1>9 DEF OneOwner
  <2>2. \A g \in Requests : req'[g].pc = "enqueue" =>
          /\ \A r \in Runs : Exists(r)' => run'[r].id # req'[g].id
          /\ \A k \in Requests : req'[k].id = req'[g].id /\ req'[k].pc \in {"enqueue"} => k = g
    <3> SUFFICES ASSUME NEW g \in Requests, req'[g].pc = "enqueue"
                 PROVE  /\ \A r \in Runs : Exists(r)' => run'[r].id # req'[g].id
                        /\ \A k \in Requests : req'[k].id = req'[g].id /\ req'[k].pc \in {"enqueue"} => k = g
      OBVIOUS
    <3>1. g # h /\ req'[g] = req[g] /\ req[g].id # i
      BY <1>7, <1>14 DEF OnTask
    <3>2. \A r \in Runs : Exists(r)' => run'[r].id # req'[g].id
      BY <1>3, <1>4, <1>8, <3>1 DEF OneOwner
    <3>3. \A k \in Requests : req'[k].id = req'[g].id /\ req'[k].pc \in {"enqueue"} => k = g
      BY <1>14, <3>1 DEF OneOwner, OnTask
    <3> QED BY <3>2, <3>3
  <2>3. \A r \in Runs : Exists(r)' => row'[run'[r].id] # NoRow
    BY <1>1, <1>3, <1>4, <1>8 DEF OneOwner, i
  <2>4. \A j \in cancelled' : row'[j] # NoRow
    BY <1>1, <1>2 DEF OneOwner
  <2>5. \A g \in Requests, j \in Ids :
          req'[g].id = j /\ req'[g].pc \in {"enqueue", "waiting", "recheck", "mark"} => row'[j] # NoRow
    BY <1>1, <1>14 DEF OneOwner, OnTask
  <2> QED BY <2>1, <2>2, <2>3, <2>4, <2>5 DEF OneOwner, OnTask
<1>26. Calm' => EndsByRun'
  <2> SUFFICES ASSUME Calm PROVE EndsByRun'
    BY <1>13
  <2>1. \A r \in Runs : Live(r)' => row'[run'[r].id].status \notin {"done", "failed"}
    BY <1>1, <1>3, <1>4, <1>8 DEF EndsByRun, i
  <2>2. \A g \in Requests : req'[g].pc = "enqueue" => row'[req'[g].id].status \notin {"done", "failed"}
    BY <1>1, <1>14 DEF EndsByRun
  <2> QED BY <2>1, <2>2 DEF EndsByRun
<1>27. StopsCancelled'
  <2> SUFFICES ASSUME Calm, NEW r \in Runs, Told(run'[r])
               PROVE  run'[r].id \in cancelled'
    BY <1>13 DEF StopsCancelled
  <2>1. r # s
    BY <1>3, <1>4 DEF Told
  <2>2. run'[r] = run[r] /\ run[r].id \in cancelled
    BY <1>3, <2>1 DEF StopsCancelled
  <2>3. Exists(r)
    BY <2>1, <2>2, <1>3 DEF Kinds, RunOK, Told, Exists
  <2>4. run[r].id # i
    BY <1>7, <2>3
  <2>5. cancelled' = cancelled \ {i}
    BY <1>2
  <2> QED BY <2>2, <2>4, <2>5
<1>28. StopsAwaited'
  <2> SUFFICES ASSUME Calm, NEW r \in Runs, Live(r)', run'[r].id \in cancelled'
               PROVE  \/ \E g \in Cancellers : req'[g].id = run'[r].id /\ req'[g].pc = "waiting"
                      \/ \E g \in Resetters : req'[g].pc = "waiting"
    BY <1>13 DEF StopsAwaited, OnTask
  <2>1. Live(r) /\ run'[r] = run[r] /\ run[r].id \in cancelled
    BY <1>2, <1>3, <1>4, <1>8
  <2>2. \/ \E g \in Cancellers : req[g].id = run[r].id /\ req[g].pc = "waiting"
        \/ \E g \in Resetters : req[g].pc = "waiting"
    BY <2>1 DEF StopsAwaited, OnTask
  <2>3. \A g \in Requests : req[g].pc = "waiting" => req'[g] = req[g]
    BY <1>1, <1>6
  <2> QED BY <2>1, <2>2, <2>3 DEF Requests
<1>29. WaitsForRun'
  <2> SUFFICES ASSUME Calm, NEW g \in Cancellers, req'[g].pc = "waiting"
               PROVE  \E r \in req'[g].runs : run'[r].pc # "free" /\ run'[r].id = req'[g].id
    BY <1>13 DEF WaitsForRun, Exists
  <2>1. req'[g] = req[g] /\ req[g] \in RequestRecords
    BY <1>14 DEF Requests, Kinds
  <2>2. PICK r \in req[g].runs : Exists(r) /\ run[r].id = req[g].id
    BY <2>1 DEF WaitsForRun
  <2>3. r \in Runs
    BY <2>1, <2>2 DEF RequestRecords
  <2> QED BY <1>3, <1>9, <2>1, <2>2, <2>3 DEF Exists
<1>30. CancelsAlone'
  <2> SUFFICES ASSUME NEW g \in Cancellers, NEW j \in Ids, Undisturbed(j)
               PROVE  (/\ OnTask(g, j, {"recheck", "mark"}) =>
                            /\ \A k \in Requests : ~OnTask(k, j, {"enqueue"})
                            /\ \A r \in Runs : run[r].id = j => ~Live(r)
                       /\ OnTask(g, j, {"mark"}) => row[j].status \in {"pending", "running", "cancelled"}
                       /\ OnTask(g, j, {"cancelled"}) => row[j].status = "cancelled")'
    BY <1>13 DEF CancelsAlone
  <2>1. g \in Requests
    BY DEF Requests
  <2>2. CASE g = h
    BY <1>6, <2>2 DEF OnTask
  <2>3. CASE g # h
    <3>1. req'[g] = req[g]
      BY <1>6, <2>1, <2>3
    <3>2. OnTask(g, j, {"recheck", "mark"}) => j # i
      BY <1>1 DEF CancelsAlone, OnTask, i
    <3> QED BY <1>1, <1>3, <1>4, <1>8, <1>12, <3>1, <3>2 DEF CancelsAlone, OnTask
  <2> QED BY <2>2, <2>3
<1>31. EndedIsIdle'
  <2> SUFFICES ASSUME NEW j \in Ids, Undisturbed(j), Finished(j)
               PROVE  /\ \A r \in Runs : run'[r].id = j => ~Live(r)'
                      /\ \A g \in Requests : ~OnTask(g, j, {"enqueue"})'
    BY <1>1, <1>13 DEF EndedIsIdle, Finished
  <2>1. j # i
    BY <1>1 DEF EndedIsIdle, OnTask, i
  <2> QED BY <1>3, <1>4, <1>8, <1>12, <2>1 DEF EndedIsIdle
<1>32. CancelsPending'
  <2> SUFFICES ASSUME NEW j \in cancelled, j \in Ids, Open(j), Spared(j, {"fault", "reset"})
               PROVE  \/ \E g \in Requests : req'[g].id = j /\ req'[g].pc \in {"waiting", "recheck", "mark"}
                      \/ \E g \in Resetters : req'[g].pc \in {"waiting", "drop"}
    BY <1>1, <1>2, <1>13 DEF CancelsPending, OnTask, Open
  <2>1. \/ \E g \in Requests : req[g].id = j /\ req[g].pc \in {"waiting", "recheck", "mark"}
        \/ \E g \in Resetters : req[g].pc \in {"waiting", "drop"}
    BY DEF CancelsPending, OnTask
  <2> QED BY <1>1, <1>6, <2>1 DEF Requests
<1>33. WorkedOn'
  <2> SUFFICES ASSUME NEW j \in Ids \ cancelled', Open(j), Spared(j, {"fault", "reset"})
               PROVE  \/ \E r \in Runs : run'[r].id = j /\ Live(r)'
                      \/ \E g \in Requests : req'[g].id = j /\ req'[g].pc = "enqueue"
    BY <1>1, <1>13 DEF WorkedOn, OnTask, Open
  <2>1. CASE j = i
    BY <1>3, <1>4, <1>8, <2>1
  <2>2. CASE j # i
    <3>1. \/ \E r \in Runs : run[r].id = j /\ Live(r)
          \/ \E g \in Requests : req[g].id = j /\ req[g].pc = "enqueue"
      BY <1>2, <2>2 DEF WorkedOn, OnTask
    <3>2. CASE \E r \in Runs : run[r].id = j /\ Live(r)
      BY <1>3, <1>8, <1>9, <1>10, <3>2
    <3>3. CASE \E g \in Requests : req[g].id = j /\ req[g].pc = "enqueue"
      BY <1>6, <2>2, <3>3 DEF i
    <3> QED BY <3>1, <3>2, <3>3
  <2> QED BY <2>1, <2>2
<1>34. Billed'
  <2>1. ASSUME NEW r \in Runs, Exists(r)', Spared(run[r].id, {"fault", "crash", "reset"})'
        PROVE  row'[run'[r].id].usage = Paid(run'[r]) \/ Cut(r)'
    <3>1. CASE r # s
      BY <1>1, <1>3, <1>8, <2>1, <3>1 DEF Billed, Cut, Spared
    <3>2. CASE r = s
      <4>1. Calm
        BY <1>1, <1>3, <1>4, <2>1, <3>2, CalmIf DEF Spared
      <4>2. row[i].usage = 0
        BY <1>1, <4>1 DEF Billed, i
      <4>3. Paid(run'[s]) = 0
        BY <1>3, <1>4 DEF Paid
      <4> QED BY <1>1, <1>3, <1>4, <3>2, <4>2, <4>3
    <3> QED BY <3>1, <3>2
  <2>2. Calm' => \A g \in Requests : req'[g].pc = "enqueue" => row'[req'[g].id].usage = 0
    BY <1>1, <1>13, <1>14 DEF Billed
  <2>3. \A r \in Runs : Exists(r)' /\ Spared(run[r].id, {"fault", "crash", "reset"})'
                         => row'[run'[r].id].usage = Paid(run'[r]) \/ Cut(r)'
    BY <2>1
  <2> QED BY <1>1, <2>2, <2>3 DEF Billed
<1> QED BY <1>20, <1>21, <1>22, <1>23, <1>24, <1>25, <1>26, <1>27, <1>28, <1>29, <1>30, <1>31, <1>32, <1>33, <1>34

\* task.cancel() only sets the flag of runs that are alive.
LEMMA StoppedKind ==
  ASSUME Kinds, NEW rs, run' = Stopped(rs)
  PROVE  /\ run' \in [Runs -> RunRecords] /\ \A r \in Runs : RunOK(run'[r])
         /\ \A r \in Runs : /\ run'[r].pc = run[r].pc /\ run'[r].id = run[r].id /\ run'[r].calls = run[r].calls
                            /\ run'[r].error = run[r].error /\ run'[r].seen = run[r].seen
                            /\ Told(run'[r]) => Told(run[r]) \/ (r \in rs /\ Live(r))
                            /\ (Exists(r)' <=> Exists(r)) /\ (Live(r)' <=> Live(r))
                            /\ Paid(run'[r]) = Paid(run[r])
<1>1. ASSUME NEW r \in Runs
      PROVE  /\ run'[r] \in RunRecords /\ RunOK(run'[r])
             /\ run'[r].pc = run[r].pc /\ run'[r].id = run[r].id /\ run'[r].calls = run[r].calls
             /\ run'[r].error = run[r].error /\ run'[r].seen = run[r].seen
             /\ Told(run'[r]) => Told(run[r]) \/ (r \in rs /\ Live(r))
  <2>1. CASE ~(r \in rs /\ Live(r))
    BY <2>1 DEF Stopped, Kinds
  <2>2. CASE r \in rs /\ Live(r)
    <3> DEFINE m == [run[r] EXCEPT !.stop = TRUE]
    <3>1. run'[r] = m
      BY <2>2 DEF Stopped
    <3>2. run[r] \in RunRecords /\ RunOK(run[r])
      BY DEF Kinds
    <3>3. /\ m.pc = run[r].pc /\ m.id = run[r].id /\ m.calls = run[r].calls /\ m.error = run[r].error
          /\ m.seen = run[r].seen /\ m.level = run[r].level /\ m.tick = run[r].tick
      BY <3>2 DEF RunRecords
    <3>4. m \in RunRecords
      BY <3>2 DEF RunRecords
    <3> HIDE DEF m
    <3> QED BY <2>2, <3>1, <3>2, <3>3, <3>4 DEF RunOK, Live
  <2> QED BY <2>1, <2>2
<1>2. run' = [r \in Runs |-> run'[r]]
  BY DEF Stopped
<1> QED BY <1>1, <1>2 DEF Exists, Live, Paid

\* A cancel or a reset begins: some ids become cancelled, their runs are told
\* to stop, and the request waits for them or goes on.
StopMoves(h, ids, rs) ==
  LET n == req'[h] IN
  /\ UNCHANGED <<life, row, tasks>> /\ life = "up"
  /\ ids \subseteq Ids /\ cancelled' = cancelled \cup ids
  /\ run' = Stopped(rs) /\ \A r \in rs \cap Runs : Live(r) => run[r].id \in ids
  /\ req[h].pc = "idle" /\ req' = [req EXCEPT ![h] = n] /\ RequestOK(h, n)
  /\ \A p \in hurt' : p \in hurt \/ p \in ids \X {"early cancel"}
  /\ hurt \subseteq hurt'
  /\ Calm => \A j \in ids : row[j] # NoRow
  /\ \/ h \in Resetters /\ n.pc = "waiting" /\ n.id = NoId
     \/ /\ h \in Cancellers /\ ids = {n.id} /\ row[n.id] # NoRow
        /\ \/ /\ n.pc = "waiting"
              /\ \E r \in n.runs : Exists(r) /\ run[r].id = n.id
           \/ /\ n.pc = "recheck"
              /\ tasks[n.id] = NoRun
              /\ <<n.id, "early cancel">> \in hurt' \/ \A g \in Requests : ~OnTask(g, n.id, {"enqueue"})

LEMMA StopKeeps ==
  ASSUME IInv, NEW h \in Requests, NEW ids, NEW rs, StopMoves(h, ids, rs)
  PROVE  IInv'
<1> DEFINE n == req'[h]
<1> USE DEF IInv
<1>1. /\ UNCHANGED <<life, row, tasks>> /\ life = "up" /\ ids \subseteq Ids /\ cancelled' = cancelled \cup ids
      /\ req[h].pc = "idle" /\ RequestOK(h, n) /\ n.pc \in {"waiting", "recheck"}
  BY DEF StopMoves
<1>2. /\ run' \in [Runs -> RunRecords] /\ \A r \in Runs : RunOK(run'[r])
      /\ \A r \in Runs : /\ run'[r].pc = run[r].pc /\ run'[r].id = run[r].id /\ run'[r].calls = run[r].calls
                         /\ run'[r].error = run[r].error /\ run'[r].seen = run[r].seen
                         /\ Told(run'[r]) => Told(run[r]) \/ (r \in rs /\ Live(r))
                         /\ (Exists(r)' <=> Exists(r)) /\ (Live(r)' <=> Live(r))
                         /\ Paid(run'[r]) = Paid(run[r])
  BY StoppedKind DEF StopMoves
<1>3. \A g \in Requests \ {h} : req'[g] = req[g]
  BY DEF StopMoves, Kinds
<1>4. /\ \A j, what : what # "early cancel" => (<<j, what>> \in hurt' <=> <<j, what>> \in hurt)
      /\ \A j : <<j, "early cancel">> \in hurt => <<j, "early cancel">> \in hurt'
  BY DEF StopMoves
<1>5. /\ Calm' <=> Calm
      /\ \A j : Undisturbed(j)' => Undisturbed(j)
      /\ \A j : \A S \in {{"fault", "reset"}, {"fault", "crash", "reset"}} : Spared(j, S)' <=> Spared(j, S)
  BY <1>4 DEF Calm, Undisturbed, Spared
<1>6. \A j \in Ids : Undisturbed(j) \/ Spared(j, {"fault", "reset"}) => Calm
  BY CalmIf DEF Undisturbed, Spared
<1>7. \A g \in Requests : req[g].pc # "idle" => g # h /\ req'[g] = req[g]
  BY <1>1, <1>3
<1>8. \A g \in Requests : req'[g].pc \notin {"waiting", "recheck"} => g # h /\ req'[g] = req[g]
  BY <1>1, <1>3
<1>9. /\ Calm => \A j \in ids : row[j] # NoRow
      /\ \/ h \in Resetters /\ n.pc = "waiting"
         \/ h \in Cancellers /\ ids = {n.id} /\ row[n.id] # NoRow
  BY DEF StopMoves
<1> HIDE DEF n
<1>20. Kinds'
  <2>1. req' \in [Requests -> RequestRecords] /\ \A g \in Requests : RequestOK(g, req'[g])
    BY ZenonT(30), <1>1, <1>3 DEF StopMoves, Kinds, RequestOK, n
  <2> QED BY <1>1, <1>2, <2>1 DEF Kinds, TablesOK
<1>21. DownIsIdle'
  BY <1>1 DEF DownIsIdle
<1>22. ResetMarks'
  <2>1. \A g \in Requests : req'[g].pc = "drop" => ~Calm'
    BY <1>5, <1>8 DEF ResetMarks
  <2>2. \A i \in Ids : <<i, "reset">> \in hurt' => ~\E j \in Ids : <<j, "reset">> \notin hurt'
    BY <1>4 DEF ResetMarks
  <2> QED BY <2>1, <2>2 DEF ResetMarks
<1>23. Registered'
  <2>1. \A j \in Ids : tasks'[j] # NoRun => run'[tasks'[j]].pc # "free" /\ run'[tasks'[j]].id = j
    <3> SUFFICES ASSUME NEW j \in Ids, tasks[j] # NoRun
                 PROVE  run'[tasks[j]].pc # "free" /\ run'[tasks[j]].id = j
      BY <1>1
    <3>1. tasks[j] \in Runs
      BY DEF Kinds, TablesOK
    <3>2. Exists(tasks[j]) /\ run[tasks[j]].id = j
      BY DEF Registered
    <3> QED BY <1>2, <3>1, <3>2 DEF Exists
  <2>2. Calm' => \A r \in Runs : Live(r)' => tasks'[run'[r].id] = r
    BY <1>1, <1>2, <1>5 DEF Registered
  <2> QED BY <2>1, <2>2 DEF Registered, Exists
<1>24. EndsPrepared'
  BY <1>2, <1>8 DEF EndsPrepared
<1>25. Calm' => OneOwner'
  <2> SUFFICES ASSUME Calm PROVE OneOwner'
    BY <1>5
  <2>1. \A r, p \in Runs : Exists(r)' /\ Exists(p)' /\ run'[r].id = run'[p].id => r = p
    BY <1>2 DEF OneOwner
  <2>2. \A g \in Requests : req'[g].pc = "enqueue" =>
          /\ \A r \in Runs : Exists(r)' => run'[r].id # req'[g].id
          /\ \A k \in Requests : req'[k].id = req'[g].id /\ req'[k].pc \in {"enqueue"} => k = g
    BY <1>2, <1>8 DEF OneOwner, OnTask
  <2>3. \A r \in Runs : Exists(r)' => row'[run'[r].id] # NoRow
    BY <1>1, <1>2 DEF OneOwner
  <2>4. \A j \in cancelled' : row'[j] # NoRow
    BY <1>1, <1>9 DEF OneOwner
  <2>5. ASSUME NEW g \in Requests, NEW j \in Ids,
               req'[g].id = j, req'[g].pc \in {"enqueue", "waiting", "recheck", "mark"}
        PROVE  row'[j] # NoRow
    <3>1. CASE g # h
      BY <1>1, <1>3, <2>5, <3>1 DEF OneOwner, OnTask
    <3>2. CASE g = h
      <4>1. n.id = j /\ j # NoId
        BY <2>5, <3>2 DEF n
      <4>2. row[n.id] # NoRow
        BY <4>1 DEF StopMoves, n
      <4> QED BY <1>1, <4>1, <4>2
    <3> QED BY <3>1, <3>2
  <2> QED BY <2>1, <2>2, <2>3, <2>4, <2>5 DEF OneOwner, OnTask
<1>26. Calm' => EndsByRun'
  <2> SUFFICES ASSUME Calm PROVE EndsByRun'
    BY <1>5
  <2>1. \A r \in Runs : Live(r)' => row'[run'[r].id].status \notin {"done", "failed"}
    BY <1>1, <1>2 DEF EndsByRun
  <2>2. \A g \in Requests : req'[g].pc = "enqueue" => row'[req'[g].id].status \notin {"done", "failed"}
    BY <1>1, <1>8 DEF EndsByRun
  <2> QED BY <2>1, <2>2 DEF EndsByRun
<1>27. StopsCancelled'
  <2> SUFFICES ASSUME Calm, NEW r \in Runs, Told(run'[r])
               PROVE  run[r].id \in cancelled \cup ids
    BY <1>1, <1>2, <1>5 DEF StopsCancelled
  <2> QED BY <1>2 DEF StopsCancelled, StopMoves
<1>28. StopsAwaited'
  <2> SUFFICES ASSUME Calm, NEW r \in Runs, Live(r), run[r].id \in cancelled \cup ids
               PROVE  \/ \E g \in Cancellers : req'[g].id = run[r].id /\ req'[g].pc = "waiting"
                      \/ \E g \in Resetters : req'[g].pc = "waiting"
    <3>1. ASSUME NEW r \in Runs, Live(r)', run'[r].id \in cancelled', Calm
          PROVE  Live(r) /\ run[r].id \in cancelled \cup ids /\ run'[r].id = run[r].id
      BY <1>1, <1>2, <3>1
    <3> QED BY <1>5, <3>1 DEF StopsAwaited, OnTask
  <2>1. CASE run[r].id \in cancelled
    <3>1. \/ \E g \in Cancellers : req[g].id = run[r].id /\ req[g].pc = "waiting"
          \/ \E g \in Resetters : req[g].pc = "waiting"
      BY <2>1 DEF StopsAwaited, OnTask
    <3> QED BY <1>7, <3>1 DEF Requests
  <2>2. CASE run[r].id \in ids
    <3>1. tasks[run[r].id] = r /\ r # NoRun
      BY DEF Registered
    <3> QED BY <1>1, <2>2, <3>1 DEF StopMoves
  <2> QED BY <2>1, <2>2
<1>29. WaitsForRun'
  <2> SUFFICES ASSUME Calm, NEW g \in Cancellers, req'[g].pc = "waiting"
               PROVE  \E r \in req'[g].runs : run'[r].pc # "free" /\ run'[r].id = req'[g].id
    BY <1>5 DEF WaitsForRun, Exists
  <2>1. g \in Requests /\ req'[g].runs \subseteq Runs
    BY <1>20 DEF Requests, Kinds, RequestRecords
  <2>2. \E r \in req'[g].runs : Exists(r) /\ run[r].id = req'[g].id
    <3>1. CASE g # h
      BY <1>3, <2>1, <3>1 DEF WaitsForRun
    <3>2. CASE g = h
      <4>1. h \notin Resetters
        BY <3>2, RequestsAssumption
      <4> QED BY <3>2, <4>1 DEF StopMoves
    <3> QED BY <3>1, <3>2
  <2> QED BY <1>2, <2>1, <2>2 DEF Exists
<1>30. CancelsAlone'
  <2> SUFFICES ASSUME NEW g \in Cancellers, NEW j \in Ids, Undisturbed(j)'
               PROVE  (/\ OnTask(g, j, {"recheck", "mark"}) =>
                            /\ \A k \in Requests : ~OnTask(k, j, {"enqueue"})
                            /\ \A r \in Runs : run[r].id = j => ~Live(r)
                       /\ OnTask(g, j, {"mark"}) => row[j].status \in {"pending", "running", "cancelled"}
                       /\ OnTask(g, j, {"cancelled"}) => row[j].status = "cancelled")'
    BY DEF CancelsAlone
  <2>1. g \in Requests /\ Calm /\ Undisturbed(j)
    BY <1>5, <1>6 DEF Requests
  <2>2. \A k \in Requests : OnTask(k, j, {"enqueue"})' => OnTask(k, j, {"enqueue"})
    BY <1>8 DEF OnTask
  <2>3. CASE g # h
    <3>1. req'[g] = req[g]
      BY <1>3, <2>1, <2>3
    <3> QED BY <1>1, <1>2, <2>1, <2>2, <3>1 DEF CancelsAlone, OnTask
  <2>4. CASE g = h /\ n.pc = "recheck" /\ n.id = j
    <3>1. <<j, "early cancel">> \notin hurt'
      BY DEF Undisturbed, Spared
    <3>2. tasks[j] = NoRun /\ \A k \in Requests : ~OnTask(k, j, {"enqueue"})
      BY <2>4, <3>1 DEF StopMoves, n
    <3>3. \A r \in Runs : run[r].id = j => ~Live(r)
      BY <2>1, <3>2 DEF Registered
    <3> QED BY <1>2, <2>2, <2>4, <3>2, <3>3 DEF OnTask, n
  <2>5. CASE g = h /\ ~(n.pc = "recheck" /\ n.id = j)
    BY <1>1, <2>5 DEF OnTask, n
  <2> QED BY <2>3, <2>4, <2>5
<1>31. EndedIsIdle'
  <2> SUFFICES ASSUME NEW j \in Ids, Undisturbed(j), Finished(j)
               PROVE  /\ \A r \in Runs : run'[r].id = j => ~Live(r)'
                      /\ \A g \in Requests : ~OnTask(g, j, {"enqueue"})'
    BY <1>1, <1>5 DEF EndedIsIdle, Finished
  <2>1. \A k \in Requests : OnTask(k, j, {"enqueue"})' => OnTask(k, j, {"enqueue"})
    BY <1>8 DEF OnTask
  <2> QED BY <1>2, <2>1 DEF EndedIsIdle
<1>32. CancelsPending'
  <2> SUFFICES ASSUME NEW j \in cancelled \cup ids, j \in Ids, Open(j), Spared(j, {"fault", "reset"})
               PROVE  \/ \E g \in Requests : req'[g].id = j /\ req'[g].pc \in {"waiting", "recheck", "mark"}
                      \/ \E g \in Resetters : req'[g].pc \in {"waiting", "drop"}
    BY <1>1, <1>5 DEF CancelsPending, OnTask, Open
  <2>1. CASE j \in ids
    BY <1>1, <1>9, <2>1 DEF n
  <2>2. CASE j \in cancelled
    <3>1. \/ \E g \in Requests : req[g].id = j /\ req[g].pc \in {"waiting", "recheck", "mark"}
          \/ \E g \in Resetters : req[g].pc \in {"waiting", "drop"}
      BY <2>2 DEF CancelsPending, OnTask
    <3> QED BY <1>7, <3>1 DEF Requests
  <2> QED BY <2>1, <2>2
<1>33. WorkedOn'
  <2> SUFFICES ASSUME NEW j \in Ids \ cancelled, Open(j), Spared(j, {"fault", "reset"})
               PROVE  \/ \E r \in Runs : run'[r].id = j /\ Live(r)'
                      \/ \E g \in Requests : req'[g].id = j /\ req'[g].pc = "enqueue"
    BY <1>1, <1>5 DEF WorkedOn, OnTask, Open
  <2>1. \/ \E r \in Runs : run[r].id = j /\ Live(r)
        \/ \E g \in Requests : req[g].id = j /\ req[g].pc = "enqueue"
    BY <1>1 DEF WorkedOn, OnTask
  <2> QED BY <1>2, <1>7, <2>1
<1>34. Billed'
  <2>1. ASSUME NEW r \in Runs, Exists(r)', Spared(run[r].id, {"fault", "crash", "reset"})'
        PROVE  row'[run'[r].id].usage = Paid(run'[r]) \/ Cut(r)'
    <3>1. Exists(r) /\ Spared(run[r].id, {"fault", "crash", "reset"}) /\ run'[r].id = run[r].id
      BY <1>2, <1>4, <2>1 DEF Spared
    <3> QED BY <1>1, <1>2, <3>1 DEF Billed, Cut
  <2>2. Calm' => \A g \in Requests : req'[g].pc = "enqueue" => row'[req'[g].id].usage = 0
    BY <1>1, <1>5, <1>8 DEF Billed
  <2>3. \A r \in Runs : Exists(r)' /\ Spared(run[r].id, {"fault", "crash", "reset"})'
                         => row'[run'[r].id].usage = Paid(run'[r]) \/ Cut(r)'
    BY <2>1
  <2> QED BY <1>1, <2>2, <2>3 DEF Billed
<1> QED BY <1>20, <1>21, <1>22, <1>23, <1>24, <1>25, <1>26, <1>27, <1>28, <1>29, <1>30, <1>31, <1>32, <1>33, <1>34

LEMMA CancelStops ==
  ASSUME IInv, life = "up", NEW h \in Cancellers, NEW i \in Ids, CancelLoad(h, i), Open(i), UNCHANGED env
  PROVE  StopMoves(h, {i}, {tasks[i]})
<1> DEFINE place == IF tasks[i] = NoRun THEN "recheck" ELSE "waiting"
           n == [req[h] EXCEPT !.pc = place, !.id = i, !.runs = {tasks[i]} \ {NoRun}]
<1> USE DEF IInv
<1>1. h \in Requests /\ req[h] \in RequestRecords /\ RequestOK(h, req[h]) /\ tasks[i] \in Runs \cup {NoRun}
  BY DEF Requests, Kinds, TablesOK
<1>2. /\ req[h].pc = "idle" /\ cancelled' = cancelled \cup {i} /\ run' = Stopped({tasks[i]})
      /\ UNCHANGED <<life, row, tasks>>
  BY DEF CancelLoad, env
<1>3. req' = [req EXCEPT ![h] = n] /\ req'[h] = n
  <2>1. req' = [req EXCEPT ![h].id = i, ![h].runs = {tasks[i]} \ {NoRun}, ![h].pc = place]
    BY DEF CancelLoad
  <2>2. req' = [req EXCEPT ![h] = [req[h] EXCEPT !.id = i, !.runs = {tasks[i]} \ {NoRun}, !.pc = place]]
    BY <1>1, <2>1 DEF Kinds
  <2>3. [req[h] EXCEPT !.id = i, !.runs = {tasks[i]} \ {NoRun}, !.pc = place] = n
    BY <1>1 DEF RequestRecords
  <2> HIDE DEF n
  <2> QED BY <1>1, <2>2, <2>3 DEF Kinds
<1>4. n.pc = place /\ n.id = i /\ n.runs = {tasks[i]} \ {NoRun}
  BY <1>1 DEF RequestRecords
<1>5. n \in RequestRecords
  BY <1>1 DEF RequestRecords, RequestPlaces
<1>6. RequestOK(h, n)
  <2>1. place \in {"recheck", "waiting"}
    OBVIOUS
  <2> HIDE DEF n, place
  <2> QED BY <1>4, <1>5, <2>1 DEF RequestOK
<1>7. row[i] # NoRow
  BY NoRowKind DEF Open
<1>8. /\ \A p \in hurt' : p \in hurt \/ p \in {i} \X {"early cancel"}
      /\ hurt \subseteq hurt'
      /\ <<i, "early cancel">> \in hurt' \/ \A g \in Requests : ~OnTask(g, i, {"enqueue"})
  <2>1. CASE \E g \in Requests : req[g].pc = "enqueue" /\ req[g].id = i
    <3>1. hurt' = hurt \cup {<<i, "early cancel">>}
      BY <2>1 DEF CancelLoad
    <3>2. <<i, "early cancel">> \in {i} \X {"early cancel"}
      OBVIOUS
    <3>3. \A p \in hurt' : p \in hurt \/ p \in {i} \X {"early cancel"}
      BY <3>1, <3>2
    <3> QED BY <3>1, <3>3
  <2>2. CASE ~\E g \in Requests : req[g].pc = "enqueue" /\ req[g].id = i
    <3>1. hurt' = hurt
      BY <2>2 DEF CancelLoad
    <3> QED BY <2>2, <3>1 DEF OnTask
  <2> QED BY <2>1, <2>2
<1>9. \A r \in {tasks[i]} \cap Runs : Live(r) => run[r].id \in {i}
  BY DEF Registered
<1>10. \/ /\ n.pc = "waiting"
          /\ \E r \in n.runs : Exists(r) /\ run[r].id = n.id
       \/ n.pc = "recheck" /\ tasks[n.id] = NoRun
  BY <1>1, <1>4 DEF Registered
<1> HIDE DEF n, place
<1> QED BY <1>2, <1>3, <1>4, <1>6, <1>7, <1>8, <1>9, <1>10 DEF StopMoves

LEMMA ResetStops ==
  ASSUME IInv, life = "up", NEW h \in Resetters, ResetBegin(h), \E i \in Ids : tasks[i] # NoRun, UNCHANGED env
  PROVE  LET ids == {i \in Ids : tasks[i] # NoRun} IN StopMoves(h, ids, {tasks[i] : i \in ids})
<1> DEFINE ids == {i \in Ids : tasks[i] # NoRun}
           rs == {tasks[i] : i \in ids}
           n == [req[h] EXCEPT !.pc = "waiting", !.runs = rs]
<1> USE DEF IInv
<1>1. h \in Requests /\ req[h] \in RequestRecords /\ RequestOK(h, req[h]) /\ \A i \in Ids : tasks[i] \in Runs \cup {NoRun}
  BY DEF Requests, Kinds, TablesOK
<1>2. /\ req[h].pc = "idle" /\ cancelled' = cancelled \cup ids /\ run' = Stopped(rs)
      /\ UNCHANGED <<life, row, tasks, hurt>>
  BY DEF ResetBegin, env
<1>3. req' = [req EXCEPT ![h] = n] /\ req'[h] = n
  <2>1. req' = [req EXCEPT ![h].pc = "waiting", ![h].runs = rs]
    BY DEF ResetBegin
  <2> QED BY <1>1, <2>1 DEF Kinds
<1>4. n.pc = "waiting" /\ n.id = NoId
  BY <1>1, <1>2 DEF RequestRecords, RequestOK
<1>5. rs \subseteq Runs
  BY <1>1
<1>6. n \in RequestRecords
  <2> HIDE DEF rs
  <2> QED BY <1>1, <1>5 DEF RequestRecords, RequestPlaces
<1>7. RequestOK(h, n)
  <2>1. h \notin Cancellers
    BY RequestsAssumption
  <2> HIDE DEF n
  <2> QED BY <1>4, <1>6, <2>1 DEF RequestOK
<1>8. \A r \in rs \cap Runs : Live(r) => run[r].id \in ids
  BY DEF Registered
<1>9. Calm => \A j \in ids : row[j] # NoRow
  <2> SUFFICES ASSUME Calm, NEW j \in ids PROVE row[j] # NoRow
    OBVIOUS
  <2>1. tasks[j] \in Runs /\ Exists(tasks[j]) /\ run[tasks[j]].id = j
    BY <1>1 DEF Registered
  <2> QED BY <2>1 DEF OneOwner
<1> HIDE DEF n, rs, ids
<1>10. ids \subseteq Ids
  BY DEF ids
<1>11. StopMoves(h, ids, rs)
  BY <1>2, <1>3, <1>4, <1>7, <1>8, <1>9, <1>10 DEF StopMoves
<1> QED BY <1>11 DEF ids, rs

\* The commit of a cancel; a row that is there becomes "cancelled".
LEMMA CancelCommitKeeps ==
  ASSUME IInv, life = "up", NEW h \in Requests, CancelCommit(h), UNCHANGED env
  PROVE  IInv'
<1> DEFINE i == req[h].id  b == req[h].seen  new == [b EXCEPT !.status = "cancelled"]
<1> USE DEF IInv
<1>1. /\ req[h].pc = "mark" /\ i \in Ids /\ h \in Cancellers /\ UNCHANGED <<life, cancelled, tasks, run, hurt>>
      /\ req[h] \in RequestRecords /\ row[i] \in Rows
  BY DEF CancelCommit, Kinds, RequestOK, TablesOK, env
<1>2. b \in Rows /\ b.status \notin Terminal
  BY <1>1 DEF RequestRecords, EndsPrepared
<1>3. new \in Rows /\ new.status = "cancelled" /\ new.usage = b.usage
  BY <1>2 DEF Rows
<1>4. new # b
  BY <1>2, <1>3
<1>5. CASE UpdateMisses(row[i], b, new)
  <2>1. Answer(h, "broken") /\ row' = row /\ row[i] = NoRow
    BY <1>5 DEF CancelCommit, UpdateMisses
  <2>2. AskMoves(h)
    BY <1>1, <2>1, BreakAsks
  <2> QED BY <2>2, AskKeeps
<1>6. CASE ~UpdateMisses(row[i], b, new)
  <2> DEFINE w == row'[i]
  <2>1. row' = [row EXCEPT ![i] = OrmUpdate(row[i], b, new)] /\ Answer(h, "cancelled") /\ row[i] # NoRow
    BY <1>4, <1>6 DEF CancelCommit, UpdateMisses
  <2>2. row' = [row EXCEPT ![i] = w] /\ w = OrmUpdate(row[i], b, new)
    BY <1>1, <2>1 DEF Kinds, TablesOK
  <2> HIDE DEF w, new, b, i
  <2>3. w \in Rows /\ w.status = "cancelled" /\ w.usage = row[i].usage /\ w # NoRow
    BY <1>1, <1>2, <1>3, <2>1, <2>2, FlushKind, NoRowKind
  <2>4. /\ req' = [req EXCEPT ![h] = req'[h]] /\ req'[h].pc = "cancelled" /\ req'[h].id = i /\ RequestOK(h, req'[h])
        /\ \A g \in Requests \ {h} : req'[g] = req[g]
    <3>1. "cancelled" \in RequestPlaces
      BY DEF RequestPlaces, Settled
    <3> QED BY <1>1, <2>1, <3>1, AnswerKind DEF RequestOK, Kinds, i
  <2>5. \A j \in Ids \ {i} : row'[j] = row[j]
    BY <2>2 DEF Kinds, TablesOK
  <2>6. \A g \in Requests : req'[g].pc # "cancelled" => g # h /\ req'[g] = req[g]
    BY <2>4
  <2>7. /\ Calm' <=> Calm
        /\ \A j : Undisturbed(j)' <=> Undisturbed(j)
        /\ \A j, S : Spared(j, S)' <=> Spared(j, S)
        /\ \A r \in Runs : (Exists(r)' <=> Exists(r)) /\ (Live(r)' <=> Live(r))
    BY <1>1 DEF Calm, Undisturbed, Spared, Exists, Live
  <2>8. \A j \in Ids : row'[j] # NoRow <=> row[j] # NoRow
    BY <2>1, <2>3, <2>5 DEF w
  <2>20. Kinds'
    <3>1. TablesOK'
      BY <1>1, <2>2, <2>3, <2>5 DEF Kinds, TablesOK
    <3>2. req' \in [Requests -> RequestRecords] /\ \A g \in Requests : RequestOK(g, req'[g])
      BY <2>4 DEF Kinds, RequestOK
    <3> QED BY <1>1, <3>1, <3>2 DEF Kinds
  <2>21. DownIsIdle'
    BY <1>1 DEF DownIsIdle
  <2>22. ResetMarks'
    BY <1>1, <2>6, <2>7 DEF ResetMarks
  <2>23. Registered'
    BY <1>1, <2>7 DEF Registered, Exists
  <2>24. EndsPrepared'
    BY <1>1, <2>6 DEF EndsPrepared
  <2>25. Calm' => OneOwner'
    <3> SUFFICES ASSUME Calm PROVE OneOwner'
      BY <2>7
    <3>1. \A r, p \in Runs : Exists(r)' /\ Exists(p)' /\ run'[r].id = run'[p].id => r = p
      BY <1>1, <2>7 DEF OneOwner
    <3>2. \A g \in Requests : req'[g].pc = "enqueue" =>
            /\ \A r \in Runs : Exists(r)' => run'[r].id # req'[g].id
            /\ \A k \in Requests : req'[k].id = req'[g].id /\ req'[k].pc \in {"enqueue"} => k = g
      BY <1>1, <2>6, <2>7 DEF OneOwner, OnTask
    <3>3. \A r \in Runs : Exists(r)' => row'[run'[r].id] # NoRow
      BY <1>1, <2>7, <2>8 DEF OneOwner, Kinds, RunOK, Exists
    <3>4. \A j \in cancelled' : row'[j] # NoRow
      BY <1>1, <2>8 DEF OneOwner, Kinds
    <3>5. \A g \in Requests, j \in Ids :
            req'[g].id = j /\ req'[g].pc \in {"enqueue", "waiting", "recheck", "mark"} => row'[j] # NoRow
      BY <2>6, <2>8 DEF OneOwner, OnTask
    <3> QED BY <3>1, <3>2, <3>3, <3>4, <3>5 DEF OneOwner, OnTask
  <2>26. Calm' => EndsByRun'
    <3> SUFFICES ASSUME Calm PROVE EndsByRun'
      BY <2>7
    <3>1. ASSUME NEW j \in Ids, row[j].status \notin {"done", "failed"}
          PROVE  row'[j].status \notin {"done", "failed"}
      BY <2>3, <2>5, <3>1 DEF w
    <3>2. \A r \in Runs : Live(r) => row'[run[r].id].status \notin {"done", "failed"}
      BY <3>1 DEF EndsByRun, Kinds, RunOK, Live
    <3>3. \A g \in Requests : req'[g].pc = "enqueue" => row'[req'[g].id].status \notin {"done", "failed"}
      BY <2>6, <3>1 DEF EndsByRun, Kinds, RequestOK
    <3> QED BY <1>1, <2>7, <3>2, <3>3 DEF EndsByRun
  <2>27. StopsCancelled'
    BY <1>1, <2>7 DEF StopsCancelled
  <2>28. StopsAwaited'
    <3> SUFFICES ASSUME Calm, NEW r \in Runs, Live(r), run[r].id \in cancelled
                 PROVE  \/ \E g \in Cancellers : req'[g].id = run[r].id /\ req'[g].pc = "waiting"
                        \/ \E g \in Resetters : req'[g].pc = "waiting"
      <4>1. ASSUME NEW r \in Runs, Live(r)', run'[r].id \in cancelled', Calm
            PROVE  Live(r) /\ run[r].id \in cancelled /\ run'[r].id = run[r].id
        BY <1>1, <2>7, <4>1
      <4> QED BY <2>7, <4>1 DEF StopsAwaited, OnTask
    <3>1. \/ \E g \in Cancellers : req[g].id = run[r].id /\ req[g].pc = "waiting"
          \/ \E g \in Resetters : req[g].pc = "waiting"
      BY DEF StopsAwaited, OnTask
    <3>2. \A g \in Requests : req[g].pc = "waiting" => req'[g] = req[g]
      BY <1>1, <2>4
    <3> QED BY <3>1, <3>2 DEF Requests
  <2>29. WaitsForRun'
    <3> SUFFICES ASSUME Calm, NEW g \in Cancellers, req'[g].pc = "waiting"
                 PROVE  \E r \in req'[g].runs : run'[r].pc # "free" /\ run'[r].id = req'[g].id
      BY <2>7 DEF WaitsForRun, Exists
    <3>1. req'[g] = req[g]
      BY <2>6 DEF Requests
    <3> QED BY <1>1, <3>1 DEF WaitsForRun, Exists
  <2>30. \A j : Undisturbed(j) /\ j = i => /\ \A g \in Requests : ~OnTask(g, j, {"enqueue"})
                                           /\ \A r \in Runs : run[r].id = j => ~Live(r)
    BY <1>1 DEF CancelsAlone, OnTask, i
  <2>31. \A g \in Requests, j \in Ids : OnTask(g, j, {"enqueue"})' => OnTask(g, j, {"enqueue"})
    BY <2>6 DEF OnTask
  <2>32. CancelsAlone'
    <3> SUFFICES ASSUME NEW g \in Cancellers, NEW j \in Ids, Undisturbed(j)
                 PROVE  (/\ OnTask(g, j, {"recheck", "mark"}) =>
                              /\ \A k \in Requests : ~OnTask(k, j, {"enqueue"})
                              /\ \A r \in Runs : run[r].id = j => ~Live(r)
                         /\ OnTask(g, j, {"mark"}) => row[j].status \in {"pending", "running", "cancelled"}
                         /\ OnTask(g, j, {"cancelled"}) => row[j].status = "cancelled")'
      BY <2>7 DEF CancelsAlone
    <3>1. g \in Requests
      BY DEF Requests
    <3>2. CASE g = h
      BY <2>3, <2>4, <3>2 DEF OnTask, w
    <3>3. CASE g # h
      <4>1. req'[g] = req[g]
        BY <2>4, <3>1, <3>3
      <4>2. CASE j = i
        BY <1>1, <2>3, <2>7, <2>30, <2>31, <4>1, <4>2 DEF OnTask, w
      <4>3. CASE j # i
        BY <1>1, <2>5, <2>7, <2>31, <4>1, <4>3 DEF CancelsAlone, OnTask
      <4> QED BY <4>2, <4>3
    <3> QED BY <3>2, <3>3
  <2>33. EndedIsIdle'
    <3> SUFFICES ASSUME NEW j \in Ids, Undisturbed(j), Finished(j)'
                 PROVE  /\ \A r \in Runs : run[r].id = j => ~Live(r)
                        /\ \A g \in Requests : ~OnTask(g, j, {"enqueue"})'
      BY <1>1, <2>7 DEF EndedIsIdle
    <3>1. CASE j = i
      BY <2>30, <2>31, <3>1
    <3>2. CASE j # i
      BY <2>5, <2>31, <3>2 DEF EndedIsIdle, Finished
    <3> QED BY <3>1, <3>2
  <2>34. CancelsPending'
    <3> SUFFICES ASSUME NEW j \in cancelled, j \in Ids, Open(j)', Spared(j, {"fault", "reset"})
                 PROVE  \/ \E g \in Requests : req'[g].id = j /\ req'[g].pc \in {"waiting", "recheck", "mark"}
                        \/ \E g \in Resetters : req'[g].pc \in {"waiting", "drop"}
      BY <1>1, <2>7 DEF CancelsPending, OnTask
    <3>1. j # i /\ Open(j)
      BY <2>3, <2>5 DEF Open, w
    <3>2. \/ \E g \in Requests : req[g].id = j /\ req[g].pc \in {"waiting", "recheck", "mark"}
          \/ \E g \in Resetters : req[g].pc \in {"waiting", "drop"}
      BY <3>1 DEF CancelsPending, OnTask
    <3>3. \A g \in Requests : req[g].id = j => req'[g] = req[g]
      BY <2>4, <3>1 DEF i
    <3>4. \A g \in Resetters : req[g].pc \in {"waiting", "drop"} => req'[g] = req[g]
      BY <1>1, <2>4 DEF Requests
    <3> QED BY <3>2, <3>3, <3>4
  <2>35. WorkedOn'
    <3> SUFFICES ASSUME NEW j \in Ids \ cancelled, Open(j)', Spared(j, {"fault", "reset"})
                 PROVE  \/ \E r \in Runs : run[r].id = j /\ Live(r)
                        \/ \E g \in Requests : req'[g].id = j /\ req'[g].pc = "enqueue"
      BY <1>1, <2>7 DEF WorkedOn, OnTask
    <3>1. j # i /\ Open(j)
      BY <2>3, <2>5 DEF Open, w
    <3>2. \/ \E r \in Runs : run[r].id = j /\ Live(r)
          \/ \E g \in Requests : req[g].id = j /\ req[g].pc = "enqueue"
      BY <1>1, <3>1 DEF WorkedOn, OnTask
    <3> QED BY <1>1, <2>4, <3>2
  <2>36. Billed'
    <3>0. \A j \in Ids : row'[j].usage = row[j].usage /\ (row[j].status \notin {"done", "failed"} => row'[j].status \notin {"done", "failed"})
      BY <2>3, <2>5 DEF w
    <3>1. ASSUME NEW r \in Runs, Exists(r)', Spared(run[r].id, {"fault", "crash", "reset"})'
          PROVE  row'[run'[r].id].usage = Paid(run'[r]) \/ Cut(r)'
      <4>1. Exists(r) /\ run[r].id \in Ids /\ run'[r] = run[r] /\ Spared(run[r].id, {"fault", "crash", "reset"})
        BY <1>1, <2>7, <3>1 DEF Kinds, RunOK, Exists, Spared
      <4> QED BY <3>0, <4>1 DEF Billed, Cut
    <3>2. Calm' => \A g \in Requests : req'[g].pc = "enqueue" => row'[req'[g].id].usage = 0
      BY <2>6, <2>7, <3>0 DEF Billed, Kinds, RequestOK
    <3>3. \A r \in Runs : Exists(r)' /\ Spared(run[r].id, {"fault", "crash", "reset"})'
                           => row'[run'[r].id].usage = Paid(run'[r]) \/ Cut(r)'
      BY <3>1
    <3> QED BY <1>1, <3>2, <3>3 DEF Billed
  <2> QED BY <2>20, <2>21, <2>22, <2>23, <2>24, <2>25, <2>26, <2>27, <2>28, <2>29, <2>32, <2>33, <2>34, <2>35, <2>36
<1> QED BY <1>5, <1>6

-----------------------------------------------------------------------------
(* A reset that clears the tables, a crash, a start *)

\* After a reset that has told everybody little is left to hold.
LEMMA StormKeeps ==
  ASSUME Kinds', EndsPrepared', life' = "up",
         \A i \in Ids : <<i, "reset">> \in hurt',
         \A j \in Ids : tasks'[j] # NoRun => run'[tasks'[j]].pc # "free" /\ run'[tasks'[j]].id = j
  PROVE  IInv'
<1>1. ~Calm'
  <2>1. 1 \in Ids
    OBVIOUS
  <2> QED BY <2>1 DEF Calm
<1>2. \A j \in Ids : ~Undisturbed(j)' /\ ~Spared(j, {"fault", "reset"})' /\ ~Spared(j, {"fault", "crash", "reset"})'
  BY DEF Undisturbed, Spared
<1>3. DownIsIdle' /\ ResetMarks' /\ Registered'
  BY <1>1 DEF DownIsIdle, ResetMarks, Registered, Exists
<1>4. StopsCancelled' /\ StopsAwaited' /\ WaitsForRun'
  BY <1>1 DEF StopsCancelled, StopsAwaited, WaitsForRun
<1>5. CancelsAlone' /\ EndedIsIdle' /\ CancelsPending' /\ WorkedOn'
  BY <1>2 DEF CancelsAlone, EndedIsIdle, CancelsPending, WorkedOn
<1>6. Billed'
  <2>1. \A r \in Runs : Exists(r)' => ~Spared(run[r].id, {"fault", "crash", "reset"})'
    <3> SUFFICES ASSUME NEW r \in Runs, Exists(r)'
                 PROVE  ~Spared(run[r].id, {"fault", "crash", "reset"})'
      OBVIOUS
    <3>1. run'[r].id \in Ids
      BY DEF Kinds, RunOK, Exists
    <3> QED BY <3>1 DEF Spared
  <2> QED BY <1>1, <2>1 DEF Billed
<1> QED BY <1>1, <1>3, <1>4, <1>5, <1>6 DEF IInv

LEMMA ClearKeeps ==
  ASSUME IInv, life = "up", NEW h \in Resetters, ClearAll(h), UNCHANGED <<life, row, run>>
  PROVE  IInv'
<1> USE DEF IInv
<1>1. h \in Requests /\ "drop" \in RequestPlaces
  BY DEF Requests, RequestPlaces
<1>2. /\ req' = [req EXCEPT ![h] = req'[h]] /\ req'[h].pc = "drop" /\ RequestOK(h, req'[h])
      /\ \A g \in Requests \ {h} : req'[g] = req[g]
  BY <1>1, AnswerKind DEF ClearAll, RequestOK, Kinds
<1>3. tasks' = [i \in Ids |-> NoRun] /\ cancelled' = {} /\ hurt' = hurt \cup Ids \X {"reset"}
  BY DEF ClearAll
<1>4. Kinds'
  <2>1. req' \in [Requests -> RequestRecords] /\ \A g \in Requests : RequestOK(g, req'[g])
    BY <1>2 DEF Kinds, RequestOK
  <2> QED BY <1>3, <2>1 DEF Kinds, TablesOK
<1>5. EndsPrepared'
  BY <1>1, <1>2 DEF EndsPrepared
<1> QED BY <1>3, <1>4, <1>5, StormKeeps

LEMMA ResetDropKeeps ==
  ASSUME IInv, life = "up", NEW h \in Requests, ResetDrop(h), UNCHANGED env
  PROVE  IInv'
<1> USE DEF IInv
<1>1. req[h].pc = "drop" /\ UNCHANGED <<life, cancelled, tasks, run, hurt>> /\ row' = [i \in Ids |-> NoRow]
  BY DEF ResetDrop, env
<1>2. "answered" \in RequestPlaces
  BY DEF RequestPlaces, Settled
<1>3. /\ req' = [req EXCEPT ![h] = req'[h]] /\ req'[h].pc = "answered" /\ RequestOK(h, req'[h])
      /\ \A g \in Requests \ {h} : req'[g] = req[g]
  BY <1>1, <1>2, AnswerKind DEF ResetDrop, RequestOK, Kinds
<1>4. Kinds'
  <2>1. req' \in [Requests -> RequestRecords] /\ \A g \in Requests : RequestOK(g, req'[g])
    BY <1>3 DEF Kinds, RequestOK
  <2> QED BY <1>1, <2>1, NoRowKind DEF Kinds, TablesOK
<1>5. EndsPrepared'
  BY <1>1, <1>3 DEF EndsPrepared
<1>6. \A i \in Ids : <<i, "reset">> \in hurt'
  BY <1>1 DEF ResetMarks, Calm
<1>7. \A j \in Ids : tasks'[j] # NoRun => run'[tasks'[j]].pc # "free" /\ run'[tasks'[j]].id = j
  BY <1>1 DEF Registered, Exists
<1> QED BY <1>1, <1>4, <1>5, <1>6, <1>7, StormKeeps

LEMMA CrashKeeps ==
  ASSUME IInv, Crash
  PROVE  IInv'
<1> USE DEF IInv
<1>1. /\ life = "up" /\ life' = "down" /\ cancelled' = {} /\ tasks' = [i \in Ids |-> NoRun] /\ UNCHANGED row
      /\ hurt' = hurt \cup {i \in Ids : Open(i)} \X {"crash"}
  BY DEF Crash
<1>2. ASSUME NEW r \in Runs
      PROVE  /\ run'[r] \in RunRecords /\ RunOK(run'[r]) /\ (Exists(r)' <=> Exists(r)) /\ ~Live(r)'
             /\ run'[r].pc \notin {"commit", "fail"} /\ ~Told(run'[r])
             /\ Exists(r) => run'[r].id = run[r].id /\ run'[r].pc = "ended" /\ Paid(run'[r]) = run[r].calls
  <2>1. FreeRun \in RunRecords /\ RunOK(FreeRun)
    BY NoRowKind DEF RunRecords, FreeRun, RunPlaces, RunOK
  <2>2. CASE run[r].pc = "free"
    <3>1. run'[r] = FreeRun
      BY <2>2 DEF Crash
    <3> QED BY <2>1, <2>2, <3>1 DEF Exists, Live, Told, FreeRun
  <2>3. CASE run[r].pc # "free"
    <3> DEFINE m == [FreeRun EXCEPT !.pc = "ended", !.id = run[r].id, !.calls = run[r].calls]
    <3>1. run'[r] = m
      BY <2>3 DEF Crash
    <3>2. run[r].id \in Ids /\ run[r].calls \in Nat
      BY <2>3 DEF Kinds, RunOK, RunRecords
    <3>3. m.pc = "ended" /\ m.id = run[r].id /\ m.calls = run[r].calls /\ ~m.stop /\ m.tick = "off"
      BY DEF FreeRun
    <3>4. m \in RunRecords
      BY <3>2, NoRowKind DEF RunRecords, FreeRun, RunPlaces
    <3> HIDE DEF m
    <3> QED BY <2>3, <3>1, <3>2, <3>3, <3>4 DEF Exists, Live, Told, Paid, RunOK
  <2> QED BY <2>2, <2>3
<1>3. ASSUME NEW g \in Requests
      PROVE  /\ req'[g] \in RequestRecords /\ RequestOK(g, req'[g]) /\ req'[g].pc \in Settled
             /\ req'[g] = req[g] \/ req'[g].pc = "dead"
  <2>1. CASE req[g].pc \in Settled
    <3>1. req'[g] = req[g]
      BY <2>1 DEF Crash
    <3> QED BY <2>1, <3>1 DEF Kinds
  <2>2. CASE req[g].pc \notin Settled
    <3> DEFINE n == [NewRequest EXCEPT !.pc = "dead"]
    <3>1. req'[g] = n
      BY <2>2 DEF Crash
    <3>2. n.pc = "dead"
      BY DEF NewRequest
    <3>3. n \in RequestRecords
      BY NoRowKind DEF NewRequest, RequestRecords, RequestPlaces, Settled
    <3> HIDE DEF n
    <3> QED BY <3>1, <3>2, <3>3 DEF RequestOK, Settled
  <2> QED BY <2>1, <2>2
<1>4. /\ \A j, what : what # "crash" => (<<j, what>> \in hurt' <=> <<j, what>> \in hurt)
      /\ \A j, what : <<j, what>> \in hurt => <<j, what>> \in hurt'
      /\ \A j \in Ids : Open(j) => <<j, "crash">> \in hurt'
  BY <1>1
<1>5. (Calm' <=> Calm) /\ \A j : Undisturbed(j)' <=> Undisturbed(j)
  BY <1>4 DEF Calm, Undisturbed, Spared
<1>6. \A g \in Requests : req'[g].pc \notin {"enqueue", "waiting", "recheck", "mark", "drop"}
  BY <1>3 DEF Settled
<1>10. Kinds'
  <2>1. run' \in [Runs -> RunRecords] /\ \A r \in Runs : RunOK(run'[r])
    BY <1>2 DEF Crash
  <2>2. req' \in [Requests -> RequestRecords] /\ \A g \in Requests : RequestOK(g, req'[g])
    BY <1>3 DEF Crash
  <2> QED BY <1>1, <2>1, <2>2 DEF Kinds, TablesOK
<1>11. DownIsIdle' /\ EndsPrepared'
  BY <1>2, <1>3, <1>6 DEF DownIsIdle, EndsPrepared
<1>12. ResetMarks'
  BY <1>4, <1>6 DEF ResetMarks
<1>13. Registered'
  BY <1>1, <1>2 DEF Registered
<1>14. Calm' => OneOwner'
  <2> SUFFICES ASSUME Calm PROVE OneOwner'
    BY <1>5
  <2>1. \A r, p \in Runs : Exists(r)' /\ Exists(p)' /\ run'[r].id = run'[p].id => r = p
    BY <1>2 DEF OneOwner
  <2>2. \A r \in Runs : Exists(r)' => row'[run'[r].id] # NoRow
    BY <1>1, <1>2 DEF OneOwner
  <2> QED BY <1>1, <1>6, <2>1, <2>2 DEF OneOwner, OnTask
<1>15. EndsByRun' /\ StopsCancelled' /\ StopsAwaited' /\ WaitsForRun'
  BY <1>2, <1>6 DEF EndsByRun, StopsCancelled, StopsAwaited, WaitsForRun, Requests
<1>16. CancelsAlone'
  <2> SUFFICES ASSUME NEW g \in Cancellers, NEW j \in Ids, Undisturbed(j), OnTask(g, j, {"cancelled"})'
               PROVE  row[j].status = "cancelled"
    BY <1>1, <1>5, <1>6 DEF CancelsAlone, OnTask, Requests
  <2>1. req'[g] = req[g]
    BY <1>3 DEF OnTask, Requests
  <2> QED BY <2>1 DEF CancelsAlone, OnTask
<1>17. EndedIsIdle' /\ CancelsPending' /\ WorkedOn'
  BY <1>1, <1>2, <1>6 DEF EndedIsIdle, CancelsPending, WorkedOn, OnTask
<1>18. Billed'
  <2>1. ASSUME NEW r \in Runs, Exists(r)', Spared(run[r].id, {"fault", "crash", "reset"})'
        PROVE  row'[run'[r].id].usage = Paid(run'[r]) \/ Cut(r)'
    <3>1. /\ Exists(r) /\ run'[r].id = run[r].id /\ run[r].id \in Ids
          /\ Spared(run[r].id, {"fault", "crash", "reset"}) /\ ~Open(run[r].id)
      BY <1>2, <1>4, <2>1 DEF Kinds, RunOK, Exists, Spared
    <3>2. Calm
      BY <3>1, CalmIf DEF Spared
    <3>3. CASE Live(r)
      BY <1>1, <1>2, <3>1, <3>2, <3>3 DEF EndsByRun, Cut
    <3>4. CASE run[r].pc = "ended"
      <4>1. run[r].calls \in Nat
        BY DEF Kinds, RunRecords
      <4>2. Paid(run[r]) = run[r].calls
        BY <3>4, <4>1 DEF Paid
      <4>3. row[run[r].id].usage = Paid(run[r]) \/ row[run[r].id].status \notin {"done", "failed"}
        BY <3>1, <3>4 DEF Billed, Cut
      <4> QED BY <1>1, <1>2, <3>1, <4>2, <4>3 DEF Cut
    <3> QED BY <3>1, <3>3, <3>4 DEF Live, Exists
  <2>2. \A r \in Runs : Exists(r)' /\ Spared(run[r].id, {"fault", "crash", "reset"})'
                         => row'[run'[r].id].usage = Paid(run'[r]) \/ Cut(r)'
    BY <2>1
  <2>3. \A r \in Runs : Exists(r)' /\ Open(run[r].id)' => <<run'[r].id, "crash">> \in hurt'
    <3> SUFFICES ASSUME NEW r \in Runs, Exists(r)', Open(run[r].id)'
                 PROVE  <<run'[r].id, "crash">> \in hurt'
      OBVIOUS
    <3>1. Open(run'[r].id) /\ run'[r].id \in Ids
      BY <1>1, <1>2 DEF Open, RunOK, Exists
    <3> QED BY <1>4, <3>1
  <2> QED BY <1>6, <2>2, <2>3 DEF Billed
<1> QED BY <1>10, <1>11, <1>12, <1>13, <1>14, <1>15, <1>16, <1>17, <1>18

LEMMA StartKeeps ==
  ASSUME IInv, Start
  PROVE  IInv'
<1> USE DEF IInv
<1>1. /\ life = "down" /\ life' = "up" /\ UNCHANGED <<cancelled, tasks, run, req, hurt>>
      /\ row' = [i \in Ids |-> IF Open(i) THEN [row[i] EXCEPT !.status = "failed"] ELSE row[i]]
  BY DEF Start
<1>2. ASSUME NEW j \in Ids
      PROVE  /\ row'[j] \in Rows /\ (row'[j] = NoRow <=> row[j] = NoRow) /\ (row'[j].status = "absent" => row'[j] = NoRow)
             /\ ~Open(j) => row'[j] = row[j]
             /\ row'[j].status \notin {"pending", "running"}
             /\ Open(j) => row'[j].status = "failed"
             /\ row'[j].usage = row[j].usage
  <2>1. row[j] \in Rows /\ (row[j].status = "absent" => row[j] = NoRow)
    BY DEF Kinds, TablesOK
  <2>2. CASE Open(j)
    <3> DEFINE w == [row[j] EXCEPT !.status = "failed"]
    <3>1. row'[j] = w
      BY <1>1, <2>2
    <3>2. w \in Rows /\ w.status = "failed" /\ w.usage = row[j].usage
      BY <2>1 DEF Rows
    <3> HIDE DEF w
    <3> QED BY <2>1, <2>2, <3>1, <3>2, NoRowKind DEF Open
  <2>3. CASE ~Open(j)
    BY <1>1, <2>1, <2>3 DEF Open
  <2> QED BY <2>2, <2>3
<1>3. \A r \in Runs : ~Live(r) /\ ~Live(r)' /\ (Exists(r)' <=> Exists(r))
  BY <1>1 DEF DownIsIdle, Live, Exists
<1>4. \A g \in Requests : req[g].pc \notin {"enqueue", "waiting", "recheck", "mark", "drop"}
  BY <1>1 DEF DownIsIdle, Settled
<1>5. /\ Calm' <=> Calm
      /\ \A j : Undisturbed(j)' <=> Undisturbed(j)
      /\ \A j, S : Spared(j, S)' <=> Spared(j, S)
  BY <1>1 DEF Calm, Undisturbed, Spared
<1>10. Kinds'
  <2>1. row' \in [Ids -> Rows]
    BY <1>1, <1>2
  <2> QED BY <1>1, <1>2, <2>1 DEF Kinds, TablesOK
<1>11. DownIsIdle' /\ EndsPrepared' /\ ResetMarks'
  BY <1>1, <1>5 DEF DownIsIdle, EndsPrepared, ResetMarks
<1>12. Registered'
  BY <1>1, <1>3, <1>5 DEF Registered, Exists
<1>13. Calm' => OneOwner'
  <2> SUFFICES ASSUME Calm PROVE OneOwner'
    BY <1>5
  <2>1. \A r, p \in Runs : Exists(r)' /\ Exists(p)' /\ run'[r].id = run'[p].id => r = p
    BY <1>1, <1>3 DEF OneOwner
  <2>2. \A r \in Runs : Exists(r)' => row'[run'[r].id] # NoRow
    BY <1>1, <1>2, <1>3 DEF OneOwner, Kinds, RunOK, Exists
  <2>3. \A j \in cancelled' : row'[j] # NoRow
    BY <1>1, <1>2 DEF OneOwner, Kinds
  <2> QED BY <1>1, <1>4, <2>1, <2>2, <2>3 DEF OneOwner, OnTask
<1>14. EndsByRun' /\ StopsCancelled' /\ StopsAwaited' /\ WaitsForRun'
  BY <1>1, <1>3, <1>4, <1>5 DEF EndsByRun, StopsCancelled, StopsAwaited, WaitsForRun, Requests
<1>15. CancelsAlone'
  <2> SUFFICES ASSUME NEW g \in Cancellers, NEW j \in Ids, Undisturbed(j), OnTask(g, j, {"cancelled"})
               PROVE  row'[j].status = "cancelled"
    BY <1>1, <1>4, <1>5 DEF CancelsAlone, OnTask, Requests
  <2>1. row[j].status = "cancelled"
    BY DEF CancelsAlone
  <2> QED BY <1>2, <2>1 DEF Open
<1>16. EndedIsIdle'
  BY <1>1, <1>3, <1>4 DEF EndedIsIdle, OnTask
<1>17. CancelsPending' /\ WorkedOn'
  BY <1>1, <1>2 DEF CancelsPending, WorkedOn, Open
<1>18. Billed'
  <2>1. ASSUME NEW r \in Runs, Exists(r)', Spared(run[r].id, {"fault", "crash", "reset"})'
        PROVE  row'[run'[r].id].usage = Paid(run'[r]) \/ Cut(r)'
    <3>1. /\ Exists(r) /\ run'[r] = run[r] /\ run[r].id \in Ids /\ Spared(run[r].id, {"fault", "crash", "reset"})
      BY <1>1, <1>3, <1>5, <2>1 DEF Kinds, RunOK, Exists, Spared
    <3>2. ~Open(run[r].id)
      BY <1>1, <3>1 DEF Billed, Spared
    <3>3. row'[run[r].id] = row[run[r].id]
      BY <1>2, <3>1, <3>2
    <3> QED BY <3>1, <3>3 DEF Billed, Cut
  <2>2. \A r \in Runs : Exists(r)' /\ Spared(run[r].id, {"fault", "crash", "reset"})'
                         => row'[run'[r].id].usage = Paid(run'[r]) \/ Cut(r)'
    BY <2>1
  <2> QED BY <1>1, <1>4, <2>2 DEF Billed
<1> QED BY <1>10, <1>11, <1>12, <1>13, <1>14, <1>15, <1>16, <1>17, <1>18

-----------------------------------------------------------------------------
(* The theorems *)

LEMMA InitHolds == Init => IInv
<1> SUFFICES ASSUME Init PROVE IInv
  OBVIOUS
<1> USE DEF Init
<1>1. FreeRun \in RunRecords /\ RunOK(FreeRun) /\ FreeRun.pc = "free" /\ ~Told(FreeRun)
  BY NoRowKind DEF RunRecords, FreeRun, RunPlaces, RunOK, Told
<1>2. NewRequest \in RequestRecords /\ NewRequest.pc = "idle" /\ NewRequest.id = NoId
  BY NoRowKind DEF NewRequest, RequestRecords, RequestPlaces, Settled
<1>3. \A r \in Runs : run[r] = FreeRun
  OBVIOUS
<1>4. \A h \in Requests : req[h] = NewRequest
  OBVIOUS
<1>5. TablesOK
  <2>1. PICK n \in 0 .. MaxIds - Cardinality(Creators \cup Copiers) : \E old \in [1 .. n -> OldStatuses] :
          row = [i \in Ids |-> IF i <= n THEN OldRow(old[i]) ELSE NoRow]
    OBVIOUS
  <2>2. PICK old \in [1 .. n -> OldStatuses] : row = [i \in Ids |-> IF i <= n THEN OldRow(old[i]) ELSE NoRow]
    BY <2>1
  <2>3. n \in Nat
    BY <2>1, RequestsAssumption, FS_CardinalityType
  <2>4. ASSUME NEW i \in Ids, i <= n
        PROVE  OldRow(old[i]) \in Rows /\ OldRow(old[i]).status # "absent"
    <3>1. old[i] \in OldStatuses
      BY <2>3, <2>4
    <3>2. old[i] \in Statuses \ {"absent"}
      BY <3>1
    <3> QED BY <3>2 DEF OldRow, NoRow, Rows
  <2>5. \A i \in Ids : row[i] \in Rows /\ (row[i].status = "absent" => row[i] = NoRow)
    BY <2>2, <2>4, NoRowKind
  <2>6. row = [i \in Ids |-> row[i]]
    BY <2>2
  <2> QED BY <2>5, <2>6 DEF TablesOK
<1>6. Kinds
  BY <1>1, <1>2, <1>5 DEF Kinds, RequestOK
<1>7. \A r \in Runs : ~Exists(r) /\ ~Live(r)
  BY <1>1, <1>3 DEF Exists, Live
<1>8. \A h \in Requests, i \in Ids : ~OnTask(h, i, {"enqueue", "waiting", "recheck", "mark", "cancelled"})
  BY <1>2, <1>4 DEF OnTask
<1>9. DownIsIdle /\ ResetMarks /\ Registered /\ EndsPrepared
  BY <1>1, <1>2, <1>3, <1>4, <1>7 DEF DownIsIdle, ResetMarks, Registered, EndsPrepared, Settled
<1>10. OneOwner /\ EndsByRun
  BY <1>2, <1>4, <1>7, <1>8 DEF OneOwner, EndsByRun, OnTask
<1>11. StopsCancelled /\ StopsAwaited /\ WaitsForRun
  BY <1>1, <1>2, <1>3, <1>4, <1>7 DEF StopsCancelled, StopsAwaited, WaitsForRun, Requests
<1>12. CancelsAlone /\ EndedIsIdle /\ CancelsPending /\ WorkedOn
  BY <1>7, <1>8 DEF CancelsAlone, EndedIsIdle, CancelsPending, WorkedOn, OnTask, Requests
<1>13. Billed
  BY <1>2, <1>4, <1>7 DEF Billed
<1> QED BY <1>6, <1>9, <1>10, <1>11, <1>12, <1>13 DEF IInv

LEMMA RunStepKeeps ==
  ASSUME IInv, NEW r \in Runs, RunStep(r) \/ TickStep(r)
  PROVE  IInv'
BY AllRunMoves, RunKeeps DEF IInv

LEMMA ArriveKeeps ==
  ASSUME IInv, NEW h \in Requests, Arrive(h)
  PROVE  IInv'
<1>1. life = "up" /\ UNCHANGED env /\ Kinds
  BY DEF Arrive, IInv
<1>2. CASE h \in Creators /\ \E i \in Ids : Insert(h, i)
  BY <1>1, <1>2, InsertKeeps
<1>3. CASE h \in Copiers /\ \E i \in Ids : CopyLoad(h, i)
  BY <1>1, <1>3, CopyLoadAsks, AskKeeps
<1>4. CASE h \in Cancellers /\ \E i \in Ids : CancelLoad(h, i)
  <2>1. PICK i \in Ids : CancelLoad(h, i)
    BY <1>4
  <2>2. CASE Open(i)
    BY <1>1, <1>4, <2>1, <2>2, CancelStops, StopKeeps
  <2>3. CASE ~Open(i)
    <3>1. AskMoves(h)
      BY <1>1, <1>4, <2>1, <2>3, CancelAsks
    <3> QED BY <3>1, AskKeeps
  <2> QED BY <2>2, <2>3
<1>5. CASE h \in Resetters /\ ResetBegin(h)
  <2>1. CASE \E i \in Ids : tasks[i] # NoRun
    BY <1>1, <1>5, <2>1, ResetStops, StopKeeps
  <2>2. CASE ~\E i \in Ids : tasks[i] # NoRun
    <3>1. ClearAll(h) /\ UNCHANGED <<run, row>>
      BY <1>5, <2>2 DEF ResetBegin
    <3> QED BY <1>1, <1>5, <3>1, ClearKeeps DEF env
  <2> QED BY <2>1, <2>2
<1> QED BY <1>2, <1>3, <1>4, <1>5 DEF Arrive

LEMMA HandlerStepKeeps ==
  ASSUME IInv, NEW h \in Requests, HandlerStep(h)
  PROVE  IInv'
<1>1. life = "up" /\ UNCHANGED env /\ Kinds
  BY DEF HandlerStep, IInv
<1>2. CASE \E i \in Ids : Insert(h, i)
  BY <1>1, <1>2, InsertKeeps
<1>3. CASE Enqueue(h)
  <2>1. CASE row[req[h].id] = NoRow
    <3>1. /\ Answer(h, "broken") /\ req[h].pc = "enqueue"
          /\ UNCHANGED <<life, row, cancelled, tasks, run, hurt>>
      BY <1>1, <1>3, <2>1 DEF Enqueue, env
    <3>2. AskMoves(h)
      BY <1>1, <2>1, <3>1, BreakAsks
    <3> QED BY <3>2, AskKeeps
  <2>2. CASE row[req[h].id] # NoRow
    BY <1>1, <1>3, <2>2, EnqueueKeeps
  <2> QED BY <2>1, <2>2
<1>4. CASE CancelReturns(h) \/ CancelRecheck(h)
  <2>1. AskMoves(h)
    BY <1>1, <1>4, CancelAsks
  <2> QED BY <2>1, AskKeeps
<1>5. CASE CancelCommit(h)
  BY <1>1, <1>5, CancelCommitKeeps
<1>6. CASE ResetReturns(h)
  BY <1>1, <1>6, ClearKeeps DEF ResetReturns, env
<1>7. CASE ResetDrop(h)
  BY <1>1, <1>7, ResetDropKeeps
<1> QED BY <1>2, <1>3, <1>4, <1>5, <1>6, <1>7 DEF HandlerStep

LEMMA FaultKeeps ==
  ASSUME IInv, Fault
  PROVE  IInv'
<1>1. life = "up" /\ UNCHANGED <<life, row, cancelled>> /\ Kinds /\ EndsPrepared
  BY DEF Fault, IInv
<1>2. CASE \E r \in Runs : (RunFault(r) \/ TickFault(r)) /\ UNCHANGED req
  <2>1. PICK r \in Runs : (RunFault(r) \/ TickFault(r)) /\ UNCHANGED req
    BY <1>2
  <2>2. RunMoves(r)
    BY <1>1, <2>1, AllRunMoves
  <2> QED BY <2>2, RunKeeps
<1>3. CASE \E s \in Streams : StreamFault(s) /\ UNCHANGED req
  <2>1. PICK s \in Streams : StreamFault(s) /\ UNCHANGED req
    BY <1>3
  <2>2. UNCHANGED <<tasks, run, req>> /\ HurtBy(stream[s].id)
    BY <2>1 DEF StreamFault, HurtBy
  <2> QED BY <1>1, <2>2, QuietKeeps
<1>4. CASE \E h \in Requests : HandlerFault(h)
  <2>1. PICK h \in Requests : HandlerFault(h)
    BY <1>4
  <2>2. /\ Answer(h, "broken") /\ req[h].pc \in {"enqueue", "recheck", "mark"}
        /\ hurt' = hurt \cup {<<req[h].id, "fault">>} /\ UNCHANGED <<tasks, run>>
    BY <2>1 DEF HandlerFault
  <2>3. AskMoves(h)
    BY <1>1, <2>2, BreakAsks
  <2> QED BY <2>3, AskKeeps
<1> QED BY <1>2, <1>3, <1>4 DEF Fault

LEMMA NextKeeps == IInv /\ [Next]_vars => IInv'
<1> SUFFICES ASSUME IInv, [Next]_vars PROVE IInv'
  OBVIOUS
<1>1. CASE \E r \in Runs : RunStep(r) \/ TickStep(r)
  BY <1>1, RunStepKeeps
<1>2. CASE \E h \in Requests : Arrive(h) \/ HandlerStep(h)
  BY <1>2, ArriveKeeps, HandlerStepKeeps
<1>3. CASE Fault
  BY <1>3, FaultKeeps
<1>4. CASE \E s \in Streams : StreamStep(s) \/ StreamClient(s)
  <2>1. UNCHANGED <<life, row, cancelled, tasks, run, req, hurt>>
    BY <1>4 DEF StreamStep, StreamClient, StreamFrame, env
  <2> QED BY <2>1, QuietKeeps, NobodyHurt
<1>5. CASE Crash
  BY <1>5, CrashKeeps
<1>6. CASE Start
  BY <1>6, StartKeeps
<1>7. CASE Quiescent \/ UNCHANGED vars
  <2>1. UNCHANGED <<life, row, cancelled, tasks, run, req, hurt>>
    BY <1>7 DEF Quiescent, vars
  <2> QED BY <2>1, QuietKeeps, NobodyHurt
<1> QED BY <1>1, <1>2, <1>3, <1>4, <1>5, <1>6, <1>7 DEF Next

\* The inductive invariant holds in every state.
THEOREM Invariance == Spec => []IInv
BY InitHolds, NextKeeps, PTL DEF Spec

\* An unfinished task has a run that no cancel told to stop, or a request that
\* will see to it, or a start ahead (_enqueue_task, _run_task, cancel_task).
THEOREM TasksNotAbandoned == Spec => []NotAbandoned
<1>1. IInv => NotAbandoned
  <2> SUFFICES ASSUME IInv, NEW i \in Ids, Open(i), Spared(i, {"fault", "reset"}), life # "down"
               PROVE  \/ \E r \in Runs : run[r].id = i /\ Live(r) /\ i \notin cancelled
                      \/ \E h \in Requests : req[h].id = i /\ req[h].pc \in {"enqueue", "waiting", "recheck", "mark"}
                      \/ \E h \in Resetters : req[h].pc \in {"waiting", "drop"}
    BY DEF NotAbandoned
  <2>1. CASE i \in cancelled
    BY <2>1 DEF IInv, CancelsPending, OnTask
  <2>2. CASE i \notin cancelled
    BY <2>2 DEF IInv, WorkedOn, OnTask
  <2> QED BY <2>1, <2>2
<1> QED BY <1>1, Invariance, PTL

\* A cancel that answered "cancelled" left the row so, and neither the coroutine
\* nor its ticker is alive (cancel_task, the finally block of the pipeline).
THEOREM CancelsHonoured == Spec => []CancelHonoured
<1>1. IInv => CancelHonoured
  <2> SUFFICES ASSUME IInv, NEW h \in Cancellers,
                      req[h].pc = "cancelled", Spared(req[h].id, {"early cancel", "reset"})
               PROVE  /\ row[req[h].id].status = "cancelled"
                      /\ \A r \in Runs : run[r].id = req[h].id =>
                           ~Live(r) /\ run[r].tick \notin {"sleep", "read", "write"}
    BY DEF CancelHonoured
  <2>1. req[h].id \in Ids
    BY DEF IInv, Kinds, RequestOK, Requests
  <2>2. row[req[h].id].status = "cancelled"
    BY <2>1 DEF IInv, CancelsAlone, Undisturbed, OnTask
  <2>3. \A r \in Runs : run[r].id = req[h].id => ~Live(r)
    BY <2>1, <2>2 DEF IInv, EndedIsIdle, Undisturbed, Finished
  <2>4. \A r \in Runs : ~Live(r) => run[r].tick = "off"
    BY DEF IInv, Kinds, RunOK, Live
  <2> QED BY <2>2, <2>3, <2>4
<1> QED BY <1>1, Invariance, PTL

\* A done or failed task is charged for every answer of the model
\* (record_usage, record_review_usage).
THEOREM AnswersBilled == Spec => []EveryAnswerBilled
<1>1. IInv => EveryAnswerBilled
  <2> SUFFICES ASSUME IInv, NEW r \in Runs, run[r].pc = "ended", row[run[r].id].status \in {"done", "failed"},
                      Spared(run[r].id, {"fault", "crash", "reset"})
               PROVE  row[run[r].id].usage = run[r].calls
    BY DEF EveryAnswerBilled
  <2>1. Paid(run[r]) = run[r].calls
    BY DEF IInv, Kinds, RunRecords, Paid
  <2> QED BY <2>1 DEF IInv, Billed, Exists, Cut
<1> QED BY <1>1, Invariance, PTL

\* The status of a task that has ended does not change until a reset, unless a
\* cancel overtook the create.
LEMMA EndStays ==
  ASSUME IInv, [Next]_vars, NEW i \in Ids, Finished(i), Undisturbed(i)
  PROVE  row'[i].status = row[i].status
<1>1. Kinds /\ TablesOK /\ CancelsAlone /\ EndedIsIdle /\ EndsPrepared /\ ResetMarks
  BY DEF IInv, Kinds
<1>2. ASSUME NEW r \in Runs, RunMoves(r)
      PROVE  row'[i].status = row[i].status
  <2>1. run[r].id # i
    BY <1>1, <1>2 DEF EndedIsIdle, RunMoves
  <2>2. row' = [row EXCEPT ![run[r].id] = row'[run[r].id]]
    BY <1>2 DEF RunMoves
  <2> QED BY <1>1, <2>1, <2>2 DEF TablesOK
<1>3. ASSUME NEW h \in Requests, NEW j \in Ids, Insert(h, j)
      PROVE  row'[i].status = row[i].status
  <2>1. row[j] = NoRow /\ row' = [row EXCEPT ![j] = NewRow(req[h].parent)]
    BY <1>3 DEF Insert, NextId
  <2>2. i # j
    BY <2>1, NoRowKind DEF Finished
  <2> QED BY <1>1, <2>1, <2>2 DEF TablesOK
<1>4. ASSUME NEW h \in Requests, CancelCommit(h)
      PROVE  row'[i].status = row[i].status
  <2> DEFINE j == req[h].id  b == req[h].seen  new == [b EXCEPT !.status = "cancelled"]
  <2>1. h \in Cancellers /\ j \in Ids /\ OnTask(h, j, {"mark"})
    <3>1. req[h].pc = "mark" /\ RequestOK(h, req[h])
      BY <1>1, <1>4 DEF CancelCommit, Kinds
    <3> QED BY <3>1 DEF RequestOK, OnTask
  <2>2. row' = row \/ row' = [row EXCEPT ![j] = OrmUpdate(row[j], b, new)]
    BY <1>4 DEF CancelCommit
  <2>3. CASE i = j /\ row' = [row EXCEPT ![j] = OrmUpdate(row[j], b, new)]
    <3>1. row[i].status = "cancelled"
      BY <1>1, <2>1, <2>3 DEF CancelsAlone, Finished
    <3>2. b \in Rows /\ row[i] \in Rows
      BY <1>1, <1>4 DEF Kinds, RequestRecords, TablesOK
    <3>3. new \in Rows /\ new.status = "cancelled"
      BY <3>2 DEF Rows
    <3>4. row'[i] = OrmUpdate(row[i], b, new) /\ row[i] # NoRow
      BY <1>1, <2>3, <3>1, NoRowKind DEF TablesOK
    <3> HIDE DEF new, b, j
    <3> QED BY <3>1, <3>2, <3>3, <3>4, FlushKind, NoRowKind
  <2>4. CASE i # j /\ row' = [row EXCEPT ![j] = OrmUpdate(row[j], b, new)]
    <3> HIDE DEF new, b, j
    <3> QED BY <1>1, <2>1, <2>4 DEF TablesOK
  <2> QED BY <2>2, <2>3, <2>4
<1>5. CASE \E r \in Runs : RunStep(r) \/ TickStep(r)
  BY <1>1, <1>2, <1>5, AllRunMoves
<1>6. CASE \E h \in Requests : Arrive(h)
  <2>1. PICK h \in Requests : Arrive(h)
    BY <1>6
  <2>2. row' = row \/ \E j \in Ids : Insert(h, j)
    BY <2>1 DEF Arrive, CopyLoad, CancelLoad, ResetBegin
  <2> QED BY <1>3, <2>2
<1>7. CASE \E h \in Requests : HandlerStep(h)
  <2>1. PICK h \in Requests : HandlerStep(h)
    BY <1>7
  <2>2. CASE (\E j \in Ids : Insert(h, j)) \/ CancelCommit(h)
    BY <1>3, <1>4, <2>2
  <2>3. CASE Enqueue(h) \/ CancelReturns(h) \/ CancelRecheck(h) \/ ResetReturns(h)
    BY <2>3 DEF Enqueue, CancelReturns, CancelRecheck, ResetReturns
  <2>4. ~ResetDrop(h)
    BY <1>1, CalmIf DEF ResetDrop, ResetMarks, Undisturbed, Spared
  <2> QED BY <2>1, <2>2, <2>3, <2>4 DEF HandlerStep
<1>8. CASE Start
  BY <1>8 DEF Start, Finished, Open
<1>9. CASE UNCHANGED vars \/ Fault \/ (\E s \in Streams : StreamStep(s) \/ StreamClient(s)) \/ Crash \/ Quiescent
  BY <1>9 DEF Fault, StreamStep, StreamClient, StreamFrame, Crash, Quiescent, vars
<1> QED BY <1>5, <1>6, <1>7, <1>8, <1>9 DEF Next

\* No late write of a run, its ticker or a cancel (_progress, the commits of
\* _run_task, cancel_task) replaces the end of a task before its row goes.
THEOREM EndsFinal ==
  Spec => [][\A i \in Ids : Finished(i) /\ row'[i] # NoRow /\ Undisturbed(i)
               => row'[i].status = row[i].status]_vars
<1>1. IInv /\ [Next]_vars =>
        [\A i \in Ids : Finished(i) /\ row'[i] # NoRow /\ Undisturbed(i)
           => row'[i].status = row[i].status]_vars
  BY EndStays
<1> QED BY <1>1, Invariance, PTL DEF Spec

-----------------------------------------------------------------------------
(* Event streams.  What a stream has in its queue, or told at its end, is     *)
(* true of the task and stays true: an end that may be told at one time may   *)
(* be told for ever.                                                          *)

Events == Terminal \cup {"progress", "usage"}

StreamRecords ==
  [pc : {"idle", "connected", "reread", "wait", "ended", "dead"}, id : Ids \cup {NoId},
   listed : BOOLEAN, queue : Seq(Events), told : Statuses]

Clean(i) == Spared(i, {"fault", "early cancel", "reset", "crash"})

\* The run of task i has given up before a cancel of the task is recorded.
GaveUp(i) ==
  /\ i \in cancelled /\ row[i].status # "done"
  /\ \E r \in Runs : Exists(r) /\ run[r].id = i /\ ~Live(r)

\* The ends a stream may tell of each task
Truths ==
  [i \in Ids |-> {e \in Terminal : Clean(i) =>
     \/ row[i].status = e
     \/ e = "failed" /\ (row[i].status = "cancelled" \/ GaveUp(i))}]

\* Tasks whose row is there, or was there before a reset
Kept == {i \in Ids : Calm => row[i] # NoRow}

Queued(q) == {q[k] : k \in 1 .. Len(q)}

\* A stream that tells no other ends than the set of truths allows
StreamOK(v, truths, kept) ==
  /\ v \in StreamRecords
  /\ v.pc \in {"connected", "reread", "wait", "ended"} => v.id \in Ids
  /\ v.pc \notin {"reread", "wait"} => v.queue = <<>> /\ ~v.listed
  /\ \A e \in Queued(v.queue) \cap Terminal : e \in truths[v.id]
  /\ v.pc = "ended" => v.told \in truths[v.id]
  /\ v.pc \in {"connected", "reread"} => v.id \in kept

StreamsTrue ==
  /\ stream = [s \in Streams |-> stream[s]]
  /\ \A s \in Streams : StreamOK(stream[s], Truths, Kept)

\* Queues

LEMMA EnqueuedKind ==
  ASSUME NEW q \in Seq(Events), NEW e \in Events
  PROVE  Enqueued(q, e) \in Seq(Events) /\ Queued(Enqueued(q, e)) \subseteq Queued(q) \cup {e}
<1> DEFINE p == IF Len(q) = QueueSize THEN Tail(q) ELSE q
<1>1. p \in Seq(Events) /\ \A k \in 1 .. Len(p) : \E j \in 1 .. Len(q) : p[k] = q[j]
  <2>1. CASE Len(q) = QueueSize
    <3>1. q # <<>> /\ p = Tail(q)
      BY <2>1
    <3>2. p \in Seq(Events) /\ Len(p) = Len(q) - 1 /\ \A k \in 1 .. Len(p) : p[k] = q[k + 1]
      BY <3>1
    <3> HIDE DEF p
    <3>3. ASSUME NEW k \in 1 .. Len(p)
          PROVE  k + 1 \in 1 .. Len(q) /\ p[k] = q[k + 1]
      BY <3>2, <3>3
    <3> QED BY <3>2, <3>3
  <2>2. CASE Len(q) # QueueSize
    BY <2>2
  <2> QED BY <2>1, <2>2
<1>2. Enqueued(q, e) = Append(p, e)
  BY DEF Enqueued
<1> HIDE DEF p
<1>3. /\ Append(p, e) \in Seq(Events) /\ Len(Append(p, e)) = Len(p) + 1
      /\ \A k \in 1 .. Len(p) + 1 : Append(p, e)[k] = IF k \in 1 .. Len(p) THEN p[k] ELSE e
  BY <1>1
<1>4. ASSUME NEW k \in 1 .. Len(p) + 1
      PROVE  Append(p, e)[k] \in Queued(q) \cup {e}
  <2>1. CASE k \in 1 .. Len(p)
    BY <1>1, <1>3, <2>1 DEF Queued
  <2>2. CASE k \notin 1 .. Len(p)
    BY <1>3, <2>2
  <2> QED BY <2>1, <2>2
<1> QED BY <1>2, <1>3, <1>4 DEF Queued

LEMMA DequeuedKind ==
  ASSUME NEW q \in Seq(Events), q # <<>>
  PROVE  Tail(q) \in Seq(Events) /\ Queued(Tail(q)) \subseteq Queued(q) /\ Head(q) \in Queued(q)
<1>1. Tail(q) \in Seq(Events) /\ Len(Tail(q)) = Len(q) - 1 /\ \A k \in 1 .. Len(Tail(q)) : Tail(q)[k] = q[k + 1]
  OBVIOUS
<1>2. ASSUME NEW k \in 1 .. Len(Tail(q))
      PROVE  k + 1 \in 1 .. Len(q) /\ Tail(q)[k] = q[k + 1]
  BY <1>1, <1>2
<1>3. Head(q) = q[1] /\ 1 \in 1 .. Len(q)
  OBVIOUS
<1> QED BY <1>1, <1>2, <1>3 DEF Queued

LEMMA EmptyKind == <<>> \in Seq(Events) /\ Queued(<<>>) = {}
BY DEF Queued

\* A row does not go before a reset has been completed.
LEMMA RowStays ==
  ASSUME IInv, [Next]_vars, Calm, NEW i \in Ids, row[i] # NoRow
  PROVE  row'[i] # NoRow
<1>1. Kinds /\ TablesOK /\ ResetMarks
  BY DEF IInv, Kinds
<1>2. ASSUME NEW r \in Runs, RunMoves(r)
      PROVE  row'[i] # NoRow
  BY <1>1, <1>2 DEF RunMoves, RowMoves, TablesOK
<1>3. ASSUME NEW h \in Requests, NEW j \in Ids, Insert(h, j)
      PROVE  row'[i] # NoRow
  BY <1>1, <1>3 DEF Insert, NextId, TablesOK
<1>4. ASSUME NEW h \in Requests, CancelCommit(h)
      PROVE  row'[i] # NoRow
  <2> DEFINE j == req[h].id  b == req[h].seen  new == [b EXCEPT !.status = "cancelled"]
  <2>1. row' = row \/ row' = [row EXCEPT ![j] = OrmUpdate(row[j], b, new)]
    BY <1>4 DEF CancelCommit
  <2>2. b \in Rows /\ row[i] \in Rows /\ row \in [Ids -> Rows]
    BY <1>1, <1>4 DEF CancelCommit, Kinds, RequestRecords, TablesOK
  <2>3. new \in Rows /\ new.status = "cancelled"
    BY <2>2 DEF Rows
  <2> HIDE DEF new, b, j
  <2>4. CASE i = j /\ row' = [row EXCEPT ![j] = OrmUpdate(row[j], b, new)]
    <3>1. row'[i] = OrmUpdate(row[i], b, new) /\ row[i].status # "absent"
      BY <1>1, <2>2, <2>4 DEF TablesOK
    <3>2. row'[i].status \in {row[i].status, "cancelled"}
      BY <2>2, <2>3, <3>1, FlushKind
    <3> QED BY <3>1, <3>2, NoRowKind
  <2>5. CASE row' = row \/ i # j
    BY <2>1, <2>2, <2>5
  <2> QED BY <2>1, <2>4, <2>5
<1>5. CASE \E r \in Runs : RunStep(r) \/ TickStep(r)
  BY <1>2, <1>5, AllRunMoves DEF IInv
<1>6. CASE \E h \in Requests : Arrive(h)
  <2>1. PICK h \in Requests : Arrive(h)
    BY <1>6
  <2>2. row' = row \/ \E j \in Ids : Insert(h, j)
    BY <2>1 DEF Arrive, CopyLoad, CancelLoad, ResetBegin
  <2> QED BY <1>3, <2>2
<1>7. CASE \E h \in Requests : HandlerStep(h)
  <2>1. PICK h \in Requests : HandlerStep(h)
    BY <1>7
  <2>2. ~ResetDrop(h)
    BY <1>1 DEF ResetDrop, ResetMarks
  <2>3. CASE Enqueue(h) \/ CancelReturns(h) \/ CancelRecheck(h) \/ ResetReturns(h)
    BY <2>3 DEF Enqueue, CancelReturns, CancelRecheck, ResetReturns
  <2> QED BY <1>3, <1>4, <2>1, <2>2, <2>3 DEF HandlerStep
<1>8. CASE Start
  <2>1. row'[i] = row[i] \/ row'[i].status = "failed"
    <3>1. row[i] \in Rows
      BY <1>1 DEF TablesOK
    <3>2. [row[i] EXCEPT !.status = "failed"].status = "failed"
      BY <3>1 DEF Rows
    <3> QED BY <1>8, <3>2 DEF Start
  <2> QED BY <2>1, NoRowKind
<1>9. CASE UNCHANGED vars \/ Fault \/ (\E s \in Streams : StreamStep(s) \/ StreamClient(s)) \/ Crash \/ Quiescent
  BY <1>9 DEF Fault, StreamStep, StreamClient, StreamFrame, Crash, Quiescent, vars
<1> QED BY <1>5, <1>6, <1>7, <1>8, <1>9 DEF Next

\* What may be told may be told for ever

LEMMA HurtGrows == ASSUME IInv, [Next]_vars PROVE hurt \subseteq hurt'
<1>1. ASSUME NEW r \in Runs, RunMoves(r)
      PROVE  hurt \subseteq hurt'
  BY <1>1 DEF RunMoves, HurtBy
<1>2. CASE \E r \in Runs : RunStep(r) \/ TickStep(r)
  BY <1>1, <1>2, AllRunMoves DEF IInv
<1>3. CASE \E h \in Requests : Arrive(h)
  BY <1>3 DEF Arrive, Insert, CopyLoad, CancelLoad, ResetBegin, ClearAll
<1>4. CASE \E h \in Requests : HandlerStep(h)
  BY <1>4 DEF HandlerStep, Insert, Enqueue, CancelReturns, CancelRecheck, CancelCommit, ResetReturns, ClearAll, ResetDrop
<1>5. CASE Fault
  BY <1>5 DEF Fault, RunFault, TickFault, StreamFault, HandlerFault
<1>6. CASE (\E s \in Streams : StreamStep(s) \/ StreamClient(s)) \/ Crash \/ Start \/ Quiescent \/ UNCHANGED vars
  BY <1>6 DEF StreamStep, StreamClient, StreamFrame, Crash, Start, Quiescent, vars
<1> QED BY <1>2, <1>3, <1>4, <1>5, <1>6 DEF Next

\* A task nothing has happened to was calm and clean before.
LEMMA CleanBefore ==
  ASSUME IInv, hurt \subseteq hurt', NEW i \in Ids, Clean(i)'
  PROVE  Clean(i) /\ Calm /\ Undisturbed(i)
<1>1. Clean(i) /\ <<i, "reset">> \notin hurt /\ <<i, "early cancel">> \notin hurt
  BY DEF Clean, Spared
<1> QED BY <1>1, CalmIf DEF IInv, Undisturbed, Spared

\* A cancelled task whose run has ended stays as it is until it is marked.
LEMMA DeadStays ==
  ASSUME IInv, [Next]_vars, NEW i \in Ids, Clean(i)', Open(i), i \in cancelled,
         NEW r \in Runs, Exists(r), run[r].id = i, ~Live(r)
  PROVE  \/ row'[i].status \in {"failed", "cancelled"}
         \/ row'[i] = row[i] /\ i \in cancelled' /\ run'[r].id = i /\ Exists(r)' /\ ~Live(r)'
<1> DEFINE Same == row'[i] = row[i] /\ i \in cancelled' /\ run'[r].id = i /\ Exists(r)' /\ ~Live(r)'
<1>1. /\ Calm /\ Kinds /\ OneOwner /\ EndsPrepared /\ ResetMarks /\ TablesOK
      /\ <<i, "reset">> \notin hurt' /\ <<i, "crash">> \notin hurt'
  BY HurtGrows, CleanBefore DEF IInv, Kinds, Clean, Spared
<1>2. UNCHANGED <<cancelled, run>> /\ row'[i] = row[i] => Same
  BY DEF Exists, Live
<1>3. ASSUME NEW q \in Runs, RunMoves(q)
      PROVE  Same
  <2>1. Live(q) /\ Exists(q) /\ UNCHANGED cancelled
    BY <1>3 DEF RunMoves, Live, Exists
  <2>2. run[q].id # i /\ q # r
    BY <1>1, <2>1 DEF OneOwner
  <2>3. run' = [run EXCEPT ![q] = run'[q]] /\ row' = [row EXCEPT ![run[q].id] = row'[run[q].id]]
    BY <1>3 DEF RunMoves
  <2>4. run'[r] = run[r] /\ row'[i] = row[i]
    BY <1>1, <2>2, <2>3 DEF Kinds, TablesOK
  <2> QED BY <2>1, <2>4 DEF Exists, Live
<1>4. ASSUME NEW h \in Requests, NEW j \in Ids, Insert(h, j)
      PROVE  Same
  <2>1. row[j] = NoRow /\ row' = [row EXCEPT ![j] = NewRow(req[h].parent)] /\ UNCHANGED <<cancelled, run>>
    BY <1>4 DEF Insert, NextId
  <2>2. i # j
    BY <2>1, NoRowKind DEF Open
  <2> QED BY <1>1, <1>2, <2>1, <2>2 DEF TablesOK
<1>5. ASSUME NEW h \in Requests, ClearAll(h)
      PROVE  FALSE
  BY <1>1, <1>5 DEF ClearAll
<1>6. ASSUME NEW rs, run' = Stopped(rs), cancelled \subseteq cancelled', row' = row
      PROVE  Same
  BY <1>6 DEF Stopped, Exists, Live
<1>7. CASE \E h \in Requests : Arrive(h)
  <2>1. PICK h \in Requests : Arrive(h)
    BY <1>7
  <2>2. CASE \E j \in Ids : Insert(h, j)
    BY <1>4, <2>2
  <2>3. CASE \E j \in Ids : CopyLoad(h, j)
    BY <1>2, <2>3 DEF CopyLoad
  <2>4. CASE \E j \in Ids : CancelLoad(h, j)
    <3>1. PICK j \in Ids : CancelLoad(h, j)
      BY <2>4
    <3>2. UNCHANGED <<cancelled, run, row>> \/ (cancelled \subseteq cancelled' /\ run' = Stopped({tasks[j]}) /\ row' = row)
      BY <3>1 DEF CancelLoad
    <3> QED BY <1>2, <1>6, <3>2
  <2>5. CASE ResetBegin(h)
    <3>1. ClearAll(h) \/ \E rs : cancelled \subseteq cancelled' /\ run' = Stopped(rs) /\ row' = row
      BY <2>5 DEF ResetBegin
    <3> QED BY <1>5, <1>6, <3>1
  <2> QED BY <2>1, <2>2, <2>3, <2>4, <2>5 DEF Arrive
<1>8. ASSUME NEW h \in Requests, Enqueue(h)
      PROVE  Same
  <2>1. CASE UNCHANGED <<row, cancelled, run>>
    BY <1>2, <2>1
  <2>2. CASE ~UNCHANGED <<row, cancelled, run>>
    <3>1. PICK q \in Runs, quality \in BOOLEAN :
            /\ NextRun(q) /\ cancelled' = cancelled \ {req[h].id}
            /\ run' = [run EXCEPT ![q] = [FreeRun EXCEPT !.pc = "load", !.id = req[h].id, !.quality = quality]]
      BY <1>8, <2>2 DEF Enqueue
    <3>2. q # r /\ req[h].id # i
      BY <1>1, <1>8, <3>1 DEF NextRun, Exists, OneOwner, Enqueue
    <3>3. run'[r] = run[r] /\ i \in cancelled' /\ row' = row
      BY <1>1, <1>8, <3>1, <3>2 DEF Kinds, Enqueue
    <3> QED BY <3>3 DEF Exists, Live
  <2> QED BY <2>1, <2>2
<1>9. ASSUME NEW h \in Requests, CancelCommit(h)
      PROVE  Same \/ row'[i].status = "cancelled"
  <2> DEFINE j == req[h].id  b == req[h].seen  new == [b EXCEPT !.status = "cancelled"]
  <2>1. UNCHANGED <<cancelled, run>> /\ (row' = row \/ row' = [row EXCEPT ![j] = OrmUpdate(row[j], b, new)])
    BY <1>9 DEF CancelCommit
  <2>2. b \in Rows /\ b.status \notin Terminal /\ row[i] \in Rows /\ row \in [Ids -> Rows]
    BY <1>1, <1>9 DEF CancelCommit, Kinds, RequestRecords, TablesOK, EndsPrepared
  <2>3. new \in Rows /\ new.status = "cancelled" /\ new.status # b.status
    BY <2>2 DEF Rows
  <2> HIDE DEF new, b, j
  <2>4. CASE i = j /\ row' = [row EXCEPT ![j] = OrmUpdate(row[j], b, new)]
    <3>1. row'[i] = OrmUpdate(row[i], b, new) /\ row[i] # NoRow
      BY <2>2, <2>4, NoRowKind DEF Open
    <3> QED BY <2>2, <2>3, <3>1, FlushKind
  <2>5. CASE row' = row \/ i # j
    <3>1. row'[i] = row[i]
      BY <2>1, <2>2, <2>5
    <3> QED BY <1>2, <2>1, <3>1
  <2> QED BY <2>1, <2>4, <2>5
<1>10. CASE \E h \in Requests : HandlerStep(h)
  <2>1. PICK h \in Requests : HandlerStep(h)
    BY <1>10
  <2>2. ~ResetDrop(h)
    BY <1>1 DEF ResetDrop, ResetMarks
  <2>3. CASE CancelReturns(h) \/ CancelRecheck(h)
    BY <1>2, <2>3 DEF CancelReturns, CancelRecheck
  <2>4. ~ResetReturns(h)
    BY <1>5 DEF ResetReturns
  <2> QED BY <1>4, <1>8, <1>9, <2>1, <2>2, <2>3, <2>4 DEF HandlerStep
<1>11. CASE \E q \in Runs : RunStep(q) \/ TickStep(q)
  BY <1>3, <1>11, AllRunMoves DEF IInv
<1>12. CASE Fault
  <2>1. life = "up" /\ UNCHANGED <<life, row, cancelled>>
    BY <1>12 DEF Fault
  <2>2. CASE \E q \in Runs : (RunFault(q) \/ TickFault(q)) /\ UNCHANGED req
    BY <1>3, <2>1, <2>2, AllRunMoves DEF IInv
  <2>3. CASE (\E s \in Streams : StreamFault(s)) \/ \E h \in Requests : HandlerFault(h)
    BY <1>2, <2>1, <2>3 DEF StreamFault, HandlerFault
  <2> QED BY <1>12, <2>2, <2>3 DEF Fault
<1>13. CASE (\E s \in Streams : StreamStep(s) \/ StreamClient(s)) \/ Quiescent \/ UNCHANGED vars
  BY <1>2, <1>13 DEF StreamStep, StreamClient, StreamFrame, Quiescent, vars
<1>14. ~Crash
  BY <1>1 DEF Crash
<1>15. CASE Start
  <2>1. [row[i] EXCEPT !.status = "failed"].status = "failed"
    BY <1>1 DEF TablesOK, Rows
  <2> QED BY <1>15, <2>1 DEF Start
<1> HIDE DEF Same
<1> QED BY <1>7, <1>9, <1>10, <1>11, <1>12, <1>13, <1>14, <1>15 DEF Next, Same

LEMMA TruthsGrow ==
  ASSUME IInv, [Next]_vars, NEW i \in Ids
  PROVE  Truths[i] \subseteq Truths'[i] /\ (i \in Kept => i \in Kept')
<1>1. ASSUME NEW e \in Truths[i], Clean(i)'
      PROVE  \/ row'[i].status = e
             \/ e = "failed" /\ (row'[i].status = "cancelled" \/ GaveUp(i)')
  <2>1. Clean(i) /\ Calm /\ Undisturbed(i)
    BY <1>1, HurtGrows, CleanBefore
  <2>2. e \in Terminal /\ (row[i].status = e \/ (e = "failed" /\ (row[i].status = "cancelled" \/ GaveUp(i))))
    BY <2>1 DEF Truths
  <2>3. CASE row[i].status = e \/ (e = "failed" /\ row[i].status \in {"cancelled", "failed"})
    BY <2>1, <2>2, <2>3, EndStays DEF Finished
  <2>4. CASE e = "failed" /\ GaveUp(i) /\ row[i].status \notin {"cancelled", "failed"}
    <3>1. PICK r \in Runs : Exists(r) /\ run[r].id = i /\ ~Live(r)
      BY <2>4 DEF GaveUp
    <3>2. Open(i) /\ i \in cancelled
      <4>1. row[i] # NoRow /\ TablesOK
        BY <2>1, <3>1 DEF IInv, OneOwner, Kinds
      <4>2. row[i].status \in Statuses /\ row[i].status # "absent"
        BY <4>1 DEF TablesOK, Rows
      <4> QED BY <2>4, <4>2 DEF Open, GaveUp
    <3>3. \/ row'[i].status \in {"failed", "cancelled"}
          \/ row'[i] = row[i] /\ i \in cancelled' /\ run'[r].id = i /\ Exists(r)' /\ ~Live(r)'
      BY <1>1, <3>1, <3>2, DeadStays
    <3>4. row[i].status # "done"
      BY <3>2 DEF Open
    <3> QED BY <2>4, <3>3, <3>4 DEF GaveUp
  <2> QED BY <2>2, <2>3, <2>4
<1>2. Truths[i] \subseteq Truths'[i]
  BY <1>1 DEF Truths
<1>3. ASSUME i \in Kept, Calm'
      PROVE  row'[i] # NoRow
  <2>1. Calm /\ row[i] # NoRow /\ IInv'
    BY <1>3, HurtGrows, NextKeeps DEF Kept, Calm
  <2> QED BY <1>3, <2>1, RowStays
<1> QED BY <1>2, <1>3 DEF Kept

\* Who pushes what

Tells(i) ==
  \/ UNCHANGED stream
  \/ \E e \in Events : stream' = Pushed(i, e) /\ (e \in Terminal => e \in Truths'[i])

LEMMA TellsNothing ==
  ASSUME NEW i, UNCHANGED stream \/ Push(i, "progress") \/ Push(i, "usage")
  PROVE  Tells(i)
BY DEF Tells, Push, Events

\* It is enough to justify an end for a task nothing has happened to.
LEMMA TellsEnd ==
  ASSUME NEW i \in Ids, NEW e \in Terminal, Push(i, e),
         Clean(i)' => row'[i].status = e \/ (e = "failed" /\ (row'[i].status = "cancelled" \/ GaveUp(i)'))
  PROVE  Tells(i)
BY DEF Tells, Push, Events, Truths

\* The except block announces a failure that a cancel marks instead.
LEMMA FailTells ==
  ASSUME IInv, hurt \subseteq hurt', NEW r \in Runs, Live(r), NEW me \in RunRecords, me.id = run[r].id,
         Fail(r, me), UNCHANGED <<row, cancelled>>
  PROVE  Tells(run[r].id)
<1>1. Kinds /\ run[r].id \in Ids
  BY KindsOf DEF IInv
<1> SUFFICES ASSUME NEW i \in Ids, i = run[r].id PROVE Tells(i)
  BY <1>1
<1>2. CASE i \notin cancelled
  BY <1>2, TellsNothing DEF Fail
<1>3. CASE i \in cancelled
  <2>1. End(r, me) /\ Push(i, "failed")
    BY <1>3 DEF Fail
  <2>2. run'[r].pc = "ended" /\ run'[r].id = i
    BY <1>1, <2>1, EndGoes DEF GoesOn
  <2>3. ASSUME Clean(i)'
        PROVE  GaveUp(i)'
    <3>1. Calm
      BY <1>1, <2>3, CleanBefore
    <3>2. row'[i].status # "done"
      BY <3>1 DEF IInv, EndsByRun
    <3> QED BY <1>3, <2>2, <3>2 DEF GaveUp, Exists, Live
  <2> QED BY <1>1, <2>1, <2>3, TellsEnd
<1> QED BY <1>2, <1>3

LEMMA RaiseTells ==
  ASSUME IInv, hurt \subseteq hurt', NEW r \in Runs, Live(r), NEW me \in RunRecords, me.id = run[r].id,
         Raise(r, me), UNCHANGED <<row, cancelled>>
  PROVE  Tells(run[r].id)
<1>1. CASE InPipeline(me)
  BY <1>1, TellsNothing DEF Raise
<1>2. CASE ~InPipeline(me)
  <2> DEFINE m == [me EXCEPT !.seen = NoRow]
  <2>1. m \in RunRecords /\ m.id = run[r].id
    BY NoRowKind DEF RunRecords
  <2>2. Fail(r, m)
    BY <1>2 DEF Raise
  <2> HIDE DEF m
  <2> QED BY <2>1, <2>2, FailTells
<1> QED BY <1>1, <1>2

\* The commit of an end stores the end that is pushed.
LEMMA CommitTells ==
  ASSUME IInv, hurt \subseteq hurt', NEW r \in Runs,
         \/ StoreCommit(r) /\ UNCHANGED cancelled
         \/ FailCommit(r)
  PROVE  Tells(run[r].id)
<1> DEFINE me == run[r]
<1>1. /\ Live(r) /\ me \in RunRecords /\ me.id \in Ids /\ me.pc \in {"commit", "fail"}
      /\ row[me.id] \in Rows /\ row \in [Ids -> Rows]
  <2>1. me.pc \in {"commit", "fail"} /\ Live(r)
    BY DEF StoreCommit, FailCommit, At, Live
  <2> QED BY <2>1, KindsOf DEF IInv
<1> SUFFICES ASSUME NEW i \in Ids, i = me.id PROVE Tells(i)
  BY <1>1
<1>2. me.seen \in Rows /\ me.seen.status \notin Terminal
  BY <1>1 DEF IInv, EndsPrepared, RunRecords
<1>3. CASE StoreCommit(r) /\ row[i] = NoRow /\ UNCHANGED cancelled
  <2>1. Raise(r, me) /\ UNCHANGED row
    BY <1>3 DEF StoreCommit
  <2> QED BY <1>1, <1>3, <2>1, RaiseTells
<1>4. CASE StoreCommit(r) /\ row[i] # NoRow
  <2> DEFINE new == [me.seen EXCEPT !.status = "done", !.progress = 8]
  <2>1. me.pc = "commit" /\ row' = [row EXCEPT ![i] = Written(me)] /\ Push(i, "done")
    BY <1>4 DEF StoreCommit, At
  <2>2. new \in Rows /\ new.status = "done"
    BY <1>2 DEF Rows
  <2>3. Written(me) = OrmUpdate(row[i], me.seen, new)
    BY <2>1 DEF Written
  <2> HIDE DEF new
  <2>4. Written(me).status = "done"
    BY <1>1, <1>2, <1>4, <2>2, <2>3, FlushKind
  <2>5. row'[i].status = "done"
    BY <1>1, <2>1, <2>4
  <2> QED BY <1>1, <2>1, <2>5, TellsEnd
<1>5. CASE FailCommit(r)
  <2> DEFINE new == [me.seen EXCEPT !.status = "failed"]
  <2>1. me.pc = "fail" /\ row' = [row EXCEPT ![i] = Written(me)] /\ Push(i, "failed")
    BY <1>5 DEF FailCommit, At
  <2>2. new \in Rows /\ new.status = "failed"
    BY <1>2 DEF Rows
  <2>3. Written(me) = OrmUpdate(row[i], me.seen, new)
    BY <2>1 DEF Written
  <2> HIDE DEF new
  <2>4. ASSUME Clean(i)'
        PROVE  row'[i].status = "failed"
    <3>1. row[i] # NoRow
      <4>1. Calm
        BY <1>1, <2>4, CleanBefore
      <4> QED BY <1>1, <4>1 DEF IInv, OneOwner, Exists, Live
    <3>2. Written(me).status = "failed"
      BY <1>1, <1>2, <2>2, <2>3, <3>1, FlushKind
    <3> QED BY <1>1, <2>1, <3>2
  <2> QED BY <1>1, <2>1, <2>4, TellsEnd
<1> QED BY <1>3, <1>4, <1>5

\* A failure that is not recorded is that of a task being cancelled.
LEMMA ExcuseTells ==
  ASSUME IInv, hurt \subseteq hurt', NEW r \in Runs, Excuse(r), UNCHANGED <<row, cancelled>>
  PROVE  Tells(run[r].id)
<1> DEFINE me == run[r]
<1>1. Live(r) /\ me \in RunRecords /\ me.id \in Ids /\ Kinds
  <2>1. Live(r)
    BY DEF Excuse, At, Live
  <2> QED BY <2>1, KindsOf DEF IInv
<1> SUFFICES ASSUME NEW i \in Ids, i = me.id PROVE Tells(i)
  BY <1>1
<1>2. CASE MayWrite(i)
  BY <1>2, TellsNothing DEF Excuse
<1>3. CASE ~MayWrite(i)
  <2>1. End(r, me) /\ Push(i, "failed")
    BY <1>3 DEF Excuse
  <2>2. run'[r].pc = "ended" /\ run'[r].id = i
    BY <1>1, <2>1, EndGoes DEF GoesOn
  <2>3. ASSUME Clean(i)'
        PROVE  GaveUp(i)'
    <3>1. Calm /\ Undisturbed(i)
      BY <1>1, <2>3, CleanBefore
    <3>2. row'[i].status # "done" /\ row[i] # NoRow /\ ~Finished(i)
      BY <1>1, <3>1 DEF IInv, EndsByRun, OneOwner, EndedIsIdle, Exists, Live
    <3>3. i \in cancelled
      BY <1>3, <3>2 DEF MayWrite
    <3> QED BY <2>2, <3>2, <3>3 DEF GaveUp, Exists, Live
  <2> QED BY <1>1, <2>1, <2>3, TellsEnd
<1> QED BY <1>2, <1>3

LEMMA JoinTells ==
  ASSUME IInv, hurt \subseteq hurt', NEW r \in Runs, Join(r), UNCHANGED <<row, cancelled>>
  PROVE  Tells(run[r].id)
<1> DEFINE me == [run[r] EXCEPT !.stop = FALSE, !.tick = "off", !.tickLevel = 0]
<1>1. Live(r)
  BY DEF Join, Live
<1>2. run[r] \in RunRecords
  BY <1>1, KindsOf DEF IInv
<1>3. me \in RunRecords /\ me.id = run[r].id
  <2>1. [run[r] EXCEPT !.stop = FALSE] \in RunRecords
    BY <1>2 DEF RunRecords
  <2>2. [run[r] EXCEPT !.stop = FALSE, !.tick = "off"] \in RunRecords
    BY <2>1 DEF RunRecords
  <2> QED BY ZenonT(30), <1>2, <2>2 DEF RunRecords
<1>4. Fail(r, me) \/ UNCHANGED stream
  <2>1. run[r].error \in {"none", "error", "cancelled"}
    BY <1>2 DEF RunRecords
  <2>2. me.error = run[r].error
    BY <1>2 DEF RunRecords
  <2> QED BY <2>1, <2>2 DEF Join
<1> HIDE DEF me
<1> QED BY <1>1, <1>3, <1>4, FailTells, TellsNothing

LEMMA RunStepTells ==
  ASSUME IInv, hurt \subseteq hurt', NEW r \in Runs, RunStep(r)
  PROVE  Tells(run[r].id)
<1> DEFINE me == run[r]
<1>1. UNCHANGED cancelled
  BY DEF RunStep
<1>2. \A place \in RunPlaces \ {"free", "ended"} : me.pc = place => Live(r) /\ me \in RunRecords
  BY KindsOf DEF Live, IInv
<1>3. CASE Load(r) \/ ModelAnswers(r) \/ Store(r) \/ Timeout(r) \/ Unwind(r)
  BY <1>3, TellsNothing DEF Load, ModelAnswers, Store, Timeout, Unwind
<1>4. CASE ProgressRead(r)
  BY <1>4, TellsNothing DEF ProgressRead
<1>5. CASE ProgressWrite(r)
  <2>1. CASE UpdateMisses(row[me.id], me.seen, WithProgress(me.seen, me.level))
    <3>1. Raise(r, me) /\ UNCHANGED row /\ me.pc = "write"
      BY <1>5, <2>1 DEF ProgressWrite, At
    <3> QED BY <1>1, <1>2, <3>1, RaiseTells DEF RunPlaces
  <2>2. CASE ~UpdateMisses(row[me.id], me.seen, WithProgress(me.seen, me.level))
    BY <1>5, <2>2, TellsNothing DEF ProgressWrite
  <2> QED BY <2>1, <2>2
<1>6. CASE Reference(r) /\ UNCHANGED row
  <2>1. me.pc = "reference" /\ (Fail(r, me) \/ UNCHANGED stream)
    BY <1>6 DEF Reference, At
  <2> QED BY <1>1, <1>2, <1>6, <2>1, FailTells, TellsNothing DEF RunPlaces
<1>7. CASE ModelFails(r) /\ UNCHANGED row
  <2>1. me.pc = "model" /\ Raise(r, me)
    BY <1>7 DEF ModelFails, At
  <2> QED BY <1>1, <1>2, <1>7, <2>1, RaiseTells DEF RunPlaces
<1>8. CASE Bill(r)
  BY <1>8, TellsNothing DEF Bill
<1>9. CASE (Join(r) \/ Excuse(r)) /\ UNCHANGED row
  BY <1>1, <1>9, JoinTells, ExcuseTells
<1>10. CASE StoreCommit(r) \/ FailCommit(r)
  BY <1>1, <1>10, CommitTells
<1> QED BY <1>3, <1>4, <1>5, <1>6, <1>7, <1>8, <1>9, <1>10 DEF RunStep

LEMMA TickStepTells ==
  ASSUME NEW r \in Runs, TickStep(r) \/ TickFault(r)
  PROVE  Tells(run[r].id)
BY TellsNothing DEF TickStep, TickWake, TickRead, TickWrite, TickStop, TickFault

LEMMA RunFaultTells ==
  ASSUME IInv, hurt \subseteq hurt', NEW r \in Runs, RunFault(r), UNCHANGED <<row, cancelled>>
  PROVE  Tells(run[r].id)
<1> DEFINE me == run[r]
<1>1. Live(r)
  BY DEF RunFault, At, Live
<1>2. me \in RunRecords /\ me.id \in Ids
  BY <1>1, KindsOf DEF IInv
<1> SUFFICES ASSUME NEW i \in Ids, i = me.id PROVE Tells(i)
  BY <1>2
<1>3. CASE Raise(r, me)
  BY <1>1, <1>2, <1>3, RaiseTells
<1>4. CASE ~Raise(r, me)
  <2>1. Push(i, "failed") /\ <<i, "fault">> \in hurt'
    BY <1>4 DEF RunFault, At
  <2>2. ~Clean(i)'
    BY <2>1 DEF Clean, Spared
  <2> QED BY <1>2, <2>1, <2>2, TellsEnd
<1> QED BY <1>3, <1>4

\* A cancel announces what its commit stored.
LEMMA CancelTells ==
  ASSUME IInv, NEW h \in Requests, CancelCommit(h)
  PROVE  \E i \in Ids : Tells(i)
<1> DEFINE i == req[h].id  b == req[h].seen  new == [b EXCEPT !.status = "cancelled"]
<1>1. /\ i \in Ids /\ b \in Rows /\ b.status \notin Terminal
      /\ row[i] \in Rows /\ row \in [Ids -> Rows]
      /\ (row[i].status = "absent" => row[i] = NoRow)
  BY DEF CancelCommit, IInv, Kinds, RequestOK, RequestRecords, TablesOK, EndsPrepared
<1>2. new \in Rows /\ new.status = "cancelled" /\ new # b
  BY <1>1 DEF Rows
<1>3. CASE UpdateMisses(row[i], b, new)
  BY <1>1, <1>3, TellsNothing DEF CancelCommit
<1>4. CASE ~UpdateMisses(row[i], b, new)
  <2>1. row' = [row EXCEPT ![i] = OrmUpdate(row[i], b, new)] /\ Push(i, "cancelled")
    BY <1>4 DEF CancelCommit
  <2> HIDE DEF new, b
  <2>2. row[i] # NoRow
    BY <1>2, <1>4 DEF UpdateMisses
  <2>3. OrmUpdate(row[i], b, new).status = "cancelled"
    BY <1>1, <1>2, <2>2, FlushKind
  <2>4. row'[i].status = "cancelled"
    BY <1>1, <2>1, <2>3
  <2>5. Tells(i)
    BY <1>1, <2>1, <2>4, TellsEnd
  <2> QED BY <1>1, <2>5
<1> QED BY <1>3, <1>4

\* The streams stay truthful

LEMMA StreamStays ==
  ASSUME IInv, [Next]_vars, NEW v, StreamOK(v, Truths, Kept)
  PROVE  StreamOK(v, Truths', Kept')
<1>1. \A i \in Ids : Truths[i] \subseteq Truths'[i] /\ (i \in Kept => i \in Kept')
  BY TruthsGrow
<1>2. v.id \in Ids \/ (v.queue = <<>> /\ v.pc \notin {"connected", "reread", "ended"})
  BY DEF StreamOK
<1>3. CASE v.id \in Ids
  BY <1>1, <1>3 DEF StreamOK
<1>4. CASE v.queue = <<>> /\ v.pc \notin {"connected", "reread", "ended"}
  BY <1>4, EmptyKind DEF StreamOK
<1> QED BY <1>2, <1>3, <1>4

LEMMA NewStreamKind ==
  /\ NewStream \in StreamRecords /\ NewStream.pc = "idle" /\ NewStream.id = NoId
  /\ ~NewStream.listed /\ NewStream.queue = <<>>
BY EmptyKind DEF NewStream, StreamRecords

LEMMA IdleStream ==
  ASSUME NEW v \in StreamRecords, v.pc \in {"idle", "dead"}, v.queue = <<>>, ~v.listed, NEW truths, NEW kept
  PROVE  StreamOK(v, truths, kept)
BY EmptyKind DEF StreamOK

LEMMA DeadStream ==
  ASSUME NEW truths, NEW kept
  PROVE  StreamOK([NewStream EXCEPT !.pc = "dead"], truths, kept)
<1> DEFINE v == [NewStream EXCEPT !.pc = "dead"]
<1> SUFFICES StreamOK(v, truths, kept)
  OBVIOUS
<1>1. v \in StreamRecords /\ v.pc = "dead" /\ v.queue = <<>> /\ ~v.listed
  BY NewStreamKind DEF StreamRecords
<1> HIDE DEF v
<1> QED BY <1>1, IdleStream

LEMMA EndedStream ==
  ASSUME NEW i \in Ids, NEW e \in Terminal, NEW truths, e \in truths[i], NEW kept
  PROVE  StreamOK([NewStream EXCEPT !.pc = "ended", !.id = i, !.told = e], truths, kept)
<1> DEFINE v == [NewStream EXCEPT !.pc = "ended", !.id = i, !.told = e]
<1> SUFFICES StreamOK(v, truths, kept)
  OBVIOUS
<1>1. v.pc = "ended" /\ v.id = i /\ v.queue = <<>> /\ ~v.listed /\ v.told = e
  BY NewStreamKind DEF StreamRecords
<1>2. v \in StreamRecords
  <2>1. [NewStream EXCEPT !.pc = "ended", !.id = i] \in StreamRecords
    BY NewStreamKind DEF StreamRecords
  <2> QED BY <2>1 DEF StreamRecords
<1> HIDE DEF v
<1> QED BY <1>1, <1>2, EmptyKind DEF StreamOK

\* A change of one stream
LEMMA OneStream ==
  ASSUME IInv, StreamsTrue, [Next]_vars, NEW s \in Streams, NEW v, stream' = [stream EXCEPT ![s] = v],
         StreamOK(v, Truths', Kept')
  PROVE  StreamsTrue'
<1>1. stream' = [t \in Streams |-> IF t = s THEN v ELSE stream[t]]
  BY DEF StreamsTrue
<1>2. ASSUME NEW t \in Streams
      PROVE  StreamOK(stream'[t], Truths', Kept')
  <2>1. CASE t = s
    BY <1>1, <2>1
  <2>2. CASE t # s
    <3>1. stream'[t] = stream[t] /\ StreamOK(stream[t], Truths, Kept)
      BY <1>1, <2>2 DEF StreamsTrue
    <3> QED BY <3>1, StreamStays
  <2> QED BY <2>1, <2>2
<1> QED BY <1>1, <1>2 DEF StreamsTrue, StreamOK

LEMMA TellsKeeps ==
  ASSUME IInv, StreamsTrue, [Next]_vars, NEW i \in Ids, Tells(i)
  PROVE  StreamsTrue'
<1>1. CASE UNCHANGED stream
  <2>1. \A s \in Streams : StreamOK(stream'[s], Truths', Kept')
    BY <1>1, StreamStays DEF StreamsTrue
  <2> QED BY <1>1, <2>1 DEF StreamsTrue, StreamOK
<1>2. CASE \E e \in Events : stream' = Pushed(i, e) /\ (e \in Terminal => e \in Truths'[i])
  <2>1. PICK e \in Events : stream' = Pushed(i, e) /\ (e \in Terminal => e \in Truths'[i])
    BY <1>2
  <2>2. ASSUME NEW s \in Streams
        PROVE  StreamOK(stream'[s], Truths', Kept')
    <3>1. StreamOK(stream[s], Truths', Kept')
      BY StreamStays DEF StreamsTrue
    <3>2. CASE ~(stream[s].listed /\ stream[s].id = i)
      BY <2>1, <3>1, <3>2 DEF Pushed
    <3>3. CASE stream[s].listed /\ stream[s].id = i
      <4> DEFINE q == Enqueued(stream[s].queue, e)  v == [stream[s] EXCEPT !.queue = q]
      <4>1. stream'[s] = v
        BY <2>1, <3>3 DEF Pushed
      <4>2. stream[s] \in StreamRecords /\ stream[s].queue \in Seq(Events)
        BY <3>1 DEF StreamOK, StreamRecords
      <4>3. q \in Seq(Events) /\ Queued(q) \subseteq Queued(stream[s].queue) \cup {e}
        BY <4>2, EnqueuedKind
      <4> HIDE DEF q
      <4>4. /\ v \in StreamRecords /\ v.queue = q /\ v.id = i /\ v.pc = stream[s].pc
            /\ v.listed = stream[s].listed /\ v.told = stream[s].told
        BY <3>3, <4>2, <4>3 DEF StreamRecords
      <4> HIDE DEF v
      <4>5. stream[s].pc \in {"reread", "wait"}
        BY <3>1, <3>3 DEF StreamOK
      <4> QED BY <2>1, <3>1, <3>3, <4>1, <4>3, <4>4, <4>5 DEF StreamOK
    <3> QED BY <3>2, <3>3
  <2>3. stream' = [s \in Streams |-> stream'[s]]
    BY <2>1 DEF Pushed
  <2> QED BY <2>2, <2>3 DEF StreamsTrue, StreamOK
<1> QED BY <1>1, <1>2 DEF Tells

LEMMA ClearKeepsStreams ==
  ASSUME IInv, StreamsTrue, [Next]_vars, stream' = [s \in Streams |-> [stream[s] EXCEPT !.listed = FALSE]]
  PROVE  StreamsTrue'
<1>1. ASSUME NEW s \in Streams
      PROVE  StreamOK(stream'[s], Truths', Kept')
  <2> DEFINE v == [stream[s] EXCEPT !.listed = FALSE]
  <2>1. StreamOK(stream[s], Truths', Kept') /\ stream'[s] = v
    BY StreamStays DEF StreamsTrue
  <2>2. stream[s] \in StreamRecords
    BY <2>1 DEF StreamOK
  <2>3. /\ v \in StreamRecords /\ v.queue = stream[s].queue /\ v.id = stream[s].id
        /\ v.pc = stream[s].pc /\ v.told = stream[s].told /\ ~v.listed
    BY <2>2 DEF StreamRecords
  <2> HIDE DEF v
  <2> QED BY <2>1, <2>3 DEF StreamOK
<1> QED BY <1>1 DEF StreamsTrue, StreamOK

LEMMA CrashKeepsStreams ==
  ASSUME IInv, StreamsTrue, [Next]_vars, Crash
  PROVE  StreamsTrue'
<1>1. ASSUME NEW s \in Streams
      PROVE  StreamOK(stream'[s], Truths', Kept')
  <2>1. CASE stream[s].pc \in {"idle", "ended"}
    <3>1. stream'[s] = stream[s] /\ StreamOK(stream[s], Truths, Kept)
      BY <2>1 DEF Crash, StreamsTrue
    <3> QED BY <3>1, StreamStays
  <2>2. CASE stream[s].pc \notin {"idle", "ended"}
    <3>1. stream'[s] = [NewStream EXCEPT !.pc = "dead"]
      BY <2>2 DEF Crash
    <3> QED BY <3>1, DeadStream
  <2> QED BY <2>1, <2>2
<1>2. stream' = [s \in Streams |-> stream'[s]]
  BY DEF Crash
<1> QED BY <1>1, <1>2 DEF StreamsTrue, StreamOK

\* The steps of a stream and its client
LEMMA StreamStepKeeps ==
  ASSUME IInv, StreamsTrue, [Next]_vars, NEW s \in Streams, StreamStep(s) \/ StreamClient(s)
  PROVE  StreamsTrue'
<1> DEFINE v == stream[s]  i == v.id
<1>1. UNCHANGED <<life, row, cancelled, tasks, run, req, hurt>> /\ Truths' = Truths /\ Kept' = Kept
  <2>1. UNCHANGED <<life, row, cancelled, tasks, run, req, hurt>>
    BY DEF StreamStep, StreamClient, StreamFrame, env
  <2> QED BY <2>1 DEF Truths, Kept, Clean, Spared, GaveUp, Exists, Live, Calm
<1>2. /\ StreamOK(v, Truths', Kept') /\ v \in StreamRecords /\ v.queue \in Seq(Events) /\ v.told \in Statuses
  <2>1. StreamOK(v, Truths', Kept') /\ v \in StreamRecords
    BY <1>1 DEF StreamsTrue, StreamOK
  <2> QED BY <2>1 DEF StreamRecords
<1>3. ASSUME NEW j \in Ids, Connect(s, j)
      PROVE  StreamsTrue'
  <2> DEFINE w == [NewStream EXCEPT !.pc = "connected", !.id = j, !.told = row[j].status]
  <2>1. w.pc = "connected" /\ w.id = j /\ ~w.listed /\ w.queue = <<>>
    BY NewStreamKind DEF StreamRecords
  <2>2. row[j].status \in Statuses /\ j \in Kept'
    BY <1>1, <1>3 DEF IInv, Kinds, TablesOK, Rows, Connect, Kept
  <2>3. w \in StreamRecords
    <3>1. [NewStream EXCEPT !.pc = "connected", !.id = j] \in StreamRecords
      BY NewStreamKind DEF StreamRecords
    <3> QED BY <2>2, <3>1 DEF StreamRecords
  <2>4. stream' = [stream EXCEPT ![s] = w]
    BY <1>3 DEF Connect
  <2> HIDE DEF w
  <2>5. StreamOK(w, Truths', Kept')
    BY <2>1, <2>2, <2>3, EmptyKind DEF StreamOK
  <2> QED BY <2>4, <2>5, OneStream
<1>4. CASE Subscribe(s)
  <2> DEFINE w == [v EXCEPT !.pc = "reread", !.listed = TRUE]
  <2>1. /\ w \in StreamRecords
        /\ w.pc = "reread" /\ w.id = i /\ w.queue = v.queue
    BY <1>2 DEF StreamRecords
  <2>2. v.pc = "connected" /\ stream' = [stream EXCEPT ![s] = w]
    BY <1>4 DEF Subscribe
  <2> HIDE DEF w
  <2>3. StreamOK(w, Truths', Kept')
    BY <1>2, <2>1, <2>2 DEF StreamOK
  <2> QED BY <2>2, <2>3, OneStream
<1>5. ASSUME NEW e \in Terminal, StreamEnd(s, e), v.pc \in {"reread", "wait"}, e \in Truths'[i]
      PROVE  StreamsTrue'
  <2>1. i \in Ids
    BY <1>2, <1>5 DEF StreamOK
  <2>2. StreamOK([NewStream EXCEPT !.pc = "ended", !.id = i, !.told = e], Truths', Kept')
    BY <1>5, <2>1, EndedStream
  <2> QED BY <1>5, <2>2, OneStream DEF StreamEnd
<1>6. CASE StreamReread(s)
  <2> DEFINE status == IF row[i] = NoRow THEN v.told ELSE row[i].status
             w == [v EXCEPT !.pc = "wait", !.told = status]
  <2>1. v.pc = "reread" /\ i \in Ids /\ i \in Kept
    BY <1>1, <1>2, <1>6 DEF StreamReread, StreamOK
  <2>2. status \in Statuses
    BY <1>2, <2>1 DEF IInv, Kinds, TablesOK, Rows
  <2>3. CASE status \in Terminal
    <3>1. row[i] = NoRow => ~Clean(i)
      BY <2>1, CalmIf DEF Kept, Clean, Spared, IInv
    <3>2. status \in Truths[i]
      BY <2>1, <2>3, <3>1 DEF Truths
    <3>3. StreamEnd(s, status)
      BY <1>6, <2>3 DEF StreamReread
    <3> HIDE DEF status
    <3> QED BY <1>1, <1>5, <2>1, <2>3, <3>2, <3>3
  <2>4. CASE status \notin Terminal
    <3>1. stream' = [stream EXCEPT ![s] = w]
      BY <1>6, <2>4 DEF StreamReread
    <3> HIDE DEF status
    <3>2. /\ w \in StreamRecords
          /\ w.pc = "wait" /\ w.id = i /\ w.queue = v.queue
      BY <1>2, <2>2 DEF StreamRecords
    <3> HIDE DEF w
    <3>3. StreamOK(w, Truths', Kept')
      BY <1>2, <2>1, <3>2 DEF StreamOK
    <3> QED BY <3>1, <3>3, OneStream
  <2> QED BY <2>3, <2>4
<1>7. CASE StreamNext(s)
  <2>1. v.pc = "wait" /\ v.queue # <<>> /\ i \in Ids
    BY <1>2, <1>7 DEF StreamNext, StreamOK
  <2>2. Tail(v.queue) \in Seq(Events) /\ Queued(Tail(v.queue)) \subseteq Queued(v.queue) /\ Head(v.queue) \in Queued(v.queue)
    BY <1>2, <2>1, DequeuedKind
  <2>3. CASE Head(v.queue) \in Terminal
    <3>1. Head(v.queue) \in Truths'[i] /\ StreamEnd(s, Head(v.queue))
      BY <1>2, <1>7, <2>2, <2>3 DEF StreamOK, StreamNext
    <3> QED BY <1>5, <2>1, <2>3, <3>1
  <2>4. CASE Head(v.queue) \notin Terminal
    <3> DEFINE w == [v EXCEPT !.queue = Tail(v.queue)]
    <3>1. /\ w \in StreamRecords
          /\ w.pc = v.pc /\ w.id = i /\ w.queue = Tail(v.queue)
      BY <1>2, <2>2 DEF StreamRecords
    <3>2. stream' = [stream EXCEPT ![s] = w]
      BY <1>7, <2>4 DEF StreamNext
    <3> HIDE DEF w
    <3>3. StreamOK(w, Truths', Kept')
      BY <1>2, <2>1, <2>2, <3>1 DEF StreamOK
    <3> QED BY <3>2, <3>3, OneStream
  <2> QED BY <2>3, <2>4
<1>8. CASE Disconnect(s)
  <2>1. StreamOK([NewStream EXCEPT !.pc = "dead"], Truths', Kept')
    BY DeadStream
  <2> QED BY <1>8, <2>1, OneStream DEF Disconnect
<1> QED BY <1>3, <1>4, <1>6, <1>7, <1>8 DEF StreamStep, StreamClient

LEMMA StreamFaultKeeps ==
  ASSUME IInv, StreamsTrue, [Next]_vars, NEW s \in Streams, StreamFault(s)
  PROVE  StreamsTrue'
<1> SUFFICES ASSUME NEW i, i = stream[s].id PROVE StreamsTrue'
  OBVIOUS
<1>1. i \in Ids
  BY DEF StreamsTrue, StreamOK, StreamFault
<1>2. "failed" \in Truths'[i]
  <2>1. ~Clean(i)'
    BY DEF StreamFault, Clean, Spared
  <2> QED BY <1>1, <2>1 DEF Truths
<1>3. StreamOK([NewStream EXCEPT !.pc = "ended", !.id = i, !.told = "failed"], Truths', Kept')
  BY <1>1, <1>2, EndedStream
<1> QED BY <1>3, OneStream DEF StreamFault, StreamEnd

LEMMA NextKeepsStreams ==
  ASSUME IInv, StreamsTrue, [Next]_vars
  PROVE  StreamsTrue'
<1>1. hurt \subseteq hurt' /\ 1 \in Ids
  BY HurtGrows
<1>2. UNCHANGED stream => StreamsTrue'
  BY <1>1, TellsKeeps DEF Tells
<1>3. ASSUME NEW r \in Runs, Tells(run[r].id), Live(r)
      PROVE  StreamsTrue'
  <2>1. run[r].id \in Ids
    BY <1>3, KindsOf DEF IInv
  <2> QED BY <1>3, <2>1, TellsKeeps
<1>4. ASSUME NEW r \in Runs, RunMoves(r)
      PROVE  Live(r)
  BY <1>4 DEF RunMoves
<1>5. CASE \E r \in Runs : RunStep(r) \/ TickStep(r)
  BY <1>1, <1>3, <1>4, <1>5, AllRunMoves, RunStepTells, TickStepTells DEF IInv
<1>6. CASE \E h \in Requests : Arrive(h)
  <2>1. UNCHANGED stream \/ \E h \in Requests : ClearAll(h)
    BY <1>6 DEF Arrive, Insert, CopyLoad, CancelLoad, ResetBegin
  <2> QED BY <1>2, <2>1, ClearKeepsStreams DEF ClearAll
<1>7. CASE \E h \in Requests : HandlerStep(h)
  <2>1. \/ UNCHANGED stream
        \/ \E h \in Requests : ClearAll(h) \/ CancelCommit(h)
    BY <1>7 DEF HandlerStep, Insert, Enqueue, CancelReturns, CancelRecheck, ResetReturns, ResetDrop
  <2> QED BY <1>2, <2>1, ClearKeepsStreams, CancelTells, TellsKeeps DEF ClearAll
<1>8. CASE Fault
  <2>1. life = "up" /\ UNCHANGED <<life, row, cancelled>>
    BY <1>8 DEF Fault
  <2>2. CASE \E r \in Runs : (RunFault(r) \/ TickFault(r)) /\ UNCHANGED req
    BY <1>1, <1>3, <1>4, <2>1, <2>2, AllRunMoves, RunFaultTells, TickStepTells DEF IInv
  <2>3. CASE \E s \in Streams : StreamFault(s)
    BY <2>3, StreamFaultKeeps
  <2>4. CASE \E h \in Requests : HandlerFault(h)
    BY <1>2, <2>4 DEF HandlerFault
  <2> QED BY <1>8, <2>2, <2>3, <2>4 DEF Fault
<1>9. CASE \E s \in Streams : StreamStep(s) \/ StreamClient(s)
  BY <1>9, StreamStepKeeps
<1>10. CASE Crash
  BY <1>10, CrashKeepsStreams
<1>11. CASE Start \/ Quiescent \/ UNCHANGED vars
  BY <1>2, <1>11 DEF Start, Quiescent, vars
<1> QED BY <1>5, <1>6, <1>7, <1>8, <1>9, <1>10, <1>11 DEF Next

LEMMA StreamsStayTrue == Spec => []StreamsTrue
<1>1. Init => StreamsTrue
  <2> SUFFICES ASSUME Init PROVE StreamsTrue
    OBVIOUS
  <2>1. stream = [s \in Streams |-> NewStream]
    BY DEF Init
  <2>2. StreamOK(NewStream, Truths, Kept)
    BY NewStreamKind, IdleStream
  <2> QED BY <2>1, <2>2 DEF StreamsTrue
<1>2. IInv /\ StreamsTrue /\ [Next]_vars => StreamsTrue'
  BY NextKeepsStreams
<1> QED BY <1>1, <1>2, Invariance, PTL DEF Spec

\* What a stream told last is what became of the task; "failed" may also be the
\* end of a run that a cancel marks instead (the handler of the event stream,
\* _push, cancel_task, the except block of _run_task).
THEOREM StreamsTellEnds == Spec => []StreamTellsEnd
<1>1. StreamsTrue => StreamTellsEnd
  <2> SUFFICES ASSUME StreamsTrue, NEW s \in Streams, stream[s].pc = "ended", Clean(stream[s].id)
               PROVE  \/ row[stream[s].id].status = stream[s].told
                      \/ /\ stream[s].told = "failed"
                         /\ stream[s].id \in cancelled \/ row[stream[s].id].status = "cancelled"
    BY DEF StreamTellsEnd, Clean
  <2>1. stream[s].id \in Ids /\ stream[s].told \in Truths[stream[s].id]
    BY DEF StreamsTrue, StreamOK
  <2> QED BY <2>1 DEF Truths, GaveUp
<1> QED BY <1>1, StreamsStayTrue, PTL

-----------------------------------------------------------------------------
(* The service implements TaskLife: every step maps to a step of it or to    *)
(* none.  First where a request can be.                                      *)

Makers == Creators \cup Copiers

Post(h, q) ==
  /\ q.pc = "insert" => h \in Copiers
  /\ q.pc = "enqueue" => h \in Makers
  /\ q.pc = "drop" => h \in Resetters

Posts == \A h \in Requests : Post(h, req[h])

LEMMA PostMoves ==
  ASSUME Kinds, Posts, NEW h \in Requests, NEW n, req' = [req EXCEPT ![h] = n], Post(h, n)
  PROVE  Posts'
BY DEF Posts, Post, Kinds

\* A request that is answered, or waits for the runs it stops
LEMMA PostAnswer ==
  ASSUME Kinds, Posts, NEW h \in Requests, NEW pc, Answer(h, pc), pc \notin {"insert", "enqueue"},
         pc = "drop" => h \in Resetters
  PROVE  Posts'
<1> DEFINE n == [req[h] EXCEPT !.pc = pc, !.seen = NoRow, !.runs = {}]
<1>1. n.pc = pc /\ req' = [req EXCEPT ![h] = n]
  BY DEF Kinds, RequestRecords, Answer
<1> HIDE DEF n
<1> QED BY <1>1, PostMoves DEF Post

LEMMA NextKeepsPosts ==
  ASSUME Kinds, EndsPrepared, Posts, [Next]_vars
  PROVE  Posts'
<1>1. UNCHANGED req => Posts'
  BY DEF Posts, Post
<1>2. ASSUME NEW h \in Requests, NEW i \in Ids, Insert(h, i), h \in Makers
      PROVE  Posts'
  <2> DEFINE n == [req[h] EXCEPT !.pc = "enqueue", !.id = i]
  <2>1. n.pc = "enqueue" /\ req' = [req EXCEPT ![h] = n]
    BY <1>2 DEF Insert, Kinds, RequestRecords
  <2> HIDE DEF n
  <2> QED BY <1>2, <2>1, PostMoves DEF Post
<1>3. ASSUME NEW h \in Copiers, NEW i \in Ids, CopyLoad(h, i)
      PROVE  Posts'
  <2>1. h \in Requests
    BY DEF Requests
  <2>2. CASE Answer(h, "refused")
    BY <2>1, <2>2, PostAnswer
  <2>3. ASSUME NEW p, req' = [req EXCEPT ![h].pc = "insert", ![h].parent = p]
        PROVE  Posts'
    <3> DEFINE n == [req[h] EXCEPT !.pc = "insert", !.parent = p]
    <3>1. n.pc = "insert" /\ req' = [req EXCEPT ![h] = n]
      BY <2>1, <2>3 DEF Kinds, RequestRecords
    <3> HIDE DEF n
    <3> QED BY <2>1, <3>1, PostMoves DEF Post
  <2> QED BY <1>3, <2>2, <2>3 DEF CopyLoad
<1>4. ASSUME NEW h \in Cancellers, NEW i \in Ids, CancelLoad(h, i)
      PROVE  Posts'
  <2> DEFINE a == [req[h] EXCEPT !.pc = "refused", !.id = i]
             b == [req[h] EXCEPT !.id = i, !.runs = {tasks[i]} \ {NoRun},
                                 !.pc = IF tasks[i] = NoRun THEN "recheck" ELSE "waiting"]
  <2>1. h \in Requests
    BY DEF Requests
  <2>2. a.pc = "refused" /\ b.pc \in {"recheck", "waiting"}
    BY <2>1 DEF Kinds, RequestRecords
  <2>3. req' = [req EXCEPT ![h] = a] \/ req' = [req EXCEPT ![h] = b]
    BY <1>4, <2>1 DEF CancelLoad, Kinds
  <2> HIDE DEF a, b
  <2> QED BY <2>1, <2>2, <2>3, PostMoves DEF Post
<1>5. ASSUME NEW h \in Resetters, ClearAll(h) \/ ResetDrop(h)
      PROVE  Posts'
  <2>1. h \in Requests
    BY DEF Requests
  <2> QED BY <1>5, <2>1, PostAnswer DEF ClearAll, ResetDrop
<1>6. ASSUME NEW h \in Resetters, ResetBegin(h)
      PROVE  Posts'
  <2>1. h \in Requests
    BY DEF Requests
  <2>2. ASSUME NEW rs, req' = [req EXCEPT ![h].pc = "waiting", ![h].runs = rs]
        PROVE  Posts'
    <3> DEFINE n == [req[h] EXCEPT !.pc = "waiting", !.runs = rs]
    <3>1. n.pc = "waiting" /\ req' = [req EXCEPT ![h] = n]
      BY <2>1, <2>2 DEF Kinds, RequestRecords
    <3> HIDE DEF n
    <3> QED BY <2>1, <3>1, PostMoves DEF Post
  <2> QED BY <1>5, <1>6, <2>2 DEF ResetBegin
<1>7. CASE \E h \in Requests : Arrive(h)
  BY <1>2, <1>3, <1>4, <1>6, <1>7 DEF Arrive, Makers
<1>8. CASE \E h \in Requests : HandlerStep(h)
  <2>1. PICK h \in Requests : HandlerStep(h)
    BY <1>8
  <2>2. CASE h \in Copiers /\ \E i \in Ids : Insert(h, i)
    BY <1>2, <2>2 DEF Makers
  <2>3. CASE Enqueue(h) \/ CancelReturns(h)
    BY <2>3, PostAnswer DEF Enqueue, CancelReturns
  <2>4. CASE CancelRecheck(h)
    <3> DEFINE n == [req[h] EXCEPT !.pc = "mark", !.seen = row[req[h].id]]
    <3>1. \/ Answer(h, "broken") \/ Answer(h, "refused")
          \/ req' = [req EXCEPT ![h] = n]
      BY <2>4 DEF CancelRecheck, Kinds
    <3>2. n.pc = "mark"
      BY DEF Kinds, RequestRecords
    <3> HIDE DEF n
    <3> QED BY <3>1, <3>2, PostAnswer, PostMoves DEF Post
  <2>5. CASE CancelCommit(h)
    <3>1. Answer(h, "broken") \/ Answer(h, "cancelled")
      BY <2>5 DEF CancelCommit
    <3> QED BY <3>1, PostAnswer
  <2>6. CASE ResetReturns(h) \/ ResetDrop(h)
    <3>1. h \in Resetters
      BY <2>6 DEF ResetReturns, ResetDrop, Posts, Post
    <3> QED BY <1>5, <2>6, <3>1 DEF ResetReturns
  <2> QED BY <2>1, <2>2, <2>3, <2>4, <2>5, <2>6 DEF HandlerStep
<1>9. CASE Fault
  <2>1. UNCHANGED req \/ \E h \in Requests : HandlerFault(h)
    BY <1>9 DEF Fault
  <2> QED BY <1>1, <2>1, PostAnswer DEF HandlerFault
<1>10. CASE Crash
  <2>1. NewRequest.pc = "idle" /\ [NewRequest EXCEPT !.pc = "dead"].pc = "dead"
    BY DEF NewRequest
  <2>2. \A h \in Requests : req'[h] = req[h] \/ req'[h].pc = "dead"
    BY <1>10, <2>1 DEF Crash
  <2> QED BY <2>2 DEF Posts, Post
<1>11. CASE (\E r \in Runs : RunStep(r) \/ TickStep(r)) \/ (\E s \in Streams : StreamStep(s) \/ StreamClient(s))
            \/ Start \/ Quiescent \/ UNCHANGED vars
  BY <1>1, <1>11 DEF RunStep, TickStep, StreamStep, StreamClient, StreamFrame, Start, Quiescent, vars
<1> QED BY <1>7, <1>8, <1>9, <1>10, <1>11 DEF Next

-----------------------------------------------------------------------------
(* The mapping                                                               *)

LEMMA MeaningKind ==
  ASSUME NEW status \in Statuses
  PROVE  LET m == Meaning(status) IN
         /\ m \in {"none", "open"} \cup Terminal
         /\ m = "none" <=> status = "absent"
         /\ m = "open" <=> status \in {"pending", "running"}
         /\ \A e \in Terminal : m = e <=> status = e
BY DEF Meaning

\* What a user sees of a task
LEMMA StateOf ==
  ASSUME TablesOK, NEW i \in Ids
  PROVE  /\ State[i] \in {"none", "open"} \cup Terminal
         /\ State[i] = "none" <=> row[i] = NoRow
         /\ State[i] = "open" <=> Open(i)
         /\ State[i] \in Terminal <=> Finished(i)
         /\ \A e \in Terminal : State[i] = e <=> row[i].status = e
<1>1. row[i].status \in Statuses /\ (row[i].status = "absent" <=> row[i] = NoRow)
  BY NoRowKind DEF TablesOK, Rows
<1> QED BY <1>1, MeaningKind DEF State, Open, Finished

LEMMA StateMoves ==
  ASSUME row \in [Ids -> Rows], NEW i \in Ids, NEW w, row' = [row EXCEPT ![i] = w]
  PROVE  State' = [State EXCEPT ![i] = Meaning(w.status)]
BY DEF State

LEMMA StateStays ==
  ASSUME row' = row \/ (row \in [Ids -> Rows] /\ \A i \in Ids : row'[i].status = row[i].status)
  PROVE  UNCHANGED State
BY DEF State

\* What it sees of a request
LEMMA CallOf ==
  ASSUME NEW h \in Requests
  PROVE  Call[h].id = req[h].id /\ Call[h].at = IF req[h].pc \in Settled THEN req[h].pc ELSE "pending"
BY DEF Call, Asked

LEMMA CallMoves ==
  ASSUME Kinds, NEW h \in Requests, NEW n, req' = [req EXCEPT ![h] = n]
  PROVE  Call' = [Call EXCEPT ![h] = Asked(n)]
BY DEF Call, Kinds

LEMMA PendingMeans ==
  ASSUME Kinds, NEW h \in Requests
  PROVE  Life!Pending(h) <=> req[h].pc \in {"insert", "enqueue", "waiting", "recheck", "mark", "drop"}
<1>1. req[h].pc \in RequestPlaces
  BY DEF Kinds, RequestRecords
<1> QED BY <1>1, CallOf DEF Life!Pending, RequestPlaces, Settled

\* An answer is a reply; a step between two places of a call is none.
LEMMA Replies ==
  ASSUME Kinds, NEW h \in Requests, NEW pc \in Settled, Answer(h, pc)
  PROVE  Life!Reply(h, pc)
<1> DEFINE n == [req[h] EXCEPT !.pc = pc, !.seen = NoRow, !.runs = {}]
<1>1. n.pc = pc /\ n.id = req[h].id /\ req' = [req EXCEPT ![h] = n]
  BY DEF Kinds, RequestRecords, Answer
<1> HIDE DEF n
<1>2. Call' = [Call EXCEPT ![h] = Asked(n)] /\ Asked(n) = [at |-> pc, id |-> req[h].id]
  BY <1>1, CallMoves DEF Asked
<1>3. Call[h].id = req[h].id /\ Call[h] = Asked(req[h])
  BY CallOf DEF Call
<1>4. [Call[h] EXCEPT !.at = pc] = [at |-> pc, id |-> req[h].id]
  BY <1>3 DEF Asked
<1> QED BY <1>2, <1>4 DEF Life!Reply

LEMMA GoesOnPending ==
  ASSUME Kinds, NEW h \in Requests, NEW n, req' = [req EXCEPT ![h] = n], n.id = req[h].id,
         n.pc \notin Settled
  PROVE  /\ req[h].pc \notin Settled => UNCHANGED Call
         /\ Life!Reply(h, "pending")
<1>1. Call' = [Call EXCEPT ![h] = Asked(n)] /\ Asked(n) = [at |-> "pending", id |-> req[h].id]
  BY CallMoves DEF Asked
<1>2. Call[h] = Asked(req[h])
  BY DEF Call
<1>3. [Call[h] EXCEPT !.at = "pending"] = [at |-> "pending", id |-> req[h].id]
  BY <1>2 DEF Asked
<1>4. ASSUME req[h].pc \notin Settled
      PROVE  UNCHANGED Call
  <2>1. Call[h] = Asked(n)
    BY <1>1, <1>2, <1>4 DEF Asked
  <2>2. Call = [g \in Requests |-> Call[g]]
    BY DEF Call
  <2> QED BY <1>1, <2>1, <2>2
<1> QED BY <1>1, <1>3, <1>4 DEF Life!Reply

\* Being created, being ended
LEMMA MakingMeans ==
  ASSUME Kinds, Posts, NEW i \in Ids
  PROVE  Life!Making(i) <=> \E g \in Requests : OnTask(g, i, {"enqueue"})
<1>1. ASSUME NEW g \in Makers, Life!Pending(g), Call[g].id = i
      PROVE  OnTask(g, i, {"enqueue"})
  <2>1. g \in Requests /\ RequestOK(g, req[g]) /\ g \notin Cancellers \cup Resetters
    BY RequestsAssumption DEF Makers, Requests, Kinds
  <2>2. req[g].id = i /\ i # NoId
    BY <1>1, <2>1, CallOf
  <2>3. req[g].pc \in {"insert", "enqueue", "waiting", "recheck", "mark", "drop"}
    BY <1>1, <2>1, PendingMeans
  <2> QED BY <2>1, <2>2, <2>3 DEF RequestOK, Posts, Post, OnTask
<1>2. ASSUME NEW g \in Requests, OnTask(g, i, {"enqueue"})
      PROVE  g \in Makers /\ Life!Pending(g) /\ Call[g].id = i
  BY <1>2, CallOf, PendingMeans DEF Posts, Post, OnTask
<1>3. Life!Makers = Makers
  BY DEF Life!Makers, Makers
<1> QED BY <1>1, <1>2, <1>3 DEF Life!Making, Requests, Makers

LEMMA UnwantedIf ==
  ASSUME Kinds, NEW i \in Ids,
         \/ \E h \in Cancellers : OnTask(h, i, {"waiting", "recheck", "mark"})
         \/ \E h \in Resetters : req[h].pc \in {"waiting", "drop"}
  PROVE  Life!Unwanted(i)
<1>1. ASSUME NEW h \in Cancellers, OnTask(h, i, {"waiting", "recheck", "mark"})
      PROVE  Life!Pending(h) /\ Call[h].id = i
  BY <1>1, CallOf, PendingMeans DEF OnTask, Requests
<1>2. ASSUME NEW h \in Resetters, req[h].pc \in {"waiting", "drop"}
      PROVE  Life!Pending(h)
  BY <1>2, PendingMeans DEF Requests
<1> QED BY <1>1, <1>2 DEF Life!Unwanted

LEMMA SparedMeans ==
  /\ \A i : Life!Orderly(i) <=> Undisturbed(i)
  /\ \A i : Life!Clean(i) <=> Clean(i)
BY DEF Life!Orderly, Life!Clean, Life!Spared, Undisturbed, Clean, Spared

\* What it sees of a stream
LEMMA HeardMoves ==
  ASSUME StreamsTrue, NEW s \in Streams, NEW v, stream' = [stream EXCEPT ![s] = v]
  PROVE  Heard' = [Heard EXCEPT ![s] = Ending(v)]
<1>1. stream' = [t \in Streams |-> IF t = s THEN v ELSE stream[t]]
  BY DEF StreamsTrue
<1> QED BY <1>1 DEF Heard

LEMMA HeardStays ==
  ASSUME StreamsTrue, NEW s \in Streams, NEW v, stream' = [stream EXCEPT ![s] = v],
         v.pc # "ended", stream[s].pc # "ended"
  PROVE  UNCHANGED Heard
<1>1. Heard' = [Heard EXCEPT ![s] = Ending(v)]
  BY HeardMoves
<1>2. Ending(v) = Heard[s]
  BY DEF Heard, Ending
<1>3. Heard = [t \in Streams |-> Heard[t]]
  BY DEF Heard
<1> QED BY <1>1, <1>2, <1>3

LEMMA TellsUnheard ==
  ASSUME StreamsTrue, NEW i, Tells(i)
  PROVE  UNCHANGED Heard
<1>1. CASE UNCHANGED stream
  BY <1>1 DEF Heard
<1>2. ASSUME NEW e \in Events, stream' = Pushed(i, e)
      PROVE  UNCHANGED Heard
  <2>1. ASSUME NEW s \in Streams
        PROVE  Ending(stream'[s]) = Ending(stream[s])
    <3> DEFINE q == Enqueued(stream[s].queue, e)
    <3>1. stream'[s] = stream[s] \/ stream'[s] = [stream[s] EXCEPT !.queue = q]
      BY <1>2 DEF Pushed
    <3>2. stream[s] \in StreamRecords
      BY DEF StreamsTrue, StreamOK
    <3> HIDE DEF q
    <3> QED BY <3>1, <3>2 DEF Ending, StreamRecords
  <2> QED BY <2>1 DEF Heard
<1> QED BY <1>1, <1>2 DEF Tells

LEMMA ClearUnheard ==
  ASSUME StreamsTrue, NEW h, ClearAll(h)
  PROVE  UNCHANGED Heard
<1>1. ASSUME NEW s \in Streams
      PROVE  Ending(stream'[s]) = Ending(stream[s])
  <2>1. stream'[s] = [stream[s] EXCEPT !.listed = FALSE] /\ stream[s] \in StreamRecords
    BY DEF ClearAll, StreamsTrue, StreamOK
  <2> QED BY <2>1 DEF Ending, StreamRecords
<1> QED BY <1>1 DEF Heard

-----------------------------------------------------------------------------
(* The steps of the runs and their tickers are work on their task.           *)

MetAtCommit(i) == <<i, "late cancel">> \in hurt' \ hurt

\* Only a run that was told to stop notes that a cancel met it at its commit.
LEMMA LateCancels ==
  ASSUME NEW r \in Runs, NEW i,
         RunStep(r) \/ TickStep(r) \/ RunFault(r) \/ TickFault(r),
         MetAtCommit(i)
  PROVE  run[r].stop
<1>1. CASE RunStep(r)
  <2>1. ~UNCHANGED hurt
    BY DEF MetAtCommit
  <2>2. Timeout(r) \/ Unwind(r)
    BY <1>1, <2>1 DEF RunStep
  <2>3. Unwind(r) => run[r].stop
    BY DEF Unwind
  <2>4. Timeout(r) => hurt' \subseteq hurt \cup {<<run[r].id, "fault">>}
    BY DEF Timeout
  <2>5. <<i, "late cancel">> # <<run[r].id, "fault">>
    OBVIOUS
  <2> QED BY <2>2, <2>3, <2>4, <2>5 DEF MetAtCommit
<1>2. CASE TickStep(r) \/ TickFault(r)
  BY <1>2 DEF TickStep, TickFault, MetAtCommit
<1>3. CASE RunFault(r)
  BY <1>3 DEF RunFault, MetAtCommit
<1> QED BY <1>1, <1>2, <1>3

LEMMA NewHits ==
  ASSUME NEW before, NEW after, NEW i, NEW things, before \subseteq after,
         \A p \in after : p \in before \/ \E what \in things : p = <<i, what>>
  PROVE  after = before \cup ({i} \X {what \in things : <<i, what>> \in after \ before})
OBVIOUS

LEMMA WorkHits ==
  ASSUME IInv, NEW r \in Runs, RunMoves(r),
         \A j : MetAtCommit(j) => run[r].stop
  PROVE  \E things \in SUBSET {"fault", "late cancel"} :
           /\ Life!Hit(run[r].id, things)
           /\ "late cancel" \in things /\ Life!Spared(run[r].id, {"reset"}) => Life!Unwanted(run[r].id)
<1> SUFFICES ASSUME NEW i \in Ids, i = run[r].id
             PROVE  \E things \in SUBSET {"fault", "late cancel"} :
                      /\ Life!Hit(i, things)
                      /\ "late cancel" \in things /\ Life!Spared(i, {"reset"}) => Life!Unwanted(i)
  BY KindsOf DEF IInv, RunMoves
<1> DEFINE kinds == {"fault", "late cancel"}
           things == {what \in kinds : <<i, what>> \in hurt' \ hurt}
<1>1. hurt' = hurt \cup ({i} \X things)
  <2>1. /\ hurt \subseteq hurt'
        /\ \A p \in hurt' : p \in hurt \/ p \in {<<i, "fault">>, <<i, "late cancel">>}
    BY DEF RunMoves, HurtBy
  <2>2. \A p \in hurt' : p \in hurt \/ \E what \in kinds : p = <<i, what>>
    BY Zenon, <2>1
  <2> HIDE DEF kinds
  <2>3. hurt \subseteq hurt'
    BY <2>1
  <2>4. hurt' = hurt \cup ({i} \X {what \in kinds : <<i, what>> \in hurt' \ hurt})
    BY <2>2, <2>3, NewHits
  <2> QED BY <2>4
<1>2. ASSUME MetAtCommit(i), <<i, "reset">> \notin hurt
      PROVE  Life!Unwanted(i)
  <2>1. Calm /\ Kinds /\ Told(run[r]) /\ Live(r)
    BY <1>2, CalmIf DEF IInv, Told, RunMoves
  <2>2. i \in cancelled
    BY <2>1 DEF IInv, StopsCancelled
  <2>3. \/ \E h \in Cancellers : OnTask(h, i, {"waiting"})
        \/ \E h \in Resetters : req[h].pc = "waiting"
    BY <2>1, <2>2 DEF IInv, StopsAwaited
  <2> QED BY <2>1, <2>3, UnwantedIf DEF OnTask
<1>3. things \in SUBSET {"fault", "late cancel"} /\ ("late cancel" \in things => MetAtCommit(i))
  BY DEF MetAtCommit
<1> HIDE DEF things
<1> QED BY <1>1, <1>2, <1>3 DEF Life!Hit, Life!Spared

LEMMA WorkMaps ==
  ASSUME IInv, Posts, [Next]_vars, NEW r \in Runs, RunMoves(r), UNCHANGED Heard,
         \A j : MetAtCommit(j) => run[r].stop
  PROVE  Life!Next
<1> SUFFICES ASSUME NEW i \in Ids, i = run[r].id PROVE Life!Next
  BY KindsOf DEF IInv, RunMoves
<1> DEFINE a == row[i]  w == row'[i]
<1>1. /\ Kinds /\ TablesOK /\ row \in [Ids -> Rows] /\ life = "up" /\ UNCHANGED <<life, cancelled, req>> /\ Live(r)
      /\ row' = [row EXCEPT ![i] = w] /\ RowMoves(a, w, run'[r])
  BY DEF IInv, Kinds, TablesOK, RunMoves
<1>2. UNCHANGED <<Call, Heard>>
  BY <1>1 DEF Call
<1>3. State' = [State EXCEPT ![i] = Meaning(w.status)]
  BY <1>1, StateMoves
<1>4. \/ UNCHANGED State
      \/ /\ State[i] # "none"
         /\ Life!Orderly(i) => State[i] = "open" /\ ~Life!Making(i)
         /\ \E s \in {"open", "done", "failed"} : Life!Becomes(i, s)
  <2>1. CASE w.status = a.status
    <3>1. \A j \in Ids : row'[j].status = row[j].status
      BY <1>1, <2>1
    <3> QED BY <1>1, <3>1, StateStays
  <2>2. CASE w.status # a.status
    <3>1. w.status \in {"running", "done", "failed"} /\ a # NoRow
      BY <1>1, <2>2 DEF RowMoves
    <3>2. Meaning(w.status) \in {"open", "done", "failed"}
      BY <3>1 DEF Meaning
    <3>3. ASSUME Life!Orderly(i)
          PROVE  State[i] = "open" /\ ~Life!Making(i)
      <4>1. Undisturbed(i) /\ Calm
        BY <3>3, SparedMeans, CalmIf DEF Undisturbed, Spared, IInv
      <4>2. ~Finished(i)
        BY <2>2, <4>1, EndStays
      <4>3. State[i] = "open"
        BY <1>1, <3>1, <4>2, StateOf
      <4>4. ~\E g \in Requests : OnTask(g, i, {"enqueue"})
        BY <1>1, <4>1 DEF IInv, OneOwner, OnTask, Exists, Live
      <4> QED BY <1>1, <4>3, <4>4, MakingMeans
    <3>4. State[i] # "none"
      BY <1>1, <3>1, StateOf
    <3> QED BY <1>3, <3>2, <3>3, <3>4 DEF Life!Becomes
  <2> QED BY <2>1, <2>2
<1>5. \E things \in SUBSET {"fault", "late cancel"} :
        /\ Life!Hit(i, things)
        /\ "late cancel" \in things /\ Life!Spared(i, {"reset"}) => Life!Unwanted(i)
  BY WorkHits
<1>6. Life!Work(i)
  BY <1>2, <1>4, <1>5 DEF Life!Work
<1>7. i \in Life!Ids
  BY DEF Life!Ids
<1> QED BY <1>1, <1>6, <1>7 DEF Life!Next, Life!Serve

-----------------------------------------------------------------------------
(* The handlers                                                              *)

\* What a handler can do, while the server is up and stays up, to request h
Handled(h) ==
  \/ UNCHANGED Life!vars
  \/ Life!Copy(h) \/ Life!Created(h) \/ Life!Cancel(h) \/ Life!TooLate(h)
  \/ Life!Break(h) \/ Life!AskReset(h) \/ Life!Reset(h)
  \/ \E i \in Ids : Life!Create(h, i) \/ Life!AskCancel(h, i)

LEMMA HandledMaps ==
  ASSUME life = "up", UNCHANGED life, NEW h \in Requests, Handled(h)
  PROVE  [Life!Next]_(Life!vars)
<1>1. Life!Ids = Ids /\ Life!Requests = Requests
  BY DEF Life!Ids, Life!Requests, Life!Makers, Requests
<1> QED BY <1>1 DEF Handled, Life!Next, Life!Serve

LEMMA InsertMaps ==
  ASSUME IInv, Posts, NEW h \in Requests, NEW i \in Ids, Insert(h, i), h \in Makers
  PROVE  Life!Create(h, i)
<1> DEFINE n == [req[h] EXCEPT !.pc = "enqueue", !.id = i]
<1>1. /\ Kinds /\ TablesOK /\ row \in [Ids -> Rows] /\ RequestOK(h, req[h])
      /\ req[h].pc \in {"idle", "insert"} /\ req[h].id = NoId
  BY DEF IInv, Kinds, TablesOK, Insert, RequestOK
<1>2. \/ h \in Creators /\ Call[h] = Life!Idle
      \/ h \in Copiers /\ Life!Pending(h) /\ Call[h].id = Life!NoId
  <2>1. CASE h \in Creators
    <3>1. req[h].pc = "idle"
      BY <1>1, <2>1, RequestsAssumption DEF Posts, Post
    <3> QED BY <1>1, <2>1, <3>1 DEF Call, Asked, Settled, Life!Idle, Life!NoId
  <2>2. CASE h \notin Creators
    <3>1. h \in Copiers /\ req[h].pc = "insert"
      BY <2>2 DEF Makers, Insert
    <3> QED BY <1>1, <3>1, CallOf, PendingMeans DEF Life!NoId
  <2> QED BY <2>1, <2>2
<1>3. /\ \A j \in Ids : j >= i => State[j] = "none"
      /\ i > 1 => State[i - 1] # "none"
  BY <1>1, StateOf DEF Insert, NextId
<1>4. Life!Becomes(i, "open")
  <2>1. PICK p \in Ids \cup {NoId} : row' = [row EXCEPT ![i] = NewRow(p)]
    BY <1>1 DEF RequestOK, RequestRecords, Insert
  <2>2. State' = [State EXCEPT ![i] = Meaning(NewRow(p).status)]
    BY <1>1, <2>1, StateMoves
  <2>3. Meaning(NewRow(p).status) = "open"
    BY NewRowKind DEF Meaning
  <2> QED BY <2>2, <2>3 DEF Life!Becomes
<1>5. Call' = [Call EXCEPT ![h] = [at |-> "pending", id |-> i]]
  <2>1. n.pc = "enqueue" /\ n.id = i /\ req' = [req EXCEPT ![h] = n]
    BY <1>1 DEF Insert, Kinds, RequestRecords
  <2> HIDE DEF n
  <2>2. Asked(n) = [at |-> "pending", id |-> i]
    BY <2>1 DEF Asked, Settled
  <2> QED BY <1>1, <2>1, <2>2, CallMoves
<1>6. UNCHANGED <<Heard, hurt>>
  BY DEF Insert, Heard
<1>7. Life!Ids = Ids
  BY DEF Life!Ids
<1> QED BY <1>2, <1>3, <1>4, <1>5, <1>6, <1>7 DEF Life!Create

LEMMA CopyMaps ==
  ASSUME IInv, NEW h \in Copiers, NEW i \in Ids, CopyLoad(h, i)
  PROVE  Life!Copy(h)
<1>1. /\ Kinds /\ TablesOK /\ h \in Requests /\ RequestOK(h, req[h]) /\ req[h].pc = "idle" /\ req[h].id = NoId
      /\ UNCHANGED <<row, stream, hurt>>
  BY DEF IInv, Kinds, CopyLoad, RequestOK, Requests
<1>2. Call[h] = Life!Idle
  BY <1>1 DEF Call, Asked, Settled, Life!Idle, Life!NoId
<1>3. UNCHANGED <<State, Heard, hurt>>
  BY <1>1 DEF State, Heard
<1>4. Life!Ids = Ids
  BY DEF Life!Ids
<1>5. CASE row[i].status \in {"done", "failed"}
  <2>1. State[i] \in {"done", "failed"}
    BY <1>1, <1>5, StateOf
  <2>2. PICK p : req' = [req EXCEPT ![h].pc = "insert", ![h].parent = p]
    BY <1>5 DEF CopyLoad
  <2> DEFINE n == [req[h] EXCEPT !.pc = "insert", !.parent = p]
  <2>3. n.pc = "insert" /\ n.id = req[h].id /\ req' = [req EXCEPT ![h] = n]
    BY <1>1, <2>2 DEF Kinds, RequestRecords
  <2> HIDE DEF n
  <2>4. Life!Reply(h, "pending")
    BY <1>1, <2>3, GoesOnPending DEF Settled
  <2> QED BY <1>2, <1>3, <1>4, <2>1, <2>4 DEF Life!Copy
<1>6. CASE row[i].status \notin {"done", "failed"}
  <2>1. State[i] \notin {"done", "failed"}
    BY <1>1, <1>6, StateOf
  <2>2. Answer(h, "refused")
    BY <1>6 DEF CopyLoad
  <2>3. Life!Reply(h, "refused")
    BY <1>1, <2>2, Replies DEF Settled
  <2> QED BY <1>2, <1>3, <1>4, <2>1, <2>3 DEF Life!Copy
<1> QED BY <1>5, <1>6

LEMMA CancelLoadMaps ==
  ASSUME IInv, Posts, NEW h \in Cancellers, NEW i \in Ids, CancelLoad(h, i)
  PROVE  Life!AskCancel(h, i)
<1>1. /\ Kinds /\ TablesOK /\ h \in Requests /\ RequestOK(h, req[h]) /\ req[h].pc = "idle" /\ req[h].id = NoId
      /\ UNCHANGED <<row, stream>>
  BY DEF IInv, Kinds, CancelLoad, RequestOK, Requests
<1>2. Call[h] = Life!Idle
  BY <1>1 DEF Call, Asked, Settled, Life!Idle, Life!NoId
<1>3. UNCHANGED <<State, Heard>>
  BY <1>1 DEF State, Heard
<1>4. CASE ~Open(i)
  <2> DEFINE n == [req[h] EXCEPT !.pc = "refused", !.id = i]
  <2>1. n.pc = "refused" /\ n.id = i /\ req' = [req EXCEPT ![h] = n] /\ UNCHANGED hurt
    <3>1. req' = [req EXCEPT ![h].pc = "refused", ![h].id = i] /\ UNCHANGED hurt
      BY <1>4 DEF CancelLoad
    <3> QED BY <1>1, <3>1 DEF Kinds, RequestRecords
  <2> HIDE DEF n
  <2>2. Call' = [Call EXCEPT ![h] = [at |-> "refused", id |-> i]]
    BY <1>1, <2>1, CallMoves DEF Asked, Settled
  <2>3. State[i] # "open"
    BY <1>1, <1>4, StateOf
  <2> QED BY <1>2, <1>3, <2>1, <2>2, <2>3 DEF Life!AskCancel
<1>5. CASE Open(i)
  <2> DEFINE n == [req[h] EXCEPT !.id = i, !.runs = {tasks[i]} \ {NoRun},
                                 !.pc = IF tasks[i] = NoRun THEN "recheck" ELSE "waiting"]
  <2>1. n.pc \in {"recheck", "waiting"} /\ n.id = i /\ req' = [req EXCEPT ![h] = n]
    <3>1. req' = [req EXCEPT ![h].id = i, ![h].runs = {tasks[i]} \ {NoRun},
                             ![h].pc = IF tasks[i] = NoRun THEN "recheck" ELSE "waiting"]
      BY Zenon, <1>5 DEF CancelLoad
    <3> QED BY <1>1, <3>1 DEF Kinds, RequestRecords
  <2> HIDE DEF n
  <2>2. Call' = [Call EXCEPT ![h] = [at |-> "pending", id |-> i]]
    BY <1>1, <2>1, CallMoves DEF Asked, Settled
  <2>3. State[i] = "open"
    BY <1>1, <1>5, StateOf
  <2>4. Life!Hit(i, IF Life!Making(i) THEN {"early cancel"} ELSE {})
    <3>1. CASE Life!Making(i)
      <4>1. \E g \in Requests : req[g].pc = "enqueue" /\ req[g].id = i
        BY <1>1, <3>1, MakingMeans DEF OnTask
      <4>2. hurt' = hurt \cup {<<i, "early cancel">>}
        BY Zenon, <1>5, <4>1 DEF CancelLoad
      <4>3. \A what : {<<i, what>>} = {i} \X {what}
        OBVIOUS
      <4> QED BY Zenon, <3>1, <4>2, <4>3 DEF Life!Hit
    <3>2. CASE ~Life!Making(i)
      <4>1. ~\E g \in Requests : req[g].pc = "enqueue" /\ req[g].id = i
        BY <1>1, <3>2, MakingMeans DEF OnTask
      <4>2. hurt' = hurt
        BY Zenon, <1>5, <4>1 DEF CancelLoad
      <4>3. hurt = hurt \cup ({i} \X {})
        OBVIOUS
      <4> QED BY Zenon, <3>2, <4>2, <4>3 DEF Life!Hit
    <3> QED BY <3>1, <3>2
  <2> QED BY <1>2, <1>3, <2>2, <2>3, <2>4 DEF Life!AskCancel
<1> QED BY <1>4, <1>5

LEMMA BreakMaps ==
  ASSUME IInv, NEW h \in Requests, Answer(h, "broken"), UNCHANGED <<row, stream>>,
         req[h].pc \in {"enqueue", "recheck", "mark"},
         \/ row[req[h].id] = NoRow /\ UNCHANGED hurt
         \/ hurt' = hurt \cup {<<req[h].id, "fault">>}
  PROVE  Life!Break(h)
<1> SUFFICES ASSUME NEW i \in Ids, i = req[h].id PROVE Life!Break(h)
  BY DEF IInv, Kinds, RequestOK
<1>1. Kinds /\ TablesOK /\ Life!Pending(h) /\ Call[h].id = i
  BY CallOf, PendingMeans DEF IInv, Kinds
<1>2. Life!Reply(h, "broken")
  BY <1>1, Replies DEF Settled
<1>3. Life!Hit(i, {"fault"}) \/ (State[i] = "none" /\ UNCHANGED hurt)
  <2>1. {<<i, "fault">>} = {i} \X {"fault"}
    OBVIOUS
  <2> QED BY <1>1, <2>1, StateOf DEF Life!Hit
<1>4. UNCHANGED <<State, Heard>> /\ Life!Ids = Ids
  BY DEF State, Heard, Life!Ids
<1> QED BY <1>1, <1>2, <1>3, <1>4 DEF Life!Break

LEMMA EnqueueMaps ==
  ASSUME IInv, Posts, NEW h \in Requests, Enqueue(h)
  PROVE  Life!Break(h) \/ Life!Created(h)
<1> SUFFICES ASSUME NEW i \in Ids, i = req[h].id PROVE Life!Break(h) \/ Life!Created(h)
  BY DEF IInv, Kinds, RequestOK, Enqueue
<1>1. Kinds /\ TablesOK /\ Life!Pending(h) /\ Call[h].id = i /\ h \in Makers /\ OnTask(h, i, {"enqueue"})
      /\ UNCHANGED <<row, stream, hurt>>
  BY CallOf, PendingMeans DEF IInv, Kinds, Posts, Post, Enqueue, OnTask
<1>2. CASE row[i] = NoRow
  <2>1. Answer(h, "broken")
    BY <1>2 DEF Enqueue
  <2> QED BY <1>1, <1>2, <2>1, BreakMaps DEF OnTask
<1>3. CASE row[i] # NoRow
  <2>1. Life!Reply(h, "answered")
    BY <1>1, <1>3, Replies DEF Enqueue, Settled
  <2>2. State[i] # "none"
    BY <1>1, <1>3, StateOf
  <2>3. ASSUME Life!Orderly(i)
        PROVE  State[i] = "open"
    <3>1. ~Finished(i)
      BY <1>1, <2>3, SparedMeans DEF IInv, EndedIsIdle
    <3> QED BY <1>1, <2>2, <3>1, StateOf
  <2>4. UNCHANGED <<State, Heard>> /\ Life!Ids = Ids /\ Life!Makers = Makers
    BY <1>1 DEF State, Heard, Life!Ids, Life!Makers, Makers
  <2> QED BY <1>1, <2>1, <2>2, <2>3, <2>4 DEF Life!Created
<1> QED BY <1>2, <1>3

LEMMA CancelReturnsMaps ==
  ASSUME IInv, NEW h \in Requests, CancelReturns(h)
  PROVE  UNCHANGED Life!vars \/ life # life'
<1>1. /\ Kinds /\ req[h].pc = "waiting" /\ Answer(h, "recheck") /\ UNCHANGED <<row, stream, hurt>>
  BY DEF IInv, CancelReturns, WaitOver
<1>2. PICK n : req' = [req EXCEPT ![h] = n] /\ n.id = req[h].id /\ n.pc = "recheck"
  BY <1>1, AnswerKind DEF RequestPlaces
<1>3. UNCHANGED Call
  BY <1>1, <1>2, GoesOnPending DEF Settled
<1> QED BY <1>1, <1>3 DEF Life!vars, State, Heard

LEMMA CancelRecheckMaps ==
  ASSUME IInv, NEW h \in Requests, CancelRecheck(h)
  PROVE  \/ Life!Break(h) \/ Life!TooLate(h)
         \/ UNCHANGED Life!vars \/ life # life'
<1> SUFFICES ASSUME NEW i \in Ids, i = req[h].id
             PROVE  \/ Life!Break(h) \/ Life!TooLate(h)
                    \/ UNCHANGED Life!vars \/ life # life'
  BY DEF IInv, Kinds, RequestOK, CancelRecheck
<1>1. /\ Kinds /\ TablesOK /\ req[h].pc = "recheck" /\ h \in Cancellers /\ Life!Pending(h) /\ Call[h].id = i
      /\ UNCHANGED <<row, stream, hurt>>
  BY CallOf, PendingMeans DEF IInv, Kinds, RequestOK, CancelRecheck
<1>2. CASE row[i] = NoRow
  <2>1. Answer(h, "broken")
    BY <1>2, NoRowKind DEF CancelRecheck, Finished
  <2> QED BY <1>1, <1>2, <2>1, BreakMaps
<1>3. CASE row[i] # NoRow /\ Finished(i)
  <2>1. Life!Reply(h, "refused")
    BY <1>1, <1>3, Replies DEF CancelRecheck, Settled
  <2>2. State[i] \in Life!Ended
    BY <1>1, <1>3, StateOf DEF Life!Ended
  <2>3. UNCHANGED <<State, Heard>> /\ Life!Ids = Ids
    BY <1>1 DEF State, Heard, Life!Ids
  <2> QED BY <1>1, <2>1, <2>2, <2>3 DEF Life!TooLate
<1>4. CASE row[i] # NoRow /\ ~Finished(i)
  <2> DEFINE n == [req[h] EXCEPT !.pc = "mark", !.seen = row[i]]
  <2>1. n.pc = "mark" /\ n.id = req[h].id /\ req' = [req EXCEPT ![h] = n]
    <3>1. req' = [req EXCEPT ![h].pc = "mark", ![h].seen = row[i]]
      BY <1>4 DEF CancelRecheck
    <3> QED BY <1>1, <3>1 DEF Kinds, RequestRecords
  <2> HIDE DEF n
  <2>2. UNCHANGED Call
    BY <1>1, <2>1, GoesOnPending DEF Settled
  <2> QED BY <1>1, <2>2 DEF Life!vars, State, Heard
<1> QED BY <1>2, <1>3, <1>4

\* The commit of a cancel is the cancel.
LEMMA CancelCommitMaps ==
  ASSUME IInv, StreamsTrue, Posts, NEW h \in Requests, CancelCommit(h)
  PROVE  Life!Break(h) \/ Life!Cancel(h)
<1> SUFFICES ASSUME NEW i \in Ids, i = req[h].id PROVE Life!Break(h) \/ Life!Cancel(h)
  BY DEF IInv, Kinds, RequestOK, CancelCommit
<1> DEFINE b == req[h].seen  new == [b EXCEPT !.status = "cancelled"]
<1>1. /\ Kinds /\ TablesOK /\ req[h].pc = "mark" /\ h \in Cancellers /\ Life!Pending(h) /\ Call[h].id = i
      /\ OnTask(h, i, {"recheck", "mark"}) /\ OnTask(h, i, {"mark"}) /\ UNCHANGED hurt
  BY CallOf, PendingMeans DEF IInv, Kinds, RequestOK, CancelCommit, OnTask
<1>2. /\ b \in Rows /\ b.status \notin Terminal /\ row[i] \in Rows /\ row \in [Ids -> Rows]
  BY <1>1 DEF IInv, Kinds, RequestRecords, TablesOK, EndsPrepared
<1>3. new \in Rows /\ new.status = "cancelled" /\ new # b
  BY <1>2 DEF Rows
<1>4. CASE row[i] = NoRow
  <2>1. UpdateMisses(row[i], b, new)
    BY <1>3, <1>4 DEF UpdateMisses
  <2>2. Answer(h, "broken") /\ UNCHANGED <<row, stream>>
    BY <2>1 DEF CancelCommit
  <2> QED BY <1>1, <1>4, <2>2, BreakMaps
<1>5. CASE row[i] # NoRow
  <2>1. ~UpdateMisses(row[i], b, new)
    BY <1>5 DEF UpdateMisses
  <2>2. row' = [row EXCEPT ![i] = OrmUpdate(row[i], b, new)] /\ Push(i, "cancelled") /\ Answer(h, "cancelled")
    BY <1>2, <2>1 DEF CancelCommit
  <2> HIDE DEF new, b
  <2>3. OrmUpdate(row[i], b, new).status = "cancelled"
    BY <1>2, <1>3, <1>5, FlushKind
  <2>4. Life!Becomes(i, "cancelled")
    <3>1. State' = [State EXCEPT ![i] = Meaning(OrmUpdate(row[i], b, new).status)]
      BY <1>2, <2>2, StateMoves
    <3> QED BY <2>3, <3>1 DEF Life!Becomes, Meaning
  <2>5. State[i] # "none"
    BY <1>1, <1>5, StateOf
  <2>6. ASSUME Life!Orderly(i)
        PROVE  State[i] \in {"open", "cancelled"} /\ ~Life!Making(i)
    <3>1. Undisturbed(i)
      BY <2>6, SparedMeans
    <3>2. row[i].status \in {"pending", "running", "cancelled"} /\ \A g \in Requests : ~OnTask(g, i, {"enqueue"})
      BY <1>1, <3>1 DEF IInv, CancelsAlone
    <3> QED BY <1>1, <3>2, StateOf, MakingMeans DEF Open
  <2>7. Life!Reply(h, "cancelled") /\ Life!Ids = Ids
    BY <1>1, <2>2, Replies DEF Settled, Life!Ids
  <2>8. row'[i].status = "cancelled"
    BY <1>2, <2>2, <2>3
  <2>9. UNCHANGED Heard
    BY <2>2, <2>8, TellsEnd, TellsUnheard
  <2> QED BY <1>1, <2>4, <2>5, <2>6, <2>7, <2>9 DEF Life!Cancel
<1> QED BY <1>4, <1>5

LEMMA ClearMaps ==
  ASSUME IInv, StreamsTrue, NEW h \in Resetters, ClearAll(h), UNCHANGED row,
         req[h].pc \in {"idle", "waiting"}
  PROVE  Life!AskReset(h)
<1>1. Kinds /\ h \in Requests /\ RequestOK(h, req[h])
  BY DEF IInv, Kinds, Requests
<1>2. PICK n : req' = [req EXCEPT ![h] = n] /\ n.id = req[h].id /\ n.pc = "drop"
  BY <1>1, AnswerKind DEF ClearAll, RequestPlaces
<1>3. Life!Reply(h, "pending") /\ (req[h].pc = "waiting" => UNCHANGED Call)
  BY <1>1, <1>2, GoesOnPending DEF Settled
<1>4. Life!ResetHits /\ UNCHANGED <<State, Heard>>
  BY ClearUnheard DEF ClearAll, Life!ResetHits, Life!Ids, State
<1>5. req[h].pc = "idle" => Call[h] = Life!Idle
  BY <1>1 DEF RequestOK, Call, Asked, Settled, Life!Idle, Life!NoId
<1>6. req[h].pc = "waiting" => Life!Pending(h)
  BY <1>1, PendingMeans
<1> QED BY <1>3, <1>4, <1>5, <1>6 DEF Life!AskReset

LEMMA ResetBeginMaps ==
  ASSUME IInv, StreamsTrue, NEW h \in Resetters, ResetBegin(h)
  PROVE  Life!AskReset(h)
<1>1. Kinds /\ h \in Requests /\ RequestOK(h, req[h]) /\ req[h].pc = "idle" /\ UNCHANGED row
  BY DEF IInv, Kinds, Requests, ResetBegin
<1>2. CASE ClearAll(h)
  BY <1>1, <1>2, ClearMaps
<1>3. ASSUME NEW rs, req' = [req EXCEPT ![h].pc = "waiting", ![h].runs = rs], UNCHANGED <<stream, hurt>>
      PROVE  Life!AskReset(h)
  <2> DEFINE n == [req[h] EXCEPT !.pc = "waiting", !.runs = rs]
  <2>1. n.pc = "waiting" /\ n.id = req[h].id /\ req' = [req EXCEPT ![h] = n]
    BY <1>1, <1>3 DEF Kinds, RequestRecords
  <2> HIDE DEF n
  <2>2. Life!Reply(h, "pending")
    BY <1>1, <2>1, GoesOnPending DEF Settled
  <2>3. Call[h] = Life!Idle
    BY <1>1 DEF RequestOK, Call, Asked, Settled, Life!Idle, Life!NoId
  <2>4. UNCHANGED <<State, Heard>>
    BY <1>1, <1>3 DEF State, Heard
  <2> QED BY <1>3, <2>2, <2>3, <2>4 DEF Life!AskReset
<1> QED BY <1>2, <1>3 DEF ResetBegin

LEMMA ResetDropMaps ==
  ASSUME IInv, Posts, NEW h \in Requests, ResetDrop(h)
  PROVE  Life!Reset(h)
<1>1. /\ Kinds /\ h \in Resetters /\ req[h].pc = "drop" /\ Life!Pending(h)
  BY PendingMeans DEF IInv, Posts, Post, ResetDrop
<1>2. Life!Ids \X {"reset"} \subseteq hurt
  <2>1. \A i \in Ids : <<i, "reset">> \in hurt
    BY <1>1 DEF IInv, ResetMarks, Calm
  <2> QED BY <2>1 DEF Life!Ids
<1>3. State' = [i \in Life!Ids |-> "none"]
  BY NoRowKind DEF ResetDrop, State, Meaning, Life!Ids
<1>4. Life!Reply(h, "answered")
  BY <1>1, Replies DEF ResetDrop, Settled
<1>5. UNCHANGED <<Heard, hurt>>
  BY DEF ResetDrop, Heard
<1> QED BY <1>1, <1>2, <1>3, <1>4, <1>5 DEF Life!Reset

LEMMA ArriveMaps ==
  ASSUME IInv, StreamsTrue, Posts, NEW h \in Requests, Arrive(h)
  PROVE  [Life!Next]_(Life!vars)
<1>1. life = "up" /\ UNCHANGED life
  BY DEF Arrive, env
<1>2. Handled(h)
  BY InsertMaps, CopyMaps, CancelLoadMaps, ResetBeginMaps DEF Arrive, Handled, Makers
<1> QED BY <1>1, <1>2, HandledMaps

LEMMA HandlerStepMaps ==
  ASSUME IInv, StreamsTrue, Posts, NEW h \in Requests, HandlerStep(h)
  PROVE  [Life!Next]_(Life!vars)
<1>1. life = "up" /\ UNCHANGED life
  BY DEF HandlerStep, env
<1>2. ASSUME h \in Copiers /\ \E i \in Ids : Insert(h, i)
      PROVE  Handled(h)
  BY <1>2, InsertMaps DEF Handled, Makers
<1>3. ASSUME Enqueue(h) \/ CancelReturns(h) \/ CancelRecheck(h) \/ CancelCommit(h) \/ ResetDrop(h)
      PROVE  Handled(h)
  BY <1>1, <1>3, EnqueueMaps, CancelReturnsMaps, CancelRecheckMaps, CancelCommitMaps, ResetDropMaps DEF Handled
<1>4. ASSUME ResetReturns(h)
      PROVE  Handled(h)
  BY <1>4, ClearMaps DEF ResetReturns, WaitOver, Handled
<1> QED BY <1>1, <1>2, <1>3, <1>4, HandledMaps DEF HandlerStep

-----------------------------------------------------------------------------
(* Event streams, errors, crashes and restarts                               *)

LEMMA TellMaps ==
  ASSUME IInv, StreamsTrue, life = "up", NEW s \in Streams, NEW i \in Ids, NEW e \in Terminal,
         i = stream[s].id, stream[s].pc # "ended", StreamEnd(s, e), UNCHANGED <<life, row, req>>,
         \/ UNCHANGED hurt /\ e \in Truths[i]
         \/ hurt' = hurt \cup {<<i, "fault">>} /\ e = "failed"
  PROVE  Life!Next
<1>1. /\ Kinds /\ TablesOK /\ UNCHANGED <<State, Call>>
  BY DEF IInv, Kinds, State, Call
<1>2. Heard[s] = Life!Nothing
  BY DEF Heard, Ending, Life!Nothing, Life!NoId
<1>3. Heard' = [Heard EXCEPT ![s] = [id |-> i, end |-> e]]
  <2> DEFINE v == [NewStream EXCEPT !.pc = "ended", !.id = i, !.told = e]
  <2>1. stream' = [stream EXCEPT ![s] = v]
    BY DEF StreamEnd
  <2>2. v.pc = "ended" /\ v.id = i /\ v.told = e
    BY DEF NewStream
  <2> HIDE DEF v
  <2> QED BY <2>1, <2>2, HeardMoves DEF Ending
<1>4. \/ UNCHANGED hurt /\ (Life!Clean(i) => \/ State[i] = e
                                             \/ e = "failed" /\ State[i] = "cancelled"
                                             \/ e = "failed" /\ State[i] = "open" /\ Life!Unwanted(i))
      \/ e = "failed" /\ Life!Hit(i, {"fault"})
  <2>1. CASE UNCHANGED hurt /\ e \in Truths[i]
    <3>1. ASSUME Life!Clean(i)
          PROVE  \/ State[i] = e
                 \/ e = "failed" /\ State[i] = "cancelled"
                 \/ e = "failed" /\ State[i] = "open" /\ Life!Unwanted(i)
      <4>1. Clean(i) /\ Calm
        BY <3>1, SparedMeans, CalmIf DEF Clean, Spared, IInv
      <4>2. \/ row[i].status = e
            \/ e = "failed" /\ (row[i].status = "cancelled" \/ GaveUp(i))
        BY <2>1, <4>1 DEF Truths
      <4>3. CASE row[i].status \in {e, "cancelled"}
        BY <1>1, <4>2, <4>3, StateOf
      <4>4. CASE e = "failed" /\ GaveUp(i) /\ row[i].status \notin {"failed", "cancelled"}
        <5>1. row[i] # NoRow
          BY <4>1, <4>4 DEF GaveUp, IInv, OneOwner
        <5>2. Open(i) /\ i \in cancelled
          <6>1. row[i].status \in Statuses /\ row[i].status # "absent"
            BY <1>1, <5>1 DEF TablesOK, Rows
          <6> QED BY <4>4, <6>1 DEF Open, GaveUp
        <5>3. \/ \E h \in Requests : OnTask(h, i, {"waiting", "recheck", "mark"})
              \/ \E h \in Resetters : req[h].pc \in {"waiting", "drop"}
          BY <4>1, <5>2 DEF IInv, CancelsPending, Clean, Spared
        <5>4. \A h \in Requests : OnTask(h, i, {"waiting", "recheck", "mark"}) => h \in Cancellers \/ (h \in Resetters /\ req[h].pc = "waiting")
          BY <1>1 DEF Kinds, RequestOK, OnTask
        <5>5. Life!Unwanted(i)
          BY <1>1, <5>3, <5>4, UnwantedIf
        <5> QED BY <1>1, <4>4, <5>2, <5>5, StateOf
      <4> QED BY <4>2, <4>3, <4>4
    <3> QED BY <2>1, <3>1
  <2>2. CASE hurt' = hurt \cup {<<i, "fault">>} /\ e = "failed"
    <3>1. {<<i, "fault">>} = {i} \X {"fault"}
      OBVIOUS
    <3> QED BY <2>2, <3>1 DEF Life!Hit
  <2> QED BY <2>1, <2>2
<1>5. Life!Tell(s, i)
  BY <1>1, <1>2, <1>3, <1>4 DEF Life!Tell, Life!Ended
<1> QED BY <1>5 DEF Life!Next, Life!Serve, Life!Ids

\* The steps of a stream and its client: only an end is heard.
LEMMA StreamStepMaps ==
  ASSUME IInv, StreamsTrue, NEW s \in Streams, StreamStep(s) \/ StreamClient(s)
  PROVE  [Life!Next]_(Life!vars)
<1> SUFFICES ASSUME NEW v, v = stream[s], NEW i, i = v.id PROVE [Life!Next]_(Life!vars)
  OBVIOUS
<1>1. /\ life = "up" /\ UNCHANGED <<life, row, req, hurt>> /\ StreamOK(v, Truths, Kept)
      /\ v \in StreamRecords /\ v.queue \in Seq(Events)
  <2>1. life = "up" /\ UNCHANGED <<life, row, req, hurt>>
    BY DEF StreamStep, StreamClient, StreamFrame, env
  <2>2. StreamOK(v, Truths, Kept) /\ v \in StreamRecords
    BY DEF StreamsTrue, StreamOK
  <2> QED BY <2>1, <2>2 DEF StreamRecords
<1>2. ASSUME NEW w, stream' = [stream EXCEPT ![s] = w], w.pc # "ended", v.pc # "ended"
      PROVE  UNCHANGED Life!vars
  <2>1. UNCHANGED Heard
    BY <1>2, HeardStays
  <2> QED BY <1>1, <2>1 DEF Life!vars, State, Call
<1>3. ASSUME NEW e \in Terminal, StreamEnd(s, e), v.pc \in {"reread", "wait"}, e \in Truths[i]
      PROVE  Life!Next
  <2>1. i \in Ids
    BY <1>1, <1>3 DEF StreamOK
  <2> QED BY <1>1, <1>3, <2>1, TellMaps
<1>4. ASSUME NEW j \in Ids, Connect(s, j)
      PROVE  UNCHANGED Life!vars
  <2> DEFINE w == [NewStream EXCEPT !.pc = "connected", !.id = j, !.told = row[j].status]
  <2>1. w.pc = "connected"
    BY NewStreamKind DEF StreamRecords
  <2>2. stream' = [stream EXCEPT ![s] = w] /\ v.pc = "idle"
    BY <1>4 DEF Connect
  <2> HIDE DEF w
  <2> QED BY <1>2, <2>1, <2>2
<1>5. CASE Subscribe(s)
  <2> DEFINE w == [v EXCEPT !.pc = "reread", !.listed = TRUE]
  <2>1. w.pc = "reread"
    BY <1>1 DEF StreamRecords
  <2>2. v.pc = "connected" /\ stream' = [stream EXCEPT ![s] = w]
    BY <1>5 DEF Subscribe
  <2> HIDE DEF w
  <2> QED BY <1>2, <2>1, <2>2
<1>6. CASE StreamReread(s)
  <2> DEFINE status == IF row[i] = NoRow THEN v.told ELSE row[i].status
             w == [v EXCEPT !.pc = "wait", !.told = status]
  <2>1. v.pc = "reread" /\ i \in Ids /\ i \in Kept
    BY <1>1, <1>6 DEF StreamReread, StreamOK
  <2>2. CASE status \in Terminal
    <3>1. row[i] = NoRow => ~Clean(i)
      BY <2>1, CalmIf DEF Kept, Clean, Spared, IInv
    <3>2. status \in Truths[i]
      BY <2>1, <2>2, <3>1 DEF Truths
    <3>3. StreamEnd(s, status)
      BY <1>6, <2>2 DEF StreamReread
    <3> HIDE DEF status
    <3> QED BY <1>3, <2>1, <2>2, <3>2, <3>3
  <2>3. CASE status \notin Terminal
    <3>1. stream' = [stream EXCEPT ![s] = w]
      BY <1>6, <2>3 DEF StreamReread
    <3> HIDE DEF status
    <3>2. w.pc = "wait"
      BY <1>1 DEF StreamRecords
    <3> HIDE DEF w
    <3> QED BY <1>2, <2>1, <3>1, <3>2
  <2> QED BY <2>2, <2>3
<1>7. CASE StreamNext(s)
  <2>1. v.pc = "wait" /\ v.queue # <<>> /\ i \in Ids
    BY <1>1, <1>7 DEF StreamNext, StreamOK
  <2>2. Head(v.queue) \in Queued(v.queue)
    BY <1>1, <2>1, DequeuedKind
  <2>3. CASE Head(v.queue) \in Terminal
    <3>1. Head(v.queue) \in Truths[i] /\ StreamEnd(s, Head(v.queue))
      BY <1>1, <1>7, <2>2, <2>3 DEF StreamOK, StreamNext
    <3> QED BY <1>3, <2>1, <2>3, <3>1
  <2>4. CASE Head(v.queue) \notin Terminal
    <3> DEFINE w == [v EXCEPT !.queue = Tail(v.queue)]
    <3>1. w.pc = v.pc
      BY <1>1 DEF StreamRecords
    <3>2. stream' = [stream EXCEPT ![s] = w]
      BY <1>7, <2>4 DEF StreamNext
    <3> HIDE DEF w
    <3> QED BY <1>2, <2>1, <3>1, <3>2
  <2> QED BY <2>3, <2>4
<1>8. CASE Disconnect(s)
  <2> DEFINE w == [NewStream EXCEPT !.pc = "dead"]
  <2>1. w.pc = "dead"
    BY NewStreamKind DEF StreamRecords
  <2>2. stream' = [stream EXCEPT ![s] = w] /\ v.pc # "ended"
    BY <1>8 DEF Disconnect
  <2> HIDE DEF w
  <2> QED BY <1>2, <2>1, <2>2
<1> QED BY <1>4, <1>5, <1>6, <1>7, <1>8 DEF StreamStep, StreamClient

LEMMA FaultMaps ==
  ASSUME IInv, StreamsTrue, Posts, [Next]_vars, Fault
  PROVE  [Life!Next]_(Life!vars)
<1>1. life = "up" /\ UNCHANGED <<life, row, cancelled>> /\ hurt \subseteq hurt'
  BY HurtGrows DEF Fault
<1>2. ASSUME NEW r \in Runs, RunFault(r) \/ TickFault(r), UNCHANGED req
      PROVE  Life!Next
  <2>1. RunMoves(r)
    BY <1>1, <1>2, AllRunMoves DEF IInv
  <2>2. Tells(run[r].id)
    BY <1>1, <1>2, RunFaultTells, TickStepTells
  <2>3. UNCHANGED Heard
    BY <2>2, TellsUnheard
  <2>4. \A j : MetAtCommit(j) => run[r].stop
    BY <1>2, LateCancels
  <2> QED BY <2>1, <2>3, <2>4, WorkMaps
<1>3. ASSUME NEW s \in Streams, StreamFault(s), UNCHANGED req
      PROVE  Life!Next
  <2> SUFFICES ASSUME NEW i, i = stream[s].id PROVE Life!Next
    OBVIOUS
  <2>1. i \in Ids /\ stream[s].pc # "ended" /\ StreamEnd(s, "failed") /\ hurt' = hurt \cup {<<i, "fault">>}
    BY <1>3 DEF StreamsTrue, StreamOK, StreamFault
  <2> QED BY <1>1, <1>3, <2>1, TellMaps DEF Terminal
<1>4. ASSUME NEW h \in Requests, HandlerFault(h)
      PROVE  [Life!Next]_(Life!vars)
  <2>1. Life!Break(h)
    BY <1>1, <1>4, BreakMaps DEF HandlerFault
  <2> QED BY <1>1, <2>1, HandledMaps DEF Handled
<1> QED BY <1>2, <1>3, <1>4 DEF Fault

LEMMA RunStepMaps ==
  ASSUME IInv, StreamsTrue, Posts, [Next]_vars, NEW r \in Runs, RunStep(r) \/ TickStep(r)
  PROVE  Life!Next
<1>1. RunMoves(r)
  BY AllRunMoves DEF IInv
<1>2. Tells(run[r].id)
  BY HurtGrows, RunStepTells, TickStepTells
<1>3. UNCHANGED Heard
  BY <1>2, TellsUnheard
<1>4. \A j : MetAtCommit(j) => run[r].stop
  BY LateCancels
<1> QED BY <1>1, <1>3, <1>4, WorkMaps

LEMMA CrashMaps ==
  ASSUME IInv, Crash
  PROVE  Life!Crash
<1>1. Kinds /\ TablesOK /\ UNCHANGED row
  BY DEF IInv, Kinds, Crash
<1>2. life = "up" /\ life' = "down"
  BY DEF Crash
<1>3. Call' = [h \in Life!Requests |-> IF Life!Pending(h) THEN [at |-> "dead", id |-> Life!NoId] ELSE Call[h]]
  <2>1. ASSUME NEW h \in Requests
        PROVE  Asked(req'[h]) = IF Life!Pending(h) THEN [at |-> "dead", id |-> NoId] ELSE Call[h]
    <3>1. Life!Pending(h) <=> req[h].pc \notin Settled
      <4>1. req[h].pc \in RequestPlaces
        BY <1>1 DEF Kinds, RequestRecords
      <4> QED BY <1>1, <4>1, PendingMeans DEF RequestPlaces, Settled
    <3>2. CASE req[h].pc \in Settled
      BY <3>1, <3>2 DEF Crash, Call
    <3>3. CASE req[h].pc \notin Settled
      <4>1. req'[h] = [NewRequest EXCEPT !.pc = "dead"]
        BY <3>3 DEF Crash
      <4>2. req'[h].pc = "dead" /\ req'[h].id = NoId
        BY <4>1 DEF NewRequest
      <4> QED BY <3>1, <3>3, <4>2 DEF Asked, Settled
    <3> QED BY <3>2, <3>3
  <2>2. Call' = [h \in Requests |-> Asked(req'[h])]
    BY DEF Call
  <2>3. Life!Requests = Requests /\ Life!NoId = NoId
    BY DEF Life!Requests, Life!Makers, Life!NoId, Requests
  <2> QED BY <2>1, <2>2, <2>3
<1>4. hurt' = hurt \cup ({i \in Life!Ids : State[i] = "open"} \X {"crash"})
  <2>1. {i \in Ids : Open(i)} = {i \in Life!Ids : State[i] = "open"}
    BY <1>1, StateOf DEF Life!Ids
  <2> QED BY <2>1 DEF Crash
<1>5. UNCHANGED State
  BY <1>1 DEF State
<1>6. UNCHANGED Heard
  <2>1. ASSUME NEW s \in Streams
        PROVE  Ending(stream'[s]) = Ending(stream[s])
    <3>1. CASE stream[s].pc \in {"idle", "ended"}
      BY <3>1 DEF Crash
    <3>2. CASE stream[s].pc \notin {"idle", "ended"}
      <4>1. stream'[s] = [NewStream EXCEPT !.pc = "dead"]
        BY <3>2 DEF Crash
      <4>2. stream'[s].pc = "dead"
        BY <4>1 DEF NewStream
      <4> QED BY <3>2, <4>2 DEF Ending
    <3> QED BY <3>1, <3>2
  <2> QED BY <2>1 DEF Heard
<1> QED BY <1>2, <1>3, <1>4, <1>5, <1>6 DEF Life!Crash

LEMMA StartMaps ==
  ASSUME IInv, Start
  PROVE  Life!Start
<1>1. TablesOK /\ UNCHANGED <<req, stream, hurt>> /\ life = "down" /\ life' = "up"
  BY DEF IInv, Kinds, Start
<1>2. ASSUME NEW i \in Ids
      PROVE  Meaning(row'[i].status) = IF State[i] = "open" THEN "failed" ELSE State[i]
  <2>1. State[i] = "open" <=> Open(i)
    BY <1>1, StateOf
  <2>2. CASE Open(i)
    <3>1. row'[i] = [row[i] EXCEPT !.status = "failed"] /\ row[i] \in Rows
      BY <1>1, <2>2 DEF Start, TablesOK
    <3>2. row'[i].status = "failed"
      BY <3>1 DEF Rows
    <3> QED BY <2>1, <2>2, <3>2 DEF Meaning
  <2>3. CASE ~Open(i)
    BY <2>1, <2>3 DEF Start, State
  <2> QED BY <2>2, <2>3
<1>3. State' = [i \in Life!Ids |-> IF State[i] = "open" THEN "failed" ELSE State[i]]
  <2>1. State' = [i \in Ids |-> Meaning(row'[i].status)]
    BY DEF State
  <2> QED BY <1>2, <2>1 DEF Life!Ids
<1>4. UNCHANGED <<Call, Heard, hurt>>
  BY <1>1 DEF Call, Heard
<1> QED BY <1>1, <1>3, <1>4 DEF Life!Start

LEMMA InitMaps ==
  ASSUME Init
  PROVE  Life!Init
<1>1. TablesOK
  BY InitHolds DEF IInv, Kinds
<1>2. State \in [Life!Ids -> {"none", "open"} \cup Life!Ended]
  BY <1>1, StateOf DEF State, Life!Ids, Life!Ended
<1>3. Call = [h \in Life!Requests |-> Life!Idle]
  <2>1. Asked(NewRequest) = Life!Idle
    BY DEF Asked, NewRequest, Settled, Life!Idle, Life!NoId
  <2> QED BY <2>1 DEF Init, Call, Life!Requests, Life!Makers, Requests
<1>4. Heard = [s \in Streams |-> Life!Nothing]
  BY DEF Init, Heard, Ending, NewStream, Life!Nothing, Life!NoId
<1> QED BY <1>2, <1>3, <1>4 DEF Life!Init, Init

LEMMA NextMaps ==
  ASSUME IInv, StreamsTrue, Posts, [Next]_vars
  PROVE  [Life!Next]_(Life!vars)
<1>1. CASE \E r \in Runs : RunStep(r) \/ TickStep(r)
  BY <1>1, RunStepMaps
<1>2. CASE \E h \in Requests : Arrive(h) \/ HandlerStep(h)
  BY <1>2, ArriveMaps, HandlerStepMaps
<1>3. CASE Fault
  BY <1>3, FaultMaps
<1>4. CASE \E s \in Streams : StreamStep(s) \/ StreamClient(s)
  BY <1>4, StreamStepMaps
<1>5. CASE Crash \/ Start
  BY <1>5, CrashMaps, StartMaps DEF Life!Next
<1>6. CASE Quiescent \/ UNCHANGED vars
  BY <1>6 DEF Quiescent, vars, Life!vars, State, Call, Heard
<1> QED BY <1>1, <1>2, <1>3, <1>4, <1>5, <1>6 DEF Next

\* The service keeps the promise of TaskLife: whatever its coroutines, tickers and
\* handlers do between two awaits, whatever fails and whenever it crashes, each
\* step is one the promise allows or is not seen (_run_task, create_task,
\* cancel_task, clear_all_tasks, the event stream, fail_stale_tasks).
THEOREM ServiceKeepsPromise == Spec => ImplementsTaskLife
<1>1. Init => Life!Init
  BY InitMaps
<1>2. Init => Posts
  BY DEF Init, NewRequest, Posts, Post
<1>3. IInv /\ Posts /\ [Next]_vars => Posts'
  BY NextKeepsPosts DEF IInv
<1>4. IInv /\ StreamsTrue /\ Posts /\ [Next]_vars => [Life!Next]_(Life!vars)
  BY NextMaps
<1>5. Spec => []StreamsTrue
  BY StreamsStayTrue
<1> QED BY <1>1, <1>2, <1>3, <1>4, <1>5, Invariance, PTL DEF Spec, ImplementsTaskLife, Life!Spec
=============================================================================
