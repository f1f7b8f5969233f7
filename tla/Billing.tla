-------------------------------- MODULE Billing --------------------------------
(***************************************************************************)
(* What a task of the AI service is charged (app/services/ai_service.py):  *)
(* build_usage turns what a provider reports of one call of the model into *)
(* tokens and a cost, merge_usage sums the calls of a task one by one.     *)
(***************************************************************************)
EXTENDS Integers, Sequences

None == -1 \* an absent field, or one of a wrong type or sign
Known(n) == n # None

CONSTANTS
  Configs,  \* model configurations
  Raws,     \* what a provider may report of a call
  Times,    \* of requests: day of the week (Monday is 0), hour
  Guesses,  \* of the tokens of a text: a quarter of its characters
  MaxCalls  \* bound

Amounts == Nat \cup {None}

\* prices are set together or not at all (complete_manual_price_pair)
ASSUME BillingAssumption ==
  /\ Configs \subseteq [official : BOOLEAN, model : STRING, currency : STRING, priceIn : Amounts, priceOut : Amounts]
  /\ Raws \subseteq [input : Amounts, output : Amounts, hit : Amounts, miss : Amounts, cost : Amounts, currency : STRING]
  /\ Guesses \subseteq Nat /\ MaxCalls \in Nat

VARIABLES
  calls, \* of the task so far
  usage  \* its column: the summary of them

-----------------------------------------------------------------------------
(* One call.  An amount is in thousandths of the currency per million tokens. *)

\* (cache hit, cache miss, output), outside the peak hours
Prices(currency, model) ==
  CASE <<currency, model>> = <<"CNY", "flash">> -> <<50, 1500, 4500>>
    [] <<currency, model>> = <<"CNY", "pro">> -> <<150, 4500, 13500>>
    [] <<currency, model>> = <<"USD", "flash">> -> <<7, 220, 660>>
    [] <<currency, model>> = <<"USD", "pro">> -> <<22, 660, 1980>>
    [] OTHER -> <<>>

\* twice the price on weekdays from 1 to 4 and from 6 to 10 UTC
Rate(day, hour) == IF day < 5 /\ hour \in (1 .. 3) \cup (6 .. 9) THEN 2 ELSE 1

Cached(raw) == Known(raw.hit) /\ Known(raw.miss)

Tokens(raw, guessIn, guessOut) ==
  [input |-> IF Known(raw.input) THEN raw.input
             ELSE IF Cached(raw) THEN raw.hit + raw.miss ELSE guessIn,
   output |-> IF Known(raw.output) THEN raw.output ELSE guessOut,
   estimated |-> ~Known(raw.output) \/ (~Known(raw.input) /\ ~Cached(raw))]

Split(raw, t) == Cached(raw) /\ raw.hit + raw.miss = t.input /\ ~t.estimated

Priced(cfg, raw, t, at) ==
  LET p == Prices(cfg.currency, cfg.model) IN
  IF Known(raw.cost) THEN [cost |-> raw.cost, currency |-> raw.currency, source |-> "provider"]
  ELSE IF cfg.official /\ p # <<>>
  THEN IF Split(raw, t)
       THEN [cost |-> Rate(at[1], at[2]) * (raw.hit * p[1] + raw.miss * p[2] + t.output * p[3]),
             currency |-> cfg.currency, source |-> "official"]
       ELSE [cost |-> None, currency |-> cfg.currency, source |-> "unknown"]
  ELSE IF Known(cfg.priceIn) /\ Known(cfg.priceOut)
  THEN [cost |-> t.input * cfg.priceIn + t.output * cfg.priceOut, currency |-> cfg.currency, source |-> "config"]
  ELSE [cost |-> None, currency |-> cfg.currency, source |-> "unknown"]

BuildUsage(cfg, raw, at, guessIn, guessOut) ==
  LET t == Tokens(raw, guessIn, guessOut)  p == Priced(cfg, raw, t, at) IN
  [input |-> t.input, output |-> t.output, total |-> t.input + t.output, estimated |-> t.estimated,
   hit |-> IF Cached(raw) THEN raw.hit ELSE None, miss |-> IF Cached(raw) THEN raw.miss ELSE None,
   cost |-> p.cost, currency |-> p.currency, source |-> p.source, calls |-> <<>>]

-----------------------------------------------------------------------------
(* All calls of a task *)

NoUsage == [calls |-> <<>>, input |-> None]

\* individual_calls
Calls(u) == IF u = NoUsage THEN <<>> ELSE IF u.calls # <<>> THEN u.calls ELSE <<u>>

Added(ns) ==
  LET upTo[n \in 0 .. Len(ns)] == IF n = 0 THEN 0 ELSE upTo[n - 1] + ns[n]
  IN  upTo[Len(ns)]
Total(cs, Of(_)) == Added([n \in DOMAIN cs |-> Of(cs[n])])
Every(cs, P(_)) == \A n \in DOMAIN cs : P(cs[n])

\* mutant: a call that failed to tell its cost counts as free
SumOfCosts_Free(cs, currency) == Total(cs, LAMBDA c : IF Known(c.cost) THEN c.cost ELSE 0)

SumOfCosts(cs, currency) ==
  IF Every(cs, LAMBDA c : Known(c.cost) /\ c.currency = currency) THEN Total(cs, LAMBDA c : c.cost) ELSE None

\* A retry is billed too.
Summary(cs, currency) ==
  LET cost == SumOfCosts(cs, currency)  last == cs[Len(cs)] IN
  [input |-> Total(cs, LAMBDA c : c.input), output |-> Total(cs, LAMBDA c : c.output),
   total |-> Total(cs, LAMBDA c : c.total), estimated |-> ~Every(cs, LAMBDA c : ~c.estimated),
   hit |-> IF Every(cs, LAMBDA c : Known(c.hit)) THEN Total(cs, LAMBDA c : c.hit) ELSE None,
   miss |-> IF Every(cs, LAMBDA c : Known(c.miss)) THEN Total(cs, LAMBDA c : c.miss) ELSE None,
   cost |-> cost, currency |-> last.currency, calls |-> cs,
   source |-> IF cost = None THEN "unknown"
              ELSE IF Every(cs, LAMBDA c : c.source = cs[1].source) THEN last.source ELSE "mixed"]

MergeUsage(previous, current) == Summary(Calls(previous) \o Calls(current), current.currency)

\* A task whose calls are merged one after the other
Merged(cs) ==
  LET upTo[n \in 0 .. Len(cs)] == IF n = 0 THEN NoUsage ELSE MergeUsage(upTo[n - 1], cs[n])
  IN  upTo[Len(cs)]

-----------------------------------------------------------------------------
BillNothing == calls = <<>> /\ usage = NoUsage

\* The model has answered: record_usage of _run_task, or a retry within the call.
BillCall ==
  /\ Len(calls) < MaxCalls
  /\ \E cfg \in Configs, raw \in Raws, at \in Times, guessIn, guessOut \in Guesses :
       LET u == BuildUsage(cfg, raw, at, guessIn, guessOut)
       IN  calls' = Append(calls, u) /\ usage' = MergeUsage(usage, u)

BillingSpec == BillNothing /\ [][BillCall]_<<calls, usage>>

\* merge_usage bills every call once: the order of retries decides nothing but
\* the currency, summaries merge like their calls, and the sum is known only
\* if every cost is, in one currency; and an official price is only applied to
\* token counts that were reported and add up (build_usage "不伪造精确费用").
BillsEveryCall ==
  calls # <<>> =>
    /\ \A i \in DOMAIN calls : LET c == calls[i] IN
         c.source = "official" => ~c.estimated /\ c.hit + c.miss = c.input
    /\ usage.calls = calls
    /\ usage.total = Total(calls, LAMBDA c : c.input) + Total(calls, LAMBDA c : c.output)
    /\ Known(usage.cost) => \A i, j \in DOMAIN calls :
         Known(calls[i].cost) /\ calls[i].currency = calls[j].currency
    /\ \A n \in 1 .. Len(calls) - 1 :
         MergeUsage(Merged(SubSeq(calls, 1, n)), Merged(SubSeq(calls, n + 1, Len(calls)))) = usage
================================================================================
