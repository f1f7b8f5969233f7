------------------------------- MODULE TaskLife -------------------------------
(***************************************************************************)
(* What the AI task service promises its users: a task that is created is  *)
(* open, then it is done, failed or cancelled once and for all, and every  *)
(* answer and every event stream says so in one step.  Coroutines, their   *)
(* tickers, sessions, flags and queues are not seen.  Four things weaken   *)
(* the promise for the task they hit (hurt): an I/O error, a crash, a      *)
(* reset, and a cancel that overtakes the create.                          *)
(***************************************************************************)
EXTENDS Naturals

CONSTANTS MaxIds, Creators, Copiers, Cancellers, Resetters, Streams

VARIABLES
  up,    \* the server is up
  state, \* what became of each task
  call,  \* per request: where it is, and the task it is about
  told,  \* per stream: the end it told of which task
  hurt   \* pairs <<id, what>>: what disturbed the task

vars == <<up, state, call, told, hurt>>

Ids == 1 .. MaxIds
NoId == 0
Makers == Creators \cup Copiers
Requests == Makers \cup Cancellers \cup Resetters
Ended == {"done", "failed", "cancelled"}
Idle == [at |-> "idle", id |-> NoId]
Nothing == [id |-> NoId, end |-> "nothing"]

Pending(h) == call[h].at = "pending"
Reply(h, at) == call' = [call EXCEPT ![h].at = at]
Hit(i, things) == hurt' = hurt \cup ({i} \X things)
Becomes(i, s) == state' = [state EXCEPT ![i] = s]

Spared(i, things) == \A what \in things : <<i, what>> \notin hurt
Orderly(i) == Spared(i, {"early cancel", "reset"})
Clean(i) == Orderly(i) /\ Spared(i, {"fault", "crash"})

\* Its create has not been answered yet.
Making(i) == \E g \in Makers : Pending(g) /\ call[g].id = i

\* Somebody is about to end the task.
Unwanted(i) ==
  \/ \E h \in Cancellers : Pending(h) /\ call[h].id = i
  \/ \E h \in Resetters : Pending(h)

-----------------------------------------------------------------------------

Init ==
  /\ up = FALSE
  /\ state \in [Ids -> {"none", "open"} \cup Ended]
  /\ call = [h \in Requests |-> Idle]
  /\ told = [s \in Streams |-> Nothing]
  /\ hurt = {}

\* A retry needs a failed task, a refinement a done one.
Copy(h) ==
  /\ h \in Copiers /\ call[h] = Idle
  /\ \/ Reply(h, "pending") /\ \E i \in Ids : state[i] \in {"done", "failed"}
     \/ Reply(h, "refused") /\ \E i \in Ids : state[i] \notin {"done", "failed"}
  /\ UNCHANGED <<state, told, hurt>>

\* The new task has the next id.
Create(h, i) ==
  /\ \/ h \in Creators /\ call[h] = Idle
     \/ h \in Copiers /\ Pending(h) /\ call[h].id = NoId
  /\ \A j \in Ids : j >= i => state[j] = "none"
  /\ i > 1 => state[i - 1] # "none"
  /\ Becomes(i, "open")
  /\ call' = [call EXCEPT ![h] = [at |-> "pending", id |-> i]]
  /\ UNCHANGED <<told, hurt>>

\* Nothing has become of a task when its create is answered.
Created(h) ==
  /\ h \in Makers /\ Pending(h)
  /\ \E i \in Ids : /\ call[h].id = i /\ state[i] # "none"
                    /\ Orderly(i) => state[i] = "open"
  /\ Reply(h, "answered")
  /\ UNCHANGED <<state, told, hurt>>

AskCancel(h, i) ==
  /\ h \in Cancellers /\ call[h] = Idle
  /\ \/ /\ state[i] # "open"
        /\ call' = [call EXCEPT ![h] = [at |-> "refused", id |-> i]] /\ UNCHANGED hurt
     \/ /\ state[i] = "open"
        /\ call' = [call EXCEPT ![h] = [at |-> "pending", id |-> i]]
        /\ Hit(i, IF Making(i) THEN {"early cancel"} ELSE {})
  /\ UNCHANGED <<state, told>>

\* "cancelled" is answered for a task that had not ended, or not otherwise.
Cancel(h) ==
  /\ h \in Cancellers /\ Pending(h)
  /\ \E i \in Ids : /\ call[h].id = i /\ state[i] # "none"
                    /\ Orderly(i) => state[i] \in {"open", "cancelled"} /\ ~Making(i)
                    /\ Becomes(i, "cancelled")
  /\ Reply(h, "cancelled")
  /\ UNCHANGED <<told, hurt>>

TooLate(h) ==
  /\ h \in Cancellers /\ Pending(h)
  /\ \E i \in Ids : call[h].id = i /\ state[i] \in Ended
  /\ Reply(h, "refused")
  /\ UNCHANGED <<state, told, hurt>>

\* A call about a task fails of an I/O error, or because the task is gone.
Break(h) ==
  /\ Pending(h)
  /\ \E i \in Ids : /\ call[h].id = i
                    /\ Hit(i, {"fault"}) \/ (state[i] = "none" /\ UNCHANGED hurt)
  /\ Reply(h, "broken")
  /\ UNCHANGED <<state, told>>

ResetHits == hurt' = hurt \cup (Ids \X {"reset"})

AskReset(h) ==
  /\ h \in Resetters
  /\ \/ call[h] = Idle /\ Reply(h, "pending") /\ (ResetHits \/ UNCHANGED hurt)
     \/ Pending(h) /\ ResetHits /\ UNCHANGED call
  /\ UNCHANGED <<state, told>>

\* It is over when every task is gone, and every task has been hit.
Reset(h) ==
  /\ h \in Resetters /\ Pending(h)
  /\ Ids \X {"reset"} \subseteq hurt
  /\ state' = [i \in Ids |-> "none"]
  /\ Reply(h, "answered")
  /\ UNCHANGED <<told, hurt>>

\* The work on a task brings an open one to its end, and only after the create
\* was answered.  It cannot meet a cancel when nobody asked for one.
Work(i) ==
  /\ UNCHANGED <<call, told>>
  /\ \E things \in SUBSET {"fault", "late cancel"} :
       /\ Hit(i, things)
       /\ "late cancel" \in things /\ Spared(i, {"reset"}) => Unwanted(i)
  /\ \/ UNCHANGED state
     \/ /\ state[i] # "none"
        /\ Orderly(i) => state[i] = "open" /\ ~Making(i)
        /\ \E s \in {"open", "done", "failed"} : Becomes(i, s)

\* A stream tells the end there was; "failed" also for a task somebody is about
\* to end, or has cancelled.
Tell(s, i) ==
  /\ told[s] = Nothing
  /\ \E e \in Ended :
       /\ told' = [told EXCEPT ![s] = [id |-> i, end |-> e]]
       /\ \/ UNCHANGED hurt /\ (Clean(i) => \/ state[i] = e
                                            \/ e = "failed" /\ state[i] = "cancelled"
                                            \/ e = "failed" /\ state[i] = "open" /\ Unwanted(i))
          \/ e = "failed" /\ Hit(i, {"fault"})
  /\ UNCHANGED <<state, call>>

Crash ==
  /\ up /\ up' = FALSE
  /\ call' = [h \in Requests |-> IF Pending(h) THEN [at |-> "dead", id |-> NoId] ELSE call[h]]
  /\ hurt' = hurt \cup ({i \in Ids : state[i] = "open"} \X {"crash"})
  /\ UNCHANGED <<state, told>>

\* No task is left open by the process before.
Start ==
  /\ ~up /\ up' = TRUE
  /\ state' = [i \in Ids |-> IF state[i] = "open" THEN "failed" ELSE state[i]]
  /\ UNCHANGED <<call, told, hurt>>

Serve ==
  /\ up /\ UNCHANGED up
  /\ \/ \E i \in Ids : Work(i)
     \/ \E h \in Requests : \/ Copy(h) \/ Created(h) \/ Cancel(h) \/ TooLate(h)
                            \/ Break(h) \/ AskReset(h) \/ Reset(h)
     \/ \E h \in Requests, i \in Ids : Create(h, i) \/ AskCancel(h, i)
     \/ \E s \in Streams, i \in Ids : Tell(s, i)

Next == Serve \/ Crash \/ Start

Spec == Init /\ [][Next]_vars
=============================================================================
