------------------------------ MODULE WebSession ------------------------------
(***************************************************************************)
(* The login of the Streamlit front end (app.py, app/frontend_cookie.py    *)
(* and its component static/session_cookie/index.html).  A tab keeps the   *)
(* user and the backend's token in its Streamlit session, which a reload   *)
(* loses; a browser cookie, written by the component in an iframe, brings  *)
(* the login back.  A run of the script cannot see the browser's cookies:  *)
(* it sees those sent when the tab was loaded (ctx) and what the component *)
(* has reported.  Runs, the component, page calls and the backend          *)
(* interleave; several tabs share the cookie.                              *)
(***************************************************************************)
EXTENDS Naturals

CONSTANTS Tabs, Tokens, Users,
  Owner,    \* [Tokens -> the user who logs in with it]
  MaxEvents \* bound: outages, reloads, ends of a session, role changes and wrong passwords

ASSUME WebAssumption ==
  "none" \notin Tokens /\ Owner \in [Tokens -> Users] /\ MaxEvents \in Nat

VARIABLES
  cookie,   \* the browser's cookie, a token or "none"
  accepts,  \* the browser keeps cookies
  live,     \* sessions the backend knows
  banned,   \* users who are; their sessions stay
  up,       \* the backend can be reached
  tab,      \* [Tabs -> the Streamlit session and what the tab shows]
  fresh,    \* tokens not given out yet
  told,     \* ghost: tabs told to forget the login, by a logout, a 401 or a 403
  left,     \* ghost: [Tabs -> the login whose logout the backend acknowledged last,
             \* "none" after another login]
  barred,   \* ghost: tabs whose login of the load was refused to a banned user
  disturbed, \* ghost: a logout, a wrong password, a change of role, the end of a session
             \* or a second login
  events    \* what MaxEvents counts

browser == <<cookie, accepts>>
backend == <<live, banned, up, fresh>>
ghosts == <<told, left, barred, disturbed>>
vars == <<browser, backend, tab, ghosts, events>>

NoToken == "none"
NoValue == [present |-> FALSE, of |-> "nothing"]  \* the component has not reported
NoArgs == [token |-> NoToken, clear |-> FALSE]
NewTab(c) == [me |-> NoToken, held |-> NoToken, ctx |-> c, flag |-> FALSE, confirmed |-> NoToken,
              value |-> NoValue, args |-> NoArgs, view |-> "run"]

Event == events < MaxEvents /\ events' = events + 1

\* _clear_session: what is shown stays until the next run
Cleared(s) == [s EXCEPT !.me = NoToken, !.held = NoToken, !.confirmed = NoToken, !.flag = TRUE]

-----------------------------------------------------------------------------
(* A run of the script, to the point where the page is run *)

\* _restore_login: the token of the load is tried; no connection is no answer
Tries(s) == s.me = NoToken /\ s.ctx # NoToken
Banned(s) == s.ctx \in live /\ Owner[s.ctx] \in banned
Denied(s) == Tries(s) /\ up /\ (s.ctx \notin live \/ Banned(s))
\* mutant: any failure of the call ends the login
Restored_Strict(s) ==
  IF Tries(s) /\ (~up \/ Denied(s)) THEN Cleared(s)
  ELSE IF Tries(s) THEN [s EXCEPT !.held = s.ctx, !.me = s.ctx] ELSE s

Restored(s) ==
  CASE Denied(s) -> Cleared(s)
    [] Tries(s) /\ ~up -> [s EXCEPT !.held = s.ctx]
    [] Tries(s) /\ up /\ ~Denied(s) -> [s EXCEPT !.held = s.ctx, !.me = s.ctx]
    [] OTHER -> s

\* mutant: nobody waits for the component
Confirmed_Early(s) == TRUE

\* the wait for the component ends when the cookie of the load, an earlier
\* confirmation or the report is about this token
Confirmed(s) == s.ctx = s.me \/ s.confirmed = s.me \/ s.value = [present |-> TRUE, of |-> s.me]
Unsaved(s) == s.value = [present |-> FALSE, of |-> s.me]

Run(x) ==
  /\ tab[x].view = "run"
  /\ LET s == Restored(tab[x])
         known == s.me # NoToken
     IN  tab' = [tab EXCEPT ![x] = [s EXCEPT
           !.args = [token |-> IF known THEN s.held ELSE NoToken, clear |-> s.flag], !.flag = FALSE,
           !.confirmed = IF known /\ Confirmed(s) THEN s.me ELSE @,
           !.view = CASE ~known /\ Tries(s) /\ ~up -> "unavailable"
                      [] ~known /\ ~(Tries(s) /\ ~up) -> "guest"
                      [] known /\ ~Confirmed(s) /\ ~Unsaved(s) -> "saving"
                      [] OTHER -> "page"]]
  /\ told' = IF Denied(tab[x]) THEN told \cup {x} ELSE IF tab[x].me # NoToken THEN told \ {x} ELSE told
  /\ barred' = IF Denied(tab[x]) /\ Banned(tab[x]) THEN barred \cup {x} ELSE barred
  /\ UNCHANGED <<browser, backend, left, disturbed, events>>

\* api(), as the pages call it: only a 401 ends the login
PageCall(x) ==
  /\ tab[x].view = "page"
  /\ LET refused == up /\ tab[x].held \notin live IN
     /\ tab' = [tab EXCEPT ![x] = [IF refused THEN Cleared(@) ELSE @ EXCEPT !.view = "shown"]]
     /\ told' = IF refused THEN told \cup {x} ELSE told
  /\ UNCHANGED <<browser, backend, left, barred, disturbed, events>>

\* any widget; a link to another page mounts the component anew
Interact(x) ==
  /\ tab[x].view \in {"shown", "guest", "unavailable"}
  /\ \E v \in {NoValue, tab[x].value} : tab' = [tab EXCEPT ![x].view = "run", ![x].value = v]
  /\ UNCHANGED <<browser, backend, ghosts, events>>

\* a tab is opened, or reloaded as a whole
Load(x) ==
  /\ \/ tab[x].view = "closed" /\ UNCHANGED events
     \/ tab[x].view # "closed" /\ Event
  /\ tab' = [tab EXCEPT ![x] = NewTab(cookie)]
  /\ told' = told \ {x} /\ barred' = barred \ {x}
  /\ left' = IF cookie \in live THEN [left EXCEPT ![x] = NoToken] ELSE left
  /\ UNCHANGED <<browser, backend, disturbed>>

-----------------------------------------------------------------------------
(* page_login, page_register's second half, and the button of the sidebar *)

\* The run that brought the tab here is the one that handles the form.
Login(x) ==
  /\ tab[x].view = "guest" /\ up
  /\ \E t \in fresh :
       /\ Owner[t] \notin banned
       /\ live' = live \cup {t} /\ fresh' = fresh \ {t}
       /\ tab' = [tab EXCEPT ![x] = [@ EXCEPT !.me = t, !.held = t, !.flag = FALSE, !.view = "run"]]
       /\ disturbed' = (disturbed \/ fresh # Tokens)
  /\ left' = [left EXCEPT ![x] = NoToken]
  /\ UNCHANGED <<browser, banned, up, told, barred, events>>

\* a wrong password is a 401 too
WrongPassword(x) ==
  /\ tab[x].view = "guest" /\ up /\ Event
  /\ tab' = [tab EXCEPT ![x] = Cleared(@)]
  /\ told' = told \cup {x} /\ disturbed' = TRUE
  /\ UNCHANGED <<browser, backend, left, barred>>

\* mutant: the button forgets the login, the backend is not told
Logout_Local(x) ==
  /\ tab[x].view = "shown" /\ tab[x].me # NoToken
  /\ tab' = [tab EXCEPT ![x] = [Cleared(@) EXCEPT !.view = "run"]]
  /\ told' = told \cup {x} /\ disturbed' = TRUE
  /\ left' = IF up THEN [left EXCEPT ![x] = tab[x].me] ELSE left
  /\ UNCHANGED <<browser, live, banned, up, fresh, barred, events>>

\* an error of the call is ignored
Logout(x) ==
  /\ tab[x].view = "shown" /\ tab[x].me # NoToken
  /\ live' = IF up THEN live \ {tab[x].held} ELSE live
  /\ tab' = [tab EXCEPT ![x] = [Cleared(@) EXCEPT !.view = "run"]]
  /\ told' = told \cup {x} /\ disturbed' = TRUE
  /\ left' = IF up THEN [left EXCEPT ![x] = tab[x].me] ELSE left
  /\ UNCHANGED <<browser, banned, up, fresh, barred, events>>

-----------------------------------------------------------------------------
(* The component: it acts on the last arguments it was given, and a report
   that differs from the last one starts a run.                           *)

Report(x, v) == tab' = [tab EXCEPT ![x] =
  [tab[x] EXCEPT !.args = NoArgs, !.value = v, !.view = IF v # tab[x].value THEN "run" ELSE tab[x].view]]

\* mutant: a refused cookie is not reported
Component_OnlySuccess(x) ==
  /\ tab[x].args # NoArgs
  /\ LET a == tab[x].args IN
     IF a.token # NoToken /\ accepts
     THEN cookie' = a.token /\ Report(x, [present |-> TRUE, of |-> a.token])
     ELSE IF a.token = NoToken /\ cookie # NoToken
     THEN cookie' = NoToken /\ Report(x, [present |-> FALSE, of |-> "nothing"])
     ELSE tab' = [tab EXCEPT ![x].args = NoArgs] /\ UNCHANGED cookie
  /\ UNCHANGED <<accepts, backend, ghosts, events>>

Component(x) ==
  /\ tab[x].args # NoArgs
  /\ LET a == tab[x].args IN
     IF a.token # NoToken
     THEN /\ cookie' = IF accepts THEN a.token ELSE cookie
          /\ Report(x, [present |-> accepts, of |-> a.token])
     ELSE IF cookie # NoToken
     THEN cookie' = NoToken /\ Report(x, [present |-> FALSE, of |-> "nothing"])
     ELSE tab' = [tab EXCEPT ![x].args = NoArgs] /\ UNCHANGED cookie
  /\ UNCHANGED <<accepts, backend, ghosts, events>>

-----------------------------------------------------------------------------
(* The backend *)

Outage ==
  /\ \/ up /\ Event
     \/ ~up /\ UNCHANGED events
  /\ up' = ~up
  /\ UNCHANGED <<browser, live, banned, fresh, tab, ghosts>>

\* a session expires or is lost in a reset
Die ==
  /\ Event /\ disturbed' = TRUE
  /\ \E t \in live : live' = live \ {t}
  /\ UNCHANGED <<browser, banned, up, fresh, tab, told, left, barred>>

\* an administrator changes the role of a user, to "banned" or back; the user's
\* sessions stay
ChangeRole ==
  /\ Event /\ disturbed' = TRUE
  /\ \E u \in Users : banned' \in {banned \cup {u}, banned \ {u}} \ {banned}
  /\ UNCHANGED <<browser, live, up, fresh, tab, told, left, barred>>

-----------------------------------------------------------------------------
Init ==
  /\ cookie = NoToken /\ accepts \in BOOLEAN
  /\ live = {} /\ banned = {} /\ up = TRUE /\ fresh = Tokens
  /\ tab = [x \in Tabs |-> [NewTab(NoToken) EXCEPT !.view = "closed"]]
  /\ told = {} /\ left = [x \in Tabs |-> NoToken] /\ barred = {} /\ disturbed = FALSE
  /\ events = 0

Next ==
  \/ \E x \in Tabs : \/ Run(x) \/ PageCall(x) \/ Interact(x) \/ Load(x)
                     \/ Login(x) \/ WrongPassword(x) \/ Logout(x) \/ Component(x)
  \/ Outage \/ Die \/ ChangeRole

\* Streamlit runs the script it was asked to run, the browser renders
Fairness == \A x \in Tabs : WF_vars(Run(x)) /\ WF_vars(Component(x)) /\ WF_vars(PageCall(x))

WebSpec == Init /\ [][Next]_vars /\ Fairness

-----------------------------------------------------------------------------
(* Properties *)

\* write_session_cookie clears only for a tab that pressed "logout" or was
\* answered 401, or 403 on a reload: an outage never takes the cookie away.
ClearedOnlyWhenTold ==
  \A x \in Tabs : tab[x].args.token = NoToken /\ tab[x].args.clear => x \in told

\* A login that nothing disturbed is never lost: where the cookie was reported
\* as stored it stays, and a tab that was loaded with it never asks for the
\* password, whatever the backend's outages and the reloads of both tabs.
LoginSurvives ==
  ~disturbed => \A x \in Tabs :
    /\ tab[x].confirmed # NoToken => cookie = tab[x].confirmed
    /\ tab[x].view = "guest" => tab[x].ctx = NoToken

\* A tab whose logout reached the backend does not come back logged in, neither
\* from the cookie it was loaded with nor after a reload, before a new login
\* or a reload with the cookie of another one.  One tab does: where the user it
\* was loaded for was banned and somebody logged in and out instead, the cookie
\* of the load brings that user back once the ban is lifted; never the login
\* that was left.
LogoutEnds == \A x \in Tabs : left[x] # NoToken /\ tab[x].me # NoToken =>
  x \in barred /\ tab[x].me = tab[x].ctx /\ tab[x].me # left[x]

\* Nobody stays in front of "saving the login" for ever, also when the
\* component is mounted anew and when the browser refuses cookies.
SavingEnds == \A x \in Tabs : tab[x].view = "saving" ~> tab[x].view # "saving"
=============================================================================
