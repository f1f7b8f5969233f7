---------------------------- MODULE WebSessionProofs ----------------------------
(***************************************************************************)
(* The login of the front end for any number of tabs, logins, outages,     *)
(* reloads and ends of sessions.                                           *)
(***************************************************************************)
EXTENDS WebSession, TLAPS

Known == Tokens \cup {NoToken}
Views == {"closed", "run", "page", "shown", "guest", "unavailable", "saving"}
TabRecords ==
  [me : Known, held : Known, ctx : Known, flag : BOOLEAN, confirmed : Known,
   value : [present : BOOLEAN, of : Tokens \cup {"nothing"}],
   args : [token : Known, clear : BOOLEAN], view : Views]

\* Every variable keeps its kind; a session that lives, and what the browser
\* holds, has been given out.
Kinds ==
  /\ tab \in [Tabs -> TabRecords]
  /\ cookie \in Known \ fresh /\ fresh \subseteq Tokens /\ live \subseteq Tokens \ fresh
  /\ up \in BOOLEAN /\ disturbed \in BOOLEAN /\ accepts \in BOOLEAN
  /\ left \in [Tabs -> Known]

Given(x) ==
  /\ tab[x].ctx \notin fresh /\ tab[x].me \notin fresh /\ tab[x].held \notin fresh
  /\ tab[x].confirmed \notin fresh /\ tab[x].args.token \notin fresh

\* Only a tab that was told to forget the login has forgotten it for good.
Forgets(x) ==
  /\ tab[x].flag => tab[x].me = NoToken /\ x \in told
  /\ tab[x].args.token = NoToken /\ tab[x].args.clear => x \in told
  /\ tab[x].me # NoToken => tab[x].held = tab[x].me
  /\ tab[x].view = "page" => tab[x].me # NoToken

\* The cookie of the load is of no use where somebody else logs in, or it was
\* refused to a banned user.
Useless(x) == tab[x].ctx \notin live \/ x \in barred

\* The cookie a tab was loaded with brings no other login back than the one the
\* tab is using, and never one that was left.
Returns(x) ==
  /\ left[x] \notin live \cup fresh
  /\ left[x] # NoToken =>
       /\ Useless(x)
       /\ tab[x].me # NoToken => x \in barred /\ tab[x].me = tab[x].ctx /\ tab[x].me # left[x]
  /\ tab[x].me # NoToken => tab[x].me = tab[x].ctx \/ Useless(x)
  /\ tab[x].view = "guest" => Useless(x)

\* Without a disturbance nothing is forgotten, and whoever has seen the cookie
\* has seen the only one there is.
Calm(x) == ~disturbed =>
  /\ ~tab[x].flag /\ ~tab[x].args.clear
  /\ tab[x].ctx # NoToken => cookie = tab[x].ctx
  /\ tab[x].value.present => cookie = tab[x].value.of
  /\ tab[x].confirmed # NoToken => cookie = tab[x].confirmed
  /\ tab[x].view = "guest" => tab[x].ctx = NoToken

OneLogin == ~disturbed =>
  /\ live = Tokens \ fresh /\ banned = {}
  /\ \A s, t \in live : s = t

TabOK(x) == Given(x) /\ Forgets(x) /\ Returns(x) /\ Calm(x)
IInv == Kinds /\ OneLogin /\ \A x \in Tabs : TabOK(x)
-----------------------------------------------------------------------------
(* The tabs that stand by *)

\* What a step of the tabs in S does to the browser, the backend and the others.
StandsBy(S) ==
  /\ fresh' \subseteq fresh /\ live' \subseteq live \cup (fresh \ fresh')
  /\ told \ S \subseteq told' /\ barred \ S \subseteq barred'
  /\ disturbed => disturbed'
  /\ ~disturbed' => cookie' = cookie \/ cookie = NoToken
  /\ \A y \in Tabs \ S : tab'[y] = tab[y] /\ left'[y] = left[y]

LEMMA OthersKeep ==
  ASSUME IInv, NEW S, StandsBy(S), NEW y \in Tabs \ S
  PROVE  TabOK(y)'
<1>1. TabOK(y) /\ tab'[y] = tab[y] /\ tab[y] \in TabRecords /\ NoToken \notin Tokens
  BY WebAssumption DEF IInv, Kinds, StandsBy, NoToken
<1>2. Given(y)'
  BY <1>1 DEF TabOK, Given, StandsBy
<1>3. Forgets(y)'
  BY <1>1 DEF TabOK, Forgets, StandsBy
<1>4. tab[y].ctx \notin fresh
  BY <1>1 DEF TabOK, Given
<1>5. tab[y].ctx \notin live => tab[y].ctx \notin live'
  BY <1>4 DEF StandsBy
<1>6. left'[y] = left[y] /\ left[y] \notin live' \cup fresh' /\ (Useless(y) => Useless(y)')
  BY <1>1, <1>5 DEF TabOK, Returns, Useless, StandsBy
<1>7. Returns(y)'
  BY <1>1, <1>6 DEF TabOK, Returns, StandsBy
<1>8. Calm(y)'
  <2>1. tab[y].value.present \in BOOLEAN /\ tab[y].value.of # NoToken
    BY <1>1 DEF TabRecords, NoToken
  <2> QED BY <1>1, <2>1 DEF TabOK, Calm, StandsBy
<1> QED BY <1>2, <1>3, <1>7, <1>8 DEF TabOK

LEMMA StepOfTab ==
  ASSUME IInv, NEW x \in Tabs, StandsBy({x}), Kinds', OneLogin', TabOK(x)'
  PROVE  IInv'
<1>1. ASSUME NEW y \in Tabs PROVE TabOK(y)'
  BY OthersKeep
<1> QED BY <1>1 DEF IInv

\* A tab's record is replaced.
LEMMA Replaced ==
  ASSUME Kinds, NEW x \in Tabs, NEW r \in TabRecords, tab' = [tab EXCEPT ![x] = r]
  PROVE  tab' \in [Tabs -> TabRecords] /\ tab'[x] = r /\ \A y \in Tabs \ {x} : tab'[y] = tab[y]
BY DEF Kinds

LEMMA ClearedKind ==
  ASSUME NEW s \in TabRecords
  PROVE  LET r == Cleared(s) IN
         /\ r \in TabRecords
         /\ r.me = NoToken /\ r.held = NoToken /\ r.confirmed = NoToken /\ r.flag
         /\ r.ctx = s.ctx /\ r.value = s.value /\ r.args = s.args /\ r.view = s.view
BY DEF Cleared, TabRecords, Known

LEMMA TabKind ==
  ASSUME Kinds, NEW x \in Tabs
  PROVE  /\ tab[x] \in TabRecords /\ NoToken \notin Tokens
         /\ tab[x].me \in Known /\ tab[x].ctx \in Known /\ tab[x].held \in Known /\ tab[x].confirmed \in Known
         /\ tab[x].value.of # NoToken /\ tab[x].value.present \in BOOLEAN /\ tab[x].flag \in BOOLEAN
         /\ tab[x].args \in [token : Known, clear : BOOLEAN]
BY WebAssumption DEF Kinds, TabRecords, Known, NoToken

-----------------------------------------------------------------------------
(* A run of the script *)

\* The four ways a run goes.
RunFields(s, r) ==
  /\ r.ctx = s.ctx /\ r.value = s.value /\ ~r.flag
  /\ \/ /\ Denied(s) /\ r.me = NoToken /\ r.held = NoToken /\ r.confirmed = NoToken
        /\ r.args = [token |-> NoToken, clear |-> TRUE] /\ r.view = "guest"
     \/ /\ Tries(s) /\ up /\ ~Denied(s) /\ r.me = s.ctx /\ r.held = s.ctx /\ r.confirmed = s.ctx
        /\ r.args = [token |-> s.ctx, clear |-> s.flag] /\ r.view = "page"
     \/ /\ Tries(s) /\ ~up /\ r.me = NoToken /\ r.held = s.ctx /\ r.confirmed = s.confirmed
        /\ r.args = [token |-> NoToken, clear |-> s.flag] /\ r.view = "unavailable"
     \/ /\ s.me = NoToken /\ s.ctx = NoToken /\ r.me = NoToken /\ r.held = s.held /\ r.confirmed = s.confirmed
        /\ r.args = [token |-> NoToken, clear |-> s.flag] /\ r.view = "guest"
     \/ /\ s.me # NoToken /\ r.me = s.me /\ r.held = s.held
        /\ r.confirmed = s.confirmed \/ (r.confirmed = s.me /\ Confirmed(s))
        /\ r.args = [token |-> s.held, clear |-> s.flag] /\ r.view \in {"saving", "page"}

LEMMA Ran ==
  ASSUME Kinds, NEW x \in Tabs, Run(x)
  PROVE  /\ tab' \in [Tabs -> TabRecords] /\ \A y \in Tabs \ {x} : tab'[y] = tab[y]
         /\ RunFields(tab[x], tab'[x])
<1> DEFINE s == Restored(tab[x])
           known == s.me # NoToken
           r == [s EXCEPT
             !.args = [token |-> IF known THEN s.held ELSE NoToken, clear |-> s.flag], !.flag = FALSE,
             !.confirmed = IF known /\ Confirmed(s) THEN s.me ELSE @,
             !.view = CASE ~known /\ Tries(s) /\ ~up -> "unavailable"
                        [] ~known /\ ~(Tries(s) /\ ~up) -> "guest"
                        [] known /\ ~Confirmed(s) /\ ~Unsaved(s) -> "saving"
                        [] OTHER -> "page"]
<1>1. tab' = [tab EXCEPT ![x] = r]
  BY DEF Run
<1>2. tab[x] \in TabRecords /\ NoToken \notin Tokens /\ up \in BOOLEAN
  BY TabKind DEF Kinds
<1>3. s \in TabRecords /\ s.ctx = tab[x].ctx /\ s.value = tab[x].value
      /\ \/ Denied(tab[x]) /\ s = Cleared(tab[x])
         \/ Tries(tab[x]) /\ ~up /\ s = [tab[x] EXCEPT !.held = tab[x].ctx]
         \/ Tries(tab[x]) /\ up /\ ~Denied(tab[x]) /\ s = [tab[x] EXCEPT !.held = tab[x].ctx, !.me = tab[x].ctx]
         \/ ~Tries(tab[x]) /\ s = tab[x]
  <2>1. CASE Denied(tab[x])
    <3>1. s = Cleared(tab[x])
      BY <2>1 DEF Restored, Denied
    <3> QED BY <1>2, <2>1, <3>1, ClearedKind
  <2>2. CASE Tries(tab[x]) /\ ~up
    <3>1. ~Denied(tab[x])
      BY <2>2 DEF Denied
    <3>2. s = [tab[x] EXCEPT !.held = tab[x].ctx]
      BY <2>2, <3>1 DEF Restored
    <3> HIDE DEF s
    <3> QED BY <1>2, <2>2, <3>2 DEF TabRecords
  <2>3. CASE Tries(tab[x]) /\ up /\ ~Denied(tab[x])
    <3>1. s = [tab[x] EXCEPT !.held = tab[x].ctx, !.me = tab[x].ctx]
      BY <2>3 DEF Restored
    <3> HIDE DEF s
    <3> QED BY <1>2, <2>3, <3>1 DEF TabRecords
  <2>4. CASE ~Tries(tab[x])
    <3>1. ~Denied(tab[x])
      BY <2>4 DEF Denied
    <3>2. s = tab[x]
      BY <2>4, <3>1 DEF Restored
    <3> QED BY <1>2, <2>4, <3>2
  <2> QED BY <2>1, <2>2, <2>3, <2>4
<1> HIDE DEF s
<1>4. s.me \in Known /\ s.held \in Known /\ s.confirmed \in Known /\ s.flag \in BOOLEAN
  BY <1>3 DEF TabRecords
<1> DEFINE v == CASE ~known /\ Tries(s) /\ ~up -> "unavailable"
                  [] ~known /\ ~(Tries(s) /\ ~up) -> "guest"
                  [] known /\ ~Confirmed(s) /\ ~Unsaved(s) -> "saving"
                  [] OTHER -> "page"
<1>5. /\ v \in Views
      /\ ~known /\ Tries(s) /\ ~up => v = "unavailable"
      /\ ~known /\ ~(Tries(s) /\ ~up) => v = "guest"
      /\ known => v \in {"saving", "page"}
      /\ known /\ Confirmed(s) => v = "page"
  BY DEF Views
<1>6. /\ r \in TabRecords
      /\ r.ctx = s.ctx /\ r.value = s.value /\ ~r.flag /\ r.me = s.me /\ r.held = s.held /\ r.view = v
      /\ r.args = [token |-> IF known THEN s.held ELSE NoToken, clear |-> s.flag]
      /\ r.confirmed = IF known /\ Confirmed(s) THEN s.me ELSE s.confirmed
  <2> DEFINE a == [token |-> IF known THEN s.held ELSE NoToken, clear |-> s.flag]
             c == IF known /\ Confirmed(s) THEN s.me ELSE s.confirmed
  <2>1. a \in [token : Known, clear : BOOLEAN] /\ c \in Known
    BY <1>4 DEF Known
  <2>2. r = [s EXCEPT !.args = a, !.flag = FALSE, !.confirmed = c, !.view = v]
    OBVIOUS
  <2> HIDE DEF a, c, v, r, known
  <2>3. /\ r \in TabRecords /\ r.ctx = s.ctx /\ r.value = s.value /\ ~r.flag /\ r.me = s.me /\ r.held = s.held
        /\ r.view = v /\ r.args = a /\ r.confirmed = c
    BY <1>3, <1>5, <2>1, <2>2 DEF TabRecords
  <2> QED BY <2>3 DEF a, c
<1> HIDE DEF r, v
<1>7. tab'[x] = r /\ tab' \in [Tabs -> TabRecords] /\ \A y \in Tabs \ {x} : tab'[y] = tab[y]
  BY <1>1, <1>6, Replaced
<1>8. RunFields(tab[x], r)
  <2>1. CASE Denied(tab[x]) /\ s = Cleared(tab[x])
    <3>1. s.me = NoToken /\ s.held = NoToken /\ s.confirmed = NoToken /\ s.flag = TRUE /\ up
      BY <1>2, <1>4, <2>1, ClearedKind DEF Denied
    <3> QED BY <1>3, <1>5, <1>6, <2>1, <3>1 DEF RunFields
  <2>2. CASE Tries(tab[x]) /\ ~up /\ s = [tab[x] EXCEPT !.held = tab[x].ctx]
    <3>1. s.me = NoToken /\ s.held = tab[x].ctx /\ s.confirmed = tab[x].confirmed /\ s.flag = tab[x].flag /\ Tries(s)
      BY <1>2, <2>2 DEF Tries, TabRecords
    <3> QED BY <1>3, <1>5, <1>6, <2>2, <3>1 DEF RunFields
  <2>3. CASE Tries(tab[x]) /\ up /\ ~Denied(tab[x]) /\ s = [tab[x] EXCEPT !.held = tab[x].ctx, !.me = tab[x].ctx]
    <3>1. s.me = tab[x].ctx /\ s.held = tab[x].ctx /\ s.flag = tab[x].flag /\ s.me # NoToken /\ s.ctx = tab[x].ctx
      BY <1>2, <2>3 DEF Tries, TabRecords
    <3>2. Confirmed(s)
      BY <3>1 DEF Confirmed
    <3> QED BY <1>3, <1>5, <1>6, <2>3, <3>1, <3>2 DEF RunFields
  <2>4. CASE ~Tries(tab[x]) /\ s = tab[x]
    <3>1. CASE tab[x].me = NoToken
      <4>1. tab[x].ctx = NoToken
        BY <2>4, <3>1 DEF Tries
      <4> QED BY <1>3, <1>5, <1>6, <2>4, <3>1, <4>1 DEF RunFields, Tries
    <3>2. CASE tab[x].me # NoToken
      BY <1>3, <1>5, <1>6, <2>4, <3>2 DEF RunFields
    <3> QED BY <3>1, <3>2
  <2> QED BY <1>3, <2>1, <2>2, <2>3, <2>4
<1> QED BY <1>7, <1>8

LEMMA RunKeeps == ASSUME IInv, NEW x \in Tabs, Run(x) PROVE IInv'
<1> DEFINE s == tab[x]
           r == tab'[x]
<1>1. /\ tab' \in [Tabs -> TabRecords] /\ \A y \in Tabs \ {x} : tab'[y] = tab[y]
      /\ RunFields(s, r)
  BY Ran DEF IInv
<1>2. /\ UNCHANGED <<cookie, accepts, live, banned, up, fresh, left, disturbed>>
      /\ told' = IF Denied(s) THEN told \cup {x} ELSE IF s.me # NoToken THEN told \ {x} ELSE told
      /\ barred' = IF Denied(s) /\ Banned(s) THEN barred \cup {x} ELSE barred
  BY DEF Run, browser, backend
<1>3. TabOK(x) /\ Kinds /\ OneLogin
  BY DEF IInv
<1>4. Kinds' /\ OneLogin'
  BY <1>1, <1>2, <1>3 DEF Kinds, OneLogin
<1>5. StandsBy({x})
  BY <1>1, <1>2 DEF StandsBy
<1>6. /\ s \in TabRecords /\ NoToken \notin Tokens
      /\ s.me \in Known /\ s.ctx \in Known /\ s.flag \in BOOLEAN /\ s.value.of # NoToken
      /\ NoToken \notin fresh /\ NoToken \notin live
  BY <1>3, TabKind DEF Kinds
<1> HIDE DEF s, r
<1>7. Given(x)'
  <2>1. s.ctx \notin fresh /\ s.me \notin fresh /\ s.held \notin fresh /\ s.confirmed \notin fresh /\ s.args.token \notin fresh
    BY <1>3 DEF TabOK, Given, s
  <2>2. r.ctx \notin fresh /\ r.me \notin fresh /\ r.held \notin fresh /\ r.confirmed \notin fresh /\ r.args.token \notin fresh
    BY <1>1, <1>6, <2>1 DEF RunFields
  <2> QED BY <1>2, <2>2 DEF Given, r
<1>8. Forgets(x)'
  <2>1. /\ s.flag => s.me = NoToken /\ x \in told
        /\ s.me # NoToken => s.held = s.me
    BY <1>3 DEF TabOK, Forgets, s
  <2>2. /\ ~r.flag
        /\ r.args.token = NoToken /\ r.args.clear => x \in told'
        /\ r.me # NoToken => r.held = r.me
        /\ r.view = "page" => r.me # NoToken
    BY <1>1, <1>2, <2>1 DEF RunFields, Tries
  <2> QED BY <2>2 DEF Forgets, r
<1>9. Returns(x)'
  <2> DEFINE useless == s.ctx \notin live \/ x \in barred'
  <2>1. /\ left[x] \notin live \cup fresh
        /\ left[x] # NoToken =>
             /\ useless
             /\ s.me # NoToken => x \in barred' /\ s.me = s.ctx /\ s.me # left[x]
        /\ s.me # NoToken => s.me = s.ctx \/ useless
    BY <1>2, <1>3 DEF TabOK, Returns, Useless, s
  <2>2. Denied(s) => useless
    BY <1>2 DEF Denied, Banned
  <2>3. Tries(s) /\ up /\ ~Denied(s) => s.ctx \in live
    BY DEF Denied
  <2> HIDE DEF useless
  <2>4. s.ctx \in live /\ left[x] # NoToken => x \in barred' /\ s.ctx # left[x]
    BY <2>1 DEF useless
  <2>5. s.ctx = NoToken => useless
    BY <1>6 DEF useless
  <2>6. /\ left[x] # NoToken /\ r.me # NoToken => x \in barred' /\ r.me = r.ctx /\ r.me # left[x]
        /\ r.me # NoToken => r.me = r.ctx \/ useless
        /\ r.view = "guest" => useless
    BY <1>1, <2>1, <2>2, <2>3, <2>4, <2>5 DEF RunFields
  <2>7. useless => Useless(x)'
    BY <1>1, <1>2 DEF useless, Useless, RunFields, r
  <2> QED BY <1>1, <1>2, <2>1, <2>6, <2>7 DEF Returns, RunFields, r
<1>10. Calm(x)'
  <2>1. ~disturbed =>
          /\ ~s.flag /\ (s.ctx # NoToken => cookie = s.ctx) /\ (s.value.present => cookie = s.value.of)
          /\ (s.confirmed # NoToken => cookie = s.confirmed)
          /\ live = Tokens \ fresh /\ banned = {}
    BY <1>3 DEF TabOK, Calm, OneLogin, s
  <2>2. s.ctx \notin fresh
    BY <1>3 DEF TabOK, Given, s
  <2>3. ~disturbed => ~Denied(s)
    BY <1>6, <2>1, <2>2 DEF Denied, Banned, Tries, Known
  <2>4. ~disturbed /\ Confirmed(s) /\ s.me # NoToken => cookie = s.me
    <3>1. s.value = [present |-> TRUE, of |-> s.me] => s.value.present /\ s.value.of = s.me
      OBVIOUS
    <3> QED BY <2>1, <3>1 DEF Confirmed
  <2>5. ~disturbed =>
          /\ ~r.flag /\ ~r.args.clear
          /\ r.ctx # NoToken => cookie = r.ctx
          /\ r.value.present => cookie = r.value.of
          /\ r.confirmed # NoToken => cookie = r.confirmed
          /\ r.view = "guest" => r.ctx = NoToken
    BY <1>1, <2>1, <2>3, <2>4 DEF RunFields
  <2> QED BY <1>2, <2>5 DEF Calm, r
<1> QED BY <1>4, <1>5, <1>7, <1>8, <1>9, <1>10, StepOfTab DEF TabOK

-----------------------------------------------------------------------------
(* The other steps of a tab *)

\* Steps that leave the session of a tab alone, or clear all of it.
LEMMA ViewedOrCleared ==
  ASSUME IInv, NEW x \in Tabs, NEW s \in {tab[x], Cleared(tab[x])},
         NEW v \in {"run", "shown", "guest"}, v = "guest" => tab[x].view = "guest",
         tab' = [tab EXCEPT ![x] = [s EXCEPT !.view = v]],
         UNCHANGED <<cookie, accepts, banned, up, fresh, barred>>, live' \subseteq live, disturbed' \in BOOLEAN,
         disturbed => disturbed', ~disturbed' => s = tab[x] /\ live' = live,
         told' = IF s = tab[x] THEN told ELSE told \cup {x},
         \/ left' = left
         \/ left' = [left EXCEPT ![x] = tab[x].me] /\ s = Cleared(tab[x]) /\ tab[x].me \notin live'
  PROVE  IInv'
<1>1. TabOK(x) /\ Kinds /\ OneLogin
  BY DEF IInv
<1>2. tab[x] \in TabRecords
  BY <1>1, TabKind
<1> DEFINE r == [s EXCEPT !.view = v]
<1>3. /\ s \in TabRecords /\ r \in TabRecords
      /\ r.me = s.me /\ r.held = s.held /\ r.confirmed = s.confirmed /\ r.flag = s.flag
      /\ r.ctx = tab[x].ctx /\ r.value = tab[x].value /\ r.args = tab[x].args /\ r.view = v
  <2>1. s \in TabRecords /\ s.ctx = tab[x].ctx /\ s.value = tab[x].value /\ s.args = tab[x].args
    BY <1>2, ClearedKind
  <2> QED BY <2>1 DEF TabRecords, Views
<1>4. s = tab[x] \/ (s.me = NoToken /\ s.held = NoToken /\ s.confirmed = NoToken /\ s.flag = TRUE)
  BY <1>2, ClearedKind
<1> HIDE DEF r
<1>5. tab'[x] = r /\ tab' \in [Tabs -> TabRecords] /\ \A y \in Tabs \ {x} : tab'[y] = tab[y]
  BY <1>1, <1>3, Replaced DEF r
<1>6. Kinds' /\ OneLogin'
  <2>1. tab[x].me \in Known
    BY <1>2 DEF TabRecords
  <2>2. left' \in [Tabs -> Known]
    BY <1>1, <2>1 DEF Kinds
  <2> QED BY <1>1, <1>5, <2>2 DEF Kinds, OneLogin
<1>7. StandsBy({x})
  BY <1>1, <1>5 DEF StandsBy, Kinds
<1>8. NoToken \notin fresh /\ NoToken \notin live
  BY <1>1, TabKind DEF Kinds
<1>9. Given(x)'
  <2>1. /\ tab[x].ctx \notin fresh /\ tab[x].me \notin fresh /\ tab[x].held \notin fresh
        /\ tab[x].confirmed \notin fresh /\ tab[x].args.token \notin fresh
    BY <1>1 DEF TabOK, Given
  <2>2. s.me \notin fresh /\ s.held \notin fresh /\ s.confirmed \notin fresh
    BY <1>4, <1>8, <2>1
  <2>3. r.ctx \notin fresh /\ r.me \notin fresh /\ r.held \notin fresh /\ r.confirmed \notin fresh /\ r.args.token \notin fresh
    BY <1>3, <2>1, <2>2
  <2> QED BY <1>5, <2>3 DEF Given
<1>10. Forgets(x)'
  BY <1>1, <1>3, <1>4, <1>5 DEF TabOK, Forgets
<1>11. Returns(x)'
  <2>1. Returns(x)
    BY <1>1 DEF TabOK
  <2>2. s.me \in {tab[x].me, NoToken}
    BY <1>4
  <2>3. Useless(x) => Useless(x)'
    BY <1>3, <1>5 DEF Useless
  <2>4. CASE left' = left
    BY <1>3, <1>5, <2>1, <2>2, <2>3, <2>4 DEF Returns
  <2>5. CASE left' = [left EXCEPT ![x] = tab[x].me] /\ s = Cleared(tab[x]) /\ tab[x].me \notin live'
    <3>1. s.me = NoToken /\ left'[x] = tab[x].me
      BY <1>1, <1>2, <2>5, ClearedKind DEF Kinds
    <3>2. tab[x].me \notin fresh
      BY <1>1 DEF TabOK, Given
    <3>3. tab[x].me # NoToken => Useless(x)'
      BY <1>3, <1>5, <2>1, <2>3, <2>5 DEF Returns, Useless
    <3> QED BY <1>3, <1>5, <2>1, <2>3, <2>5, <3>1, <3>2, <3>3 DEF Returns
  <2> QED BY <2>4, <2>5
<1>12. Calm(x)'
  BY <1>1, <1>3, <1>5 DEF TabOK, Calm
<1> QED BY <1>6, <1>7, <1>9, <1>10, <1>11, <1>12, StepOfTab DEF TabOK

LEMMA PageCallKeeps == ASSUME IInv, NEW x \in Tabs, PageCall(x) PROVE IInv'
<1> DEFINE refused == up /\ tab[x].held \notin live
           s == IF refused THEN Cleared(tab[x]) ELSE tab[x]
<1>1. TabOK(x) /\ Kinds /\ OneLogin /\ tab[x] \in TabRecords /\ tab[x].me \in Known
  BY TabKind DEF IInv
<1>2. /\ tab[x].view = "page" /\ UNCHANGED <<cookie, accepts, live, banned, up, fresh, left, barred, disturbed>>
      /\ tab' = [tab EXCEPT ![x] = [s EXCEPT !.view = "shown"]]
      /\ told' = IF refused THEN told \cup {x} ELSE told
  BY DEF PageCall, browser, backend
<1>3. ASSUME ~disturbed PROVE ~refused
  <2>1. tab[x].held = tab[x].me /\ tab[x].me # NoToken /\ tab[x].me \notin fresh /\ live = Tokens \ fresh
    BY <1>1, <1>2, <1>3 DEF TabOK, Given, Forgets, OneLogin
  <2> QED BY <1>1, <2>1 DEF Known
<1>4. tab[x].me # NoToken
  BY <1>1, <1>2 DEF TabOK, Forgets
<1>5. refused => s # tab[x]
  BY <1>1, <1>4, ClearedKind
<1>6. s \in {tab[x], Cleared(tab[x])} /\ (~refused => s = tab[x]) /\ disturbed \in BOOLEAN
  BY <1>1 DEF Kinds
<1>7. told' = IF s = tab[x] THEN told ELSE told \cup {x}
  BY <1>2, <1>5, <1>6
<1> HIDE DEF s, refused
<1> QED BY <1>2, <1>3, <1>6, <1>7, ViewedOrCleared

LEMMA LogoutKeeps == ASSUME IInv, NEW x \in Tabs, Logout(x) PROVE IInv'
<1>1. TabOK(x) /\ Kinds /\ OneLogin /\ tab[x] \in TabRecords
  BY TabKind DEF IInv
<1>2. /\ tab[x].me # NoToken /\ UNCHANGED <<cookie, accepts, banned, up, fresh, barred>> /\ disturbed' = TRUE
      /\ tab' = [tab EXCEPT ![x] = [Cleared(tab[x]) EXCEPT !.view = "run"]]
      /\ told' = told \cup {x}
      /\ live' = IF up THEN live \ {tab[x].held} ELSE live
      /\ left' = IF up THEN [left EXCEPT ![x] = tab[x].me] ELSE left
  BY DEF Logout, browser
<1>3. (up => tab[x].me \notin live') /\ live' \subseteq live /\ disturbed' \in BOOLEAN
  BY <1>1, <1>2 DEF TabOK, Forgets
<1>4. Cleared(tab[x]) # tab[x]
  BY <1>1, <1>2, ClearedKind
<1> QED BY <1>2, <1>3, <1>4, ViewedOrCleared

LEMMA WrongPasswordKeeps == ASSUME IInv, NEW x \in Tabs, WrongPassword(x) PROVE IInv'
<1>1. Kinds /\ tab[x] \in TabRecords
  BY TabKind DEF IInv
<1> DEFINE s == Cleared(tab[x])
<1>2. /\ tab[x].view = "guest" /\ UNCHANGED <<cookie, accepts, live, banned, up, fresh, left, barred>> /\ disturbed' = TRUE
      /\ tab' = [tab EXCEPT ![x] = s] /\ told' = told \cup {x}
  BY DEF WrongPassword, browser, backend
<1>3. s \in TabRecords /\ s.view = "guest"
  BY <1>1, <1>2, ClearedKind
<1> HIDE DEF s
<1>4. s = [s EXCEPT !.view = "guest"]
  BY <1>3 DEF TabRecords
<1>5. CASE s # tab[x]
  BY <1>2, <1>4, <1>5, ViewedOrCleared DEF s
<1>6. CASE s = tab[x]
  <2>1. TabOK(x) /\ tab[x].flag
    BY <1>1, <1>6, ClearedKind DEF IInv, s
  <2>2. x \in told
    BY <2>1 DEF TabOK, Forgets
  <2>3. told' = told
    BY <1>2, <2>2
  <2> QED BY <1>2, <1>4, <1>6, <2>3, ViewedOrCleared
<1> QED BY <1>5, <1>6

LEMMA InteractKeeps == ASSUME IInv, NEW x \in Tabs, Interact(x) PROVE IInv'
<1>1. TabOK(x) /\ Kinds /\ OneLogin /\ tab[x] \in TabRecords
  BY TabKind DEF IInv
<1> PICK v \in {NoValue, tab[x].value} : tab' = [tab EXCEPT ![x].view = "run", ![x].value = v]
  BY DEF Interact
<1> DEFINE r == [tab[x] EXCEPT !.view = "run", !.value = v]
<1>2. UNCHANGED <<cookie, accepts, live, banned, up, fresh, told, left, barred, disturbed>>
  BY DEF Interact, browser, backend, ghosts
<1>3. v \in [present : BOOLEAN, of : Tokens \cup {"nothing"}] /\ (v.present => v = tab[x].value)
  <2>1. NoValue \in [present : BOOLEAN, of : Tokens \cup {"nothing"}] /\ ~NoValue.present
    BY DEF NoValue
  <2>2. tab[x].value \in [present : BOOLEAN, of : Tokens \cup {"nothing"}]
    BY <1>1 DEF TabRecords
  <2> QED BY <2>1, <2>2
<1>4. /\ r \in TabRecords
      /\ r.me = tab[x].me /\ r.held = tab[x].held /\ r.confirmed = tab[x].confirmed /\ r.flag = tab[x].flag
      /\ r.ctx = tab[x].ctx /\ r.value = v /\ r.args = tab[x].args /\ r.view = "run"
  BY <1>1, <1>3 DEF TabRecords, Views
<1>5. tab' = [tab EXCEPT ![x] = r]
  BY <1>1 DEF Kinds
<1> HIDE DEF r
<1>6. tab'[x] = r /\ tab' \in [Tabs -> TabRecords] /\ \A y \in Tabs \ {x} : tab'[y] = tab[y]
  BY <1>1, <1>4, <1>5, Replaced
<1>7. Kinds' /\ OneLogin' /\ StandsBy({x})
  BY <1>1, <1>2, <1>6 DEF Kinds, OneLogin, StandsBy
<1>8. Given(x)' /\ Forgets(x)' /\ Returns(x)'
  BY <1>1, <1>2, <1>4, <1>6 DEF TabOK, Given, Forgets, Returns, Useless
<1>9. Calm(x)'
  BY <1>1, <1>2, <1>3, <1>4, <1>6 DEF TabOK, Calm
<1> QED BY <1>7, <1>8, <1>9, StepOfTab DEF TabOK

LEMMA LoadKeeps == ASSUME IInv, NEW x \in Tabs, Load(x) PROVE IInv'
<1>1. Kinds /\ OneLogin /\ NoToken \notin Tokens
  BY TabKind DEF IInv
<1> DEFINE r == NewTab(cookie)
<1>2. /\ UNCHANGED <<cookie, accepts, live, banned, up, fresh, disturbed>>
      /\ tab' = [tab EXCEPT ![x] = r]
      /\ told' = told \ {x} /\ barred' = barred \ {x}
      /\ left' = IF cookie \in live THEN [left EXCEPT ![x] = NoToken] ELSE left
  BY DEF Load, browser, backend
<1>3. /\ r \in TabRecords /\ r.me = NoToken /\ r.held = NoToken /\ r.ctx = cookie /\ r.flag = FALSE /\ r.confirmed = NoToken
      /\ r.value.present = FALSE /\ r.args = [token |-> NoToken, clear |-> FALSE] /\ r.view = "run"
  BY <1>1 DEF NewTab, TabRecords, NoValue, NoArgs, Known, Views, Kinds
<1> HIDE DEF r
<1>4. tab'[x] = r /\ tab' \in [Tabs -> TabRecords] /\ \A y \in Tabs \ {x} : tab'[y] = tab[y]
  BY <1>1, <1>2, <1>3, Replaced
<1>5. Kinds' /\ OneLogin' /\ StandsBy({x})
  BY <1>1, <1>2, <1>4 DEF Kinds, OneLogin, StandsBy, Known
<1>6. Given(x)' /\ Forgets(x)' /\ Calm(x)'
  BY <1>1, <1>2, <1>3, <1>4 DEF Given, Forgets, Calm, Kinds
<1>7. Returns(x)'
  <2>1. left[x] \notin live \cup fresh /\ NoToken \notin live \cup fresh /\ left \in [Tabs -> Known]
    BY <1>1 DEF IInv, TabOK, Returns, Kinds
  <2>2. left'[x] \notin live \cup fresh /\ (left'[x] # NoToken => cookie \notin live)
    BY <1>2, <2>1
  <2> QED BY <1>2, <1>3, <1>4, <2>2 DEF Returns, Useless
<1> QED BY <1>5, <1>6, <1>7, StepOfTab DEF TabOK

LEMMA LoginKeeps == ASSUME IInv, NEW x \in Tabs, Login(x) PROVE IInv'
<1>1. TabOK(x) /\ Kinds /\ OneLogin /\ tab[x] \in TabRecords /\ NoToken \notin Tokens /\ tab[x].args \in [token : Known, clear : BOOLEAN]
  BY TabKind DEF IInv
<1> PICK t \in fresh :
      /\ live' = live \cup {t} /\ fresh' = fresh \ {t}
      /\ tab' = [tab EXCEPT ![x] = [@ EXCEPT !.me = t, !.held = t, !.flag = FALSE, !.view = "run"]]
      /\ disturbed' = (disturbed \/ fresh # Tokens)
  BY DEF Login
<1> DEFINE r == [tab[x] EXCEPT !.me = t, !.held = t, !.flag = FALSE, !.view = "run"]
<1>2. /\ UNCHANGED <<cookie, accepts, banned, up, told, barred>> /\ tab[x].view = "guest"
      /\ left' = [left EXCEPT ![x] = NoToken]
      /\ t \in Tokens
  BY <1>1 DEF Login, browser, Kinds
<1>3. /\ r \in TabRecords /\ r.me = t /\ r.held = t /\ r.ctx = tab[x].ctx /\ r.flag = FALSE /\ r.confirmed = tab[x].confirmed
      /\ r.value = tab[x].value /\ r.args = tab[x].args /\ r.view = "run"
  BY <1>1, <1>2 DEF TabRecords, Known, Views
<1>4. tab' = [tab EXCEPT ![x] = r]
  BY <1>1 DEF Kinds
<1> HIDE DEF r
<1>5. tab'[x] = r /\ tab' \in [Tabs -> TabRecords] /\ \A y \in Tabs \ {x} : tab'[y] = tab[y]
  BY <1>1, <1>3, <1>4, Replaced
<1>6. Kinds'
  BY <1>1, <1>2, <1>5 DEF Kinds, Known
<1>7. OneLogin'
  BY <1>1, <1>2 DEF OneLogin, Kinds
<1>8. StandsBy({x})
  BY <1>1, <1>2, <1>5 DEF StandsBy, Kinds
<1>9. Given(x)' /\ Forgets(x)'
  BY <1>1, <1>2, <1>3, <1>5 DEF TabOK, Given, Forgets
<1>10. Returns(x)'
  <2>1. Useless(x) /\ tab[x].ctx \notin fresh
    BY <1>1, <1>2 DEF TabOK, Returns, Given
  <2>2. Useless(x)'
    BY <1>2, <1>3, <1>5, <2>1 DEF Useless
  <2>3. left'[x] = NoToken /\ NoToken \notin live' \cup fresh'
    BY <1>1, <1>2, <1>6 DEF Kinds
  <2> QED BY <1>2, <1>3, <1>5, <2>2, <2>3 DEF Returns
<1>11. Calm(x)'
  BY <1>1, <1>2, <1>3, <1>5 DEF TabOK, Calm
<1> QED BY <1>6, <1>7, <1>8, <1>9, <1>10, <1>11, StepOfTab DEF TabOK

-----------------------------------------------------------------------------
(* The component and the backend *)

LEMMA ComponentKeeps == ASSUME IInv, NEW x \in Tabs, Component(x) PROVE IInv'
<1> DEFINE a == tab[x].args
<1>1. /\ TabOK(x) /\ Kinds /\ OneLogin /\ tab[x] \in TabRecords /\ NoToken \notin Tokens
      /\ a \in [token : Known, clear : BOOLEAN] /\ accepts \in BOOLEAN
  BY TabKind DEF IInv, Kinds
<1>2. a # NoArgs /\ UNCHANGED <<accepts, live, banned, up, fresh, told, left, barred, disturbed>>
  BY DEF Component, backend, ghosts
<1>3. \E v \in [present : BOOLEAN, of : Tokens \cup {"nothing"}], w \in Views :
        /\ tab' = [tab EXCEPT ![x] = [tab[x] EXCEPT !.args = NoArgs, !.value = v, !.view = w]]
        /\ w \in {"run", tab[x].view}
        /\ \/ a.token # NoToken /\ cookie' = (IF accepts THEN a.token ELSE cookie) /\ v.present = accepts /\ v.of = a.token
           \/ a.token = NoToken /\ cookie # NoToken /\ cookie' = NoToken /\ ~v.present
           \/ a.token = NoToken /\ cookie = NoToken /\ cookie' = NoToken /\ v = tab[x].value
  <2>1. ASSUME NEW v \in [present : BOOLEAN, of : Tokens \cup {"nothing"}], Report(x, v)
        PROVE  \E w \in Views :
                 /\ tab' = [tab EXCEPT ![x] = [tab[x] EXCEPT !.args = NoArgs, !.value = v, !.view = w]]
                 /\ w \in {"run", tab[x].view}
    <3> DEFINE w == IF v # tab[x].value THEN "run" ELSE tab[x].view
    <3>1. w \in Views /\ w \in {"run", tab[x].view}
      BY <1>1 DEF TabRecords, Views
    <3>2. tab' = [tab EXCEPT ![x] = [tab[x] EXCEPT !.args = NoArgs, !.value = v, !.view = w]]
      BY <2>1 DEF Report
    <3> HIDE DEF w
    <3> QED BY <3>1, <3>2
  <2>2. CASE a.token # NoToken
    <3> DEFINE v == [present |-> accepts, of |-> a.token]
    <3>1. v \in [present : BOOLEAN, of : Tokens \cup {"nothing"}] /\ v.present = accepts /\ v.of = a.token
      BY <1>1, <2>2 DEF Known
    <3>2. Report(x, v) /\ cookie' = IF accepts THEN a.token ELSE cookie
      BY <2>2 DEF Component
    <3> HIDE DEF v
    <3> QED BY <2>1, <2>2, <3>1, <3>2
  <2>3. CASE a.token = NoToken /\ cookie # NoToken
    <3> DEFINE v == [present |-> FALSE, of |-> "nothing"]
    <3>1. v \in [present : BOOLEAN, of : Tokens \cup {"nothing"}] /\ ~v.present
      OBVIOUS
    <3>2. Report(x, v) /\ cookie' = NoToken
      BY <2>3 DEF Component
    <3> HIDE DEF v
    <3> QED BY <2>1, <2>3, <3>1, <3>2
  <2>4. CASE a.token = NoToken /\ cookie = NoToken
    <3>1. tab' = [tab EXCEPT ![x].args = NoArgs] /\ cookie' = NoToken
      BY <2>4 DEF Component
    <3>2. tab[x].value \in [present : BOOLEAN, of : Tokens \cup {"nothing"}] /\ tab[x].view \in Views
      BY <1>1 DEF TabRecords
    <3>3. [tab[x] EXCEPT !.args = NoArgs] = [tab[x] EXCEPT !.args = NoArgs, !.value = tab[x].value, !.view = tab[x].view]
      BY <1>1 DEF TabRecords
    <3>4. tab' = [tab EXCEPT ![x] = [tab[x] EXCEPT !.args = NoArgs, !.value = tab[x].value, !.view = tab[x].view]]
      BY <1>1, <3>1, <3>3 DEF Kinds
    <3> QED BY <2>4, <3>1, <3>2, <3>4
  <2> QED BY <2>2, <2>3, <2>4
<1> PICK v \in [present : BOOLEAN, of : Tokens \cup {"nothing"}], w \in Views :
        /\ tab' = [tab EXCEPT ![x] = [tab[x] EXCEPT !.args = NoArgs, !.value = v, !.view = w]]
        /\ w \in {"run", tab[x].view}
        /\ \/ a.token # NoToken /\ cookie' = (IF accepts THEN a.token ELSE cookie) /\ v.present = accepts /\ v.of = a.token
           \/ a.token = NoToken /\ cookie # NoToken /\ cookie' = NoToken /\ ~v.present
           \/ a.token = NoToken /\ cookie = NoToken /\ cookie' = NoToken /\ v = tab[x].value
  BY <1>3
<1> DEFINE r == [tab[x] EXCEPT !.args = NoArgs, !.value = v, !.view = w]
<1>4. /\ r \in TabRecords
      /\ r.me = tab[x].me /\ r.held = tab[x].held /\ r.confirmed = tab[x].confirmed /\ r.flag = tab[x].flag
      /\ r.ctx = tab[x].ctx /\ r.value = v /\ r.args.token = NoToken /\ r.args.clear = FALSE /\ r.view = w
  BY <1>1 DEF TabRecords, NoArgs, Known
<1> HIDE DEF r
<1>5. tab'[x] = r /\ tab' \in [Tabs -> TabRecords] /\ \A y \in Tabs \ {x} : tab'[y] = tab[y]
  BY <1>1, <1>4, Replaced DEF r
<1>6. a.token \notin fresh /\ NoToken \notin fresh
  BY <1>1 DEF TabOK, Given, Kinds
<1>7. cookie' \in Known \ fresh
  BY <1>1, <1>6 DEF Kinds, Known
<1>8. Kinds' /\ OneLogin'
  BY <1>1, <1>2, <1>5, <1>7 DEF Kinds, OneLogin
\* A login that nothing disturbed is the only one, so the cookie stays.
<1>9. ~disturbed => cookie' = cookie \/ cookie = NoToken
  <2>1. ASSUME ~disturbed, a.token = NoToken PROVE FALSE
    <3>1. ~a.clear
      BY <1>1, <2>1 DEF TabOK, Calm
    <3>2. a = NoArgs
      BY <1>1, <2>1, <3>1 DEF NoArgs
    <3> QED BY <1>2, <3>2
  <2>2. ASSUME ~disturbed, a.token # NoToken, cookie # NoToken PROVE a.token = cookie
    <3>1. a.token \in live /\ cookie \in live
      BY <1>1, <1>6, <2>2 DEF OneLogin, Kinds, Known
    <3> QED BY <1>1, <2>2, <3>1 DEF OneLogin
  <2> QED BY <2>1, <2>2
<1>10. StandsBy({x})
  BY <1>2, <1>5, <1>9 DEF StandsBy
<1>11. Given(x)'
  <2>1. /\ tab[x].ctx \notin fresh /\ tab[x].me \notin fresh /\ tab[x].held \notin fresh /\ tab[x].confirmed \notin fresh
    BY <1>1 DEF TabOK, Given
  <2>2. r.ctx \notin fresh /\ r.me \notin fresh /\ r.held \notin fresh /\ r.confirmed \notin fresh /\ r.args.token \notin fresh
    BY <1>4, <1>6, <2>1
  <2> QED BY <1>2, <1>5, <2>2 DEF Given
<1>12. Forgets(x)'
  <2>1. /\ tab[x].flag => tab[x].me = NoToken /\ x \in told
        /\ tab[x].me # NoToken => tab[x].held = tab[x].me
        /\ tab[x].view = "page" => tab[x].me # NoToken
    BY <1>1 DEF TabOK, Forgets
  <2> QED BY <1>2, <1>4, <1>5, <2>1 DEF Forgets
<1>13. Returns(x)'
  <2>1. Returns(x) /\ (Useless(x) => Useless(x)')
    BY <1>1, <1>2, <1>4, <1>5 DEF TabOK, Useless
  <2> QED BY <1>2, <1>4, <1>5, <2>1 DEF Returns
<1>14. Calm(x)'
  <2>1. ~disturbed /\ v.present => cookie' = v.of
    <3>1. CASE v = tab[x].value /\ cookie' = cookie
      BY <1>1, <3>1 DEF TabOK, Calm
    <3> QED BY <3>1
  <2>2. tab[x].value.of # NoToken
    BY <1>1, TabKind
  <2> QED BY <1>1, <1>2, <1>4, <1>5, <1>9, <2>1 DEF TabOK, Calm
<1> QED BY <1>8, <1>10, <1>11, <1>12, <1>13, <1>14, StepOfTab DEF TabOK

LEMMA BackendKeeps == ASSUME IInv, Outage \/ Die \/ ChangeRole \/ UNCHANGED vars PROVE IInv'
<1>1. UNCHANGED <<cookie, accepts, fresh, tab, told, left, barred>>
  BY DEF Outage, Die, ChangeRole, vars, browser, backend, ghosts
<1>2. /\ live' \subseteq live /\ up' \in BOOLEAN
      /\ disturbed' \in BOOLEAN /\ (disturbed => disturbed')
      /\ ~disturbed' => live' = live /\ banned' = banned
  BY DEF Outage, Die, ChangeRole, vars, browser, backend, ghosts, IInv, Kinds
<1>3. Kinds' /\ OneLogin'
  BY <1>1, <1>2 DEF IInv, Kinds, OneLogin
<1>4. StandsBy({})
  BY <1>1, <1>2 DEF StandsBy
<1>5. ASSUME NEW y \in Tabs PROVE TabOK(y)'
  BY <1>4, OthersKeep
<1> QED BY <1>3, <1>5 DEF IInv

LEMMA Initially == Init => IInv
<1> SUFFICES ASSUME Init PROVE IInv
  OBVIOUS
<1> DEFINE r == [NewTab(NoToken) EXCEPT !.view = "closed"]
<1>1. /\ r \in TabRecords
      /\ r.me = NoToken /\ r.held = NoToken /\ r.confirmed = NoToken /\ r.flag = FALSE /\ r.ctx = NoToken
      /\ r.value.present = FALSE /\ r.args.token = NoToken /\ r.args.clear = FALSE /\ r.view = "closed"
  BY DEF NewTab, TabRecords, Known, Views, NoArgs, NoValue
<1>2. \A x \in Tabs : tab[x] = r
  BY DEF Init
<1>3. tab \in [Tabs -> TabRecords]
  BY <1>1 DEF Init
<1>4. NoToken \notin Tokens
  BY WebAssumption DEF NoToken
<1> HIDE DEF r
<1>5. Kinds /\ OneLogin
  BY <1>3, <1>4 DEF Init, Kinds, OneLogin, Known
<1>6. ASSUME NEW x \in Tabs PROVE TabOK(x)
  BY <1>1, <1>2, <1>4 DEF Init, TabOK, Given, Forgets, Returns, Useless, Calm
<1> QED BY <1>5, <1>6 DEF IInv

\* The invariant holds of every run of the front end.
THEOREM Invariance == WebSpec => []IInv
<1>1. IInv /\ [Next]_vars => IInv'
  <2> SUFFICES ASSUME IInv, [Next]_vars PROVE IInv'
    OBVIOUS
  <2>1. ASSUME NEW x \in Tabs, Run(x) \/ PageCall(x) \/ Interact(x) \/ Load(x) PROVE IInv'
    BY <2>1, RunKeeps, PageCallKeeps, InteractKeeps, LoadKeeps
  <2>2. ASSUME NEW x \in Tabs, Login(x) \/ WrongPassword(x) \/ Logout(x) \/ Component(x) PROVE IInv'
    BY <2>2, LoginKeeps, WrongPasswordKeeps, LogoutKeeps, ComponentKeeps
  <2> QED BY <2>1, <2>2, BackendKeeps DEF Next
<1> QED BY <1>1, Initially, PTL DEF WebSpec

\* write_session_cookie is asked to clear the cookie only by a tab that pressed
\* "logout" or was refused: no outage and no other tab takes the login away.
THEOREM ForgetsOnlyWhenTold == WebSpec => []ClearedOnlyWhenTold
<1>1. IInv => ClearedOnlyWhenTold
  BY DEF IInv, TabOK, Forgets, ClearedOnlyWhenTold
<1> QED BY <1>1, Invariance, PTL

\* A tab whose logout reached the backend stays logged out, whatever cookie it
\* was loaded with, until a new login or a reload with the cookie of another.
\* Where a ban had locked out the login of the load, that login may come back
\* when the ban is lifted, never the one that was left.
THEOREM LogoutsEnd == WebSpec => []LogoutEnds
<1>1. IInv => LogoutEnds
  BY DEF IInv, Kinds, TabOK, Returns, LogoutEnds
<1> QED BY <1>1, Invariance, PTL

\* A login that nothing disturbed is lost in no tab, through outages, reloads
\* and whatever order the script and the component run in.
THEOREM LoginsSurvive == WebSpec => []LoginSurvives
<1>1. IInv => LoginSurvives
  BY DEF IInv, TabOK, Calm, LoginSurvives
<1> QED BY <1>1, Invariance, PTL
================================================================================
