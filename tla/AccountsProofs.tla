----------------------------- MODULE AccountsProofs -----------------------------
(***************************************************************************)
(* Names, authorisation, sessions, the default language and the role       *)
(* change log for any number of requests, expiries, resets, statements     *)
(* that fail and crashes, in between two tables of a reset as well.        *)
(***************************************************************************)
EXTENDS Accounts, TLAPS

Roles == {"admin", "user", "banned"}
People == {"root", "bob"} \cup Handlers
UserRows == [name : Names, role : Roles, born : Roles, who : People]
SessionRows == {NoSession} \cup [user : Nat, who : People \cup {"nobody"}, live : BOOLEAN]
LanguageRows == [run : {"none", "system"} \cup Handlers, limits : {"none", "system"} \cup Handlers]
Things == Tables \cup {"index"}
Rows == [id : Nat, name : Names \cup {""}, role : Roles \cup {""}, who : People \cup {"nobody"}]

Protected == {"role", "rename", "addadmin", "reset", "language"}
Authenticating == {"pre session", "pre user", "auth session", "auth user"}
Resetting == {"list", "drop", "create", "add root", "ensure language", "add default", "sync default"}
AtRest == {"idle", "done", "lost"}
Places == AtRest \cup Authenticating \cup Resetting
          \cup {"load", "commit role", "check", "rename", "lookup", "insert", "refresh", "log",
                "verify", "session", "find", "delete", "known", "add"}

\* Every variable keeps its kind.
Kinds ==
  /\ users \in Seq(UserRows)
  /\ sessions \in [Tokens -> SessionRows]
  /\ langs \in [Languages -> LanguageRows]
  /\ gone \subseteq Things /\ todo \in [Handlers -> SUBSET Things]
  /\ call \in [Handlers -> {NoCall} \cup Requests]
  /\ pc \in [Handlers -> Places]
  /\ me \in [Handlers -> Rows] /\ target \in [Handlers -> Rows]

\* The places an operation comes through.
Course(op, p) ==
  \/ p \in Authenticating /\ op \in Protected
  \/ p \in {"load", "commit role"} /\ op = "role"
  \/ p \in {"check", "rename"} /\ op = "rename"
  \/ p = "lookup" /\ op \in {"login", "register", "addadmin"}
  \/ p \in {"insert", "refresh"} /\ op \in {"register", "addadmin"}
  \/ p = "log" /\ op = "addadmin"
  \/ p \in {"verify", "session"} /\ op = "login"
  \/ p \in {"find", "delete"} /\ op = "logout"
  \/ p \in {"known", "add"} /\ op = "language"
  \/ p \in Resetting /\ op = "reset"

OnCourse == \A h \in Handlers : InFlight(h) => call[h] \in Requests /\ Course(Op(h), pc[h])

\* A table that does not exist holds nothing, and has no index.
TablesHold ==
  /\ "users" \in gone => users = <<>> /\ "index" \in gone
  /\ "sessions" \in gone => \A t \in Tokens : sessions[t] = NoSession
  /\ "logs" \in gone => logs = <<>>

\* One reset at a time drops what there is and nobody makes a table meanwhile.
ResetsInTurn == doubled \/
  /\ \A h, g \in Handlers : Ddl(h) /\ Ddl(g) => h = g
  /\ \A h \in Handlers : pc[h] = "drop" => Tables \subseteq todo[h] \cup gone

\* Who makes the table of users makes its index too, and an index that is missing
\* is still to be made, unless something went wrong.
WillMake(h) == (pc[h] = "drop" /\ "users" \in gone) \/ (pc[h] = "create" /\ "index" \in todo[h])
IndexToCome ==
  /\ crashes \in Nat
  /\ \A h \in Handlers : pc[h] = "create" /\ "users" \in todo[h] => "index" \in todo[h]
  /\ "index" \in gone => crashes > 0 \/ cut \/ \E h \in Handlers : WillMake(h)

\* A token is given once: whoever presents it finds its session or nothing.
TokensSpent ==
  /\ \A g \in Handlers : sessions[g] # NoSession => pc[g] = "done"
  /\ \A h, g \in Handlers :
       InFlight(h) /\ Op(h) \notin {"login", "register"} /\ call[h].token = g => pc[g] = "done"

\* A session that is still valid was valid when the user was read.
Authorised ==
  /\ \A h \in Handlers : Authentic(h) => h \in together
  /\ \A h \in Handlers : pc[h] = "pre user" /\ Live(call[h].token) => sessions[call[h].token].user = me[h].id
  /\ \A h \in Handlers : pc[h] = "auth session" /\ Live(call[h].token) => h \in together
  /\ \A h \in Handlers : pc[h] = "auth user" => h \in together
  /\ AuthorisedAtOnce

\* The row a login has read is still that person's, unless a reset came between.
LoginsBelong == \A h \in Handlers \ strayed :
  pc[h] \in {"verify", "session"} => Exists(me[h].id) /\ users[me[h].id].who = me[h].who

\* What a request is about to write of a role is what it has read, unless another
\* one has touched that user meanwhile.
LogsInHand ==
  /\ \A h \in Handlers, id \in Nat : Touches(h, id) => Exists(id) \/ id \in mixed
  /\ \A h \in Handlers : pc[h] = "commit role" /\ target[h].id \notin mixed =>
       target[h].role = users[target[h].id].role
  /\ \A h \in Handlers : pc[h] = "load" /\ call[h].id = me[h].id /\ me[h].id \notin mixed =>
       me[h].role = users[me[h].id].role
  /\ doubled \/ \A i \in DOMAIN logs, id \in Nat : Concerns(i, id) => Exists(id) \/ id \in mixed

\* A row names the request that made it, which makes no other and holds its id
\* until the log entry is written.
MadeOnce ==
  /\ \A h \in Handlers : pc[h] \in {"refresh", "log"} => target[h].who = h
  /\ \A id \in DOMAIN users, h \in Handlers : users[id].who = h =>
       /\ pc[h] \in {"refresh", "log", "done", "lost"}
       /\ pc[h] \in {"refresh", "log"} => target[h].id = id
       /\ users[id].born = "admin" /\ pc[h] \in {"refresh", "log"} => Op(h) = "addadmin"

LogKinds == logs \in Seq([target : Nat, old : Roles \cup {"", "-"}, new : Roles])

IInv == Kinds /\ OnCourse /\ TokensSpent /\ Authorised /\ NamesUnique
        /\ TablesHold /\ ResetsInTurn /\ IndexToCome
        /\ LoginsBelong /\ SessionBelongs /\ DefaultsRestored
        /\ LogKinds /\ LogsInHand /\ MadeOnce /\ LogExplainsRoles
-----------------------------------------------------------------------------
(* One request at a time *)

LEMMA Fields ==
  ASSUME NEW r \in Requests
  PROVE  /\ r.op \in Protected \cup {"login", "logout", "register"}
         /\ r.op \in Protected \cup {"logout"} => r.token \in Tokens
         /\ r.op \in {"rename", "register", "addadmin", "login"} => r.name \in Names
         /\ r.op = "role" => r.role \in Roles
         /\ r.op = "language" => r.lang \in Languages
BY AccountsAssumption DEF Requests, Protected, Names, Roles

\* What a step does to the request that takes it, and to no other.
Moves(h) ==
  \E c \in {call[h], NoCall}, p \in Places, m, t \in Rows, d \in SUBSET Things :
    /\ call' = [call EXCEPT ![h] = c] /\ pc' = [pc EXCEPT ![h] = p] /\ todo' = [todo EXCEPT ![h] = d]
    /\ me' = [me EXCEPT ![h] = m] /\ target' = [target EXCEPT ![h] = t]
    /\ IF p \in AtRest THEN p = "done" /\ c = NoCall ELSE c = call[h] /\ Course(c.op, p)

LEMMA AnswerMoves == ASSUME Kinds, NEW h \in Handlers, Answer(h) PROVE Moves(h)
<1>1. NoRow \in Rows /\ "done" \in Places /\ "done" \in AtRest /\ {} \in SUBSET Things
  BY DEF NoRow, Rows, Places, AtRest
<1> QED BY <1>1 DEF Answer, Moves

LEMMA GotoMoves ==
  ASSUME Kinds, NEW h \in Handlers, NEW p \in Places \ AtRest, Goto(h, p), Course(Op(h), p),
         NEW m \in Rows, NEW t \in Rows, me' = [me EXCEPT ![h] = m], target' = [target EXCEPT ![h] = t]
  PROVE  Moves(h)
<1>1. call' = [call EXCEPT ![h] = call[h]] /\ todo' = [todo EXCEPT ![h] = todo[h]] /\ todo[h] \in SUBSET Things
  BY DEF Goto, Kinds
<1> QED BY <1>1 DEF Goto, Moves, Op

LEMMA GotoOnly ==
  ASSUME Kinds, NEW h \in Handlers, NEW p \in Places \ AtRest, Goto(h, p), Course(Op(h), p), UNCHANGED <<me, target>>
  PROVE  Moves(h)
<1>1. me' = [me EXCEPT ![h] = me[h]] /\ target' = [target EXCEPT ![h] = target[h]]
      /\ me[h] \in Rows /\ target[h] \in Rows
  BY DEF Kinds
<1> QED BY <1>1, GotoMoves

LEMMA UserIsRow == ASSUME Kinds, NEW id \in DOMAIN users PROVE Row(id) \in Rows /\ Row(id).id = id
<1>1. users[id] \in UserRows /\ id \in Nat
  BY DEF Kinds
<1> QED BY <1>1 DEF Row, Rows, UserRows

LEMMA Domain == ASSUME Kinds PROVE DOMAIN users = 1 .. Len(users) /\ Len(users) \in Nat
BY DEF Kinds

\* Where a request is in flight its operation is known.
LEMMA Known ==
  ASSUME Kinds, OnCourse, NEW h \in Handlers, pc[h] \notin AtRest
  PROVE  call[h] \in Requests /\ Course(Op(h), pc[h])
BY DEF OnCourse, InFlight, AtRest

\* The steps that change which tables there are.
Ddling(h) == ListTables(h) \/ DropTable(h) \/ ListMissing(h) \/ CreateTable(h) \/ StatementFails(h)

LEMMA DdlingMoves ==
  ASSUME Kinds, OnCourse, NEW h \in Handlers, Ddling(h)
  PROVE  pc[h] \in {"list", "drop", "create"} /\ Moves(h)
<1>1. pc[h] \in {"list", "drop", "create"}
  BY DEF Ddling, ListTables, DropTable, ListMissing, CreateTable, StatementFails, Ddl
<1>2. Op(h) = "reset"
  BY <1>1, Known DEF AtRest, Course, Authenticating
<1>3. CASE StatementFails(h)
  BY <1>1, <1>3, AnswerMoves DEF StatementFails, BreakOff
<1>4. CASE ~StatementFails(h)
  <2>1. UNCHANGED <<call, me, target>>
    BY <1>4 DEF Ddling, ListTables, DropTable, ListMissing, CreateTable
  <2>2. PICK p \in {"drop", "create"} : pc' = [pc EXCEPT ![h] = p]
    BY <1>4 DEF Ddling, ListTables, DropTable, ListMissing, CreateTable, Kinds
  <2>3. PICK d \in SUBSET Things : todo' = [todo EXCEPT ![h] = d]
    BY <1>4 DEF Ddling, ListTables, DropTable, ListMissing, CreateTable, Missing, Things, Kinds
  <2>4. call' = [call EXCEPT ![h] = call[h]] /\ me' = [me EXCEPT ![h] = me[h]] /\ target' = [target EXCEPT ![h] = target[h]]
        /\ me[h] \in Rows /\ target[h] \in Rows
    BY <2>1 DEF Kinds
  <2>5. p \in Places \ AtRest /\ Course(call[h].op, p)
    BY <1>2, <2>2 DEF Places, AtRest, Course, Resetting, Op
  <2>6. Moves(h)
    BY <2>2, <2>3, <2>4, <2>5 DEF Moves
  <2> QED BY <1>1, <2>6
<1> QED BY <1>3, <1>4

LEMMA StepMoves == ASSUME Kinds, OnCourse, NEW h \in Handlers, Step(h) PROVE pc[h] \notin AtRest /\ Moves(h)
<1>1. pc[h] \notin AtRest
  BY DEF AtRest, Step, AuthSession, AuthUser, LoadTarget, CommitRole, Lookup, Insert, Refresh, LogAdmin,
         CheckName, CommitName, LoginLookup, Verify, NewSession, FindSession, DeleteSession, KnownLanguage,
         AddLanguage, ListTables, DropTable, ListMissing, CreateTable, StatementFails, Ddl, FindAdmin, AddRoot,
         FindLanguage, AddDefault
<1> SUFFICES Moves(h)
  BY <1>1
<1>2. call[h] \in Requests /\ Course(Op(h), pc[h])
  BY <1>1, Known
<1>3. NoRow \in Rows /\ \A n \in Nat, w \in People \cup {"nobody"} :
                            [NoRow EXCEPT !.id = n] \in Rows /\ [NoRow EXCEPT !.id = n, !.who = w] \in Rows
  BY DEF NoRow, Rows
<1>4. CASE AuthSession(h)
  <2>1. Op(h) \in Protected
    BY <1>2, <1>4 DEF AuthSession, Course, Authenticating, Resetting
  <2>2. CASE Answer(h)
    BY <2>2, AnswerMoves
  <2>3. ASSUME sessions[call[h].token].live, me' = [me EXCEPT ![h] = [NoRow EXCEPT !.id = sessions[call[h].token].user]],
               Goto(h, IF pc[h] = "pre session" THEN "pre user" ELSE "auth user"), UNCHANGED target
        PROVE  Moves(h)
    <3>1. sessions[call[h].token] \in SessionRows
      BY <1>2, <2>1, Fields DEF Kinds, Op
    <3>2. sessions[call[h].token].user \in Nat
      BY <3>1 DEF SessionRows, NoSession
    <3>3. target' = [target EXCEPT ![h] = target[h]] /\ target[h] \in Rows
      BY <2>3 DEF Kinds
    <3>4. \A p \in {"pre user", "auth user"} : p \in Places \ AtRest /\ Course(Op(h), p)
      BY <2>1 DEF Places, AtRest, Course, Authenticating
    <3> QED BY <1>3, <2>3, <3>2, <3>3, <3>4, GotoMoves
  <2> QED BY <1>4, <2>2, <2>3 DEF AuthSession
<1>5. CASE AuthUser(h)
  <2>1. Op(h) \in Protected
    BY <1>2, <1>5 DEF AuthUser, Course, Authenticating, Resetting
  <2>2. CASE Answer(h)
    BY <2>2, AnswerMoves
  <2>3. ASSUME Exists(me[h].id), me' = [me EXCEPT ![h] = Row(me[h].id)], UNCHANGED target,
               Goto(h, IF pc[h] = "pre user" THEN "auth session" ELSE Work(Op(h)))
        PROVE  Moves(h)
    <3>1. Row(me[h].id) \in Rows
      BY <2>3, Domain, UserIsRow DEF Exists
    <3>2. target' = [target EXCEPT ![h] = target[h]] /\ target[h] \in Rows
      BY <2>3 DEF Kinds
    <3>3. \A p \in {"auth session", Work(Op(h))} : p \in Places \ AtRest /\ Course(Op(h), p)
      BY <2>1 DEF Places, AtRest, Course, Authenticating, Resetting, Work, Protected
    <3> QED BY <2>3, <3>1, <3>2, <3>3, GotoMoves
  <2> QED BY <1>5, <2>2, <2>3 DEF AuthUser
<1>6. CASE LoadTarget(h)
  <2>1. Op(h) = "role"
    BY <1>2, <1>6 DEF LoadTarget, Course, Authenticating, Resetting
  <2>2. CASE Answer(h)
    BY <2>2, AnswerMoves
  <2>3. ASSUME call[h].id = me[h].id \/ Exists(call[h].id), UNCHANGED me, Goto(h, "commit role"),
               target' = [target EXCEPT ![h] = IF call[h].id = me[h].id THEN me[h] ELSE Row(call[h].id)]
        PROVE  Moves(h)
    <3>1. me[h] \in Rows /\ me' = [me EXCEPT ![h] = me[h]]
      BY <2>3 DEF Kinds
    <3>2. (IF call[h].id = me[h].id THEN me[h] ELSE Row(call[h].id)) \in Rows
      BY <2>3, <3>1, Domain, UserIsRow DEF Exists
    <3>3. "commit role" \in Places \ AtRest /\ Course(Op(h), "commit role")
      BY <2>1 DEF Places, AtRest, Course
    <3> QED BY <2>3, <3>1, <3>2, <3>3, GotoMoves
  <2> QED BY <1>6, <2>2, <2>3 DEF LoadTarget
<1>7. CASE Answer(h)
  BY <1>7, AnswerMoves
<1>8. CASE Insert(h) /\ ~Answer(h)
  <2>1. Op(h) \in {"register", "addadmin"}
    BY <1>2, <1>8 DEF Insert, Course, Authenticating, Resetting
  <2>2. target' = [target EXCEPT ![h] = [NoRow EXCEPT !.id = Len(users) + 1, !.who = h]] /\ Goto(h, "refresh") /\ UNCHANGED me
    BY <1>8 DEF Insert
  <2>3. [NoRow EXCEPT !.id = Len(users) + 1, !.who = h] \in Rows
    <3>1. Len(users) + 1 \in Nat /\ h \in People \cup {"nobody"}
      BY Domain DEF People
    <3> QED BY <1>3, <3>1
  <2>4. me[h] \in Rows /\ me' = [me EXCEPT ![h] = me[h]]
    BY <2>2 DEF Kinds
  <2>5. "refresh" \in Places \ AtRest /\ Course(Op(h), "refresh")
    BY <2>1 DEF Places, AtRest, Course
  <2> QED BY <2>2, <2>3, <2>4, <2>5, GotoMoves
<1>9. CASE LoginLookup(h) /\ ~Answer(h)
  <2>1. Op(h) = "login"
    BY <1>9 DEF LoginLookup
  <2>2. PICK id \in DOMAIN users : me' = [me EXCEPT ![h] = Row(id)]
    BY <1>9 DEF LoginLookup
  <2>3. Goto(h, "verify") /\ target' = [target EXCEPT ![h] = target[h]] /\ target[h] \in Rows
    BY <1>9 DEF LoginLookup, Kinds
  <2>4. "verify" \in Places \ AtRest /\ Course(Op(h), "verify")
    BY <2>1 DEF Places, AtRest, Course
  <2> QED BY <2>2, <2>3, <2>4, UserIsRow, GotoMoves
<1>10. CASE (Lookup(h) \/ Refresh(h) \/ CheckName(h)) /\ ~Answer(h)
  <2>1. PICK p \in {"insert", "log", "rename"} : Goto(h, p) /\ UNCHANGED <<me, target>> /\ Course(Op(h), p)
    BY <1>2, <1>10 DEF Lookup, Refresh, CheckName, Course, Authenticating, Resetting
  <2> QED BY <2>1, GotoOnly DEF Places, AtRest
<1>11. CASE (Verify(h) \/ FindSession(h) \/ KnownLanguage(h)) /\ ~Answer(h)
  <2>1. PICK p \in {"session", "delete", "add"} : Goto(h, p) /\ UNCHANGED <<me, target>> /\ Course(Op(h), p)
    BY <1>2, <1>11 DEF Verify, FindSession, KnownLanguage, Course, Authenticating, Resetting
  <2> QED BY <2>1, GotoOnly DEF Places, AtRest
<1>12. CASE (FindAdmin(h) \/ AddRoot(h) \/ FindLanguage(h)) /\ ~Answer(h)
  <2>1. Op(h) = "reset"
    BY <1>2, <1>12 DEF FindAdmin, AddRoot, FindLanguage, Course, Authenticating
  <2>2. PICK p \in Resetting : Goto(h, p) /\ UNCHANGED <<me, target>>
    BY <1>12 DEF FindAdmin, AddRoot, FindLanguage, BreakOff, Resetting
  <2>3. p \in Places \ AtRest /\ Course(Op(h), p)
    BY <2>1 DEF Places, AtRest, Course, Resetting
  <2> QED BY <2>2, <2>3, GotoOnly
<1>13. CASE Ddling(h)
  BY <1>13, DdlingMoves
<1> QED BY <1>1, <1>4, <1>5, <1>6, <1>7, <1>8, <1>9, <1>10, <1>11, <1>12, <1>13
        DEF Step, CommitRole, LogAdmin, CommitName, NewSession, DeleteSession, AddLanguage, AddDefault, BreakOff, Ddling

LEMMA BeginMoves ==
  ASSUME Kinds, NEW h \in Handlers, Begin(h)
  PROVE  /\ pc[h] = "idle" /\ UNCHANGED <<db, me, target, todo, ghosts, crashes>>
         /\ \E r \in Requests, p \in Places \ AtRest :
              /\ call' = [call EXCEPT ![h] = r] /\ pc' = [pc EXCEPT ![h] = p] /\ Course(r.op, p)
              /\ p \in {"lookup", "find", "pre session"}
              /\ p = "lookup" => r.op \in {"login", "register"}
              /\ r.op \notin {"login", "register"} => sessions[r.token] # NoSession
<1> PICK r \in Requests :
      /\ call' = [call EXCEPT ![h] = r] /\ pc' = [pc EXCEPT ![h] = FirstStep(r.op)]
      /\ r.op \notin {"login", "register"} => sessions[r.token] # NoSession
  BY DEF Begin
<1>1. /\ FirstStep(r.op) \in {"lookup", "find", "pre session"} /\ Course(r.op, FirstStep(r.op))
      /\ FirstStep(r.op) = "lookup" => r.op \in {"login", "register"}
  BY Fields DEF FirstStep, Course, Authenticating, Protected
<1>2. FirstStep(r.op) \in Places \ AtRest
  BY <1>1 DEF Places, AtRest, Authenticating
<1>3. pc[h] = "idle" /\ UNCHANGED <<db, me, target, todo, ghosts, crashes>>
  BY DEF Begin
<1> DEFINE p == FirstStep(r.op)
<1>4. /\ call' = [call EXCEPT ![h] = r] /\ pc' = [pc EXCEPT ![h] = p] /\ Course(r.op, p)
      /\ p \in {"lookup", "find", "pre session"} /\ p \in Places \ AtRest
      /\ p = "lookup" => r.op \in {"login", "register"}
  BY <1>1, <1>2
<1> HIDE DEF p
<1> QED BY <1>3, <1>4

-----------------------------------------------------------------------------
(* The tables *)

\* What a step does to the table users: a new name is one that nobody has, as
\* long as there is the index.
UsersMove ==
  \/ UNCHANGED users
  \/ \E u \in UserRows : ~Refused(u.name) /\ users' = Append(users, u)
  \/ \E i \in DOMAIN users, r \in Roles : users' = [users EXCEPT ![i].role = r]
  \/ \E i \in DOMAIN users, n \in Names : ~Refused(n) /\ users' = [users EXCEPT ![i].name = n]
  \/ /\ users' = <<>> /\ UNCHANGED sessions
     /\ doubled \/ ("logs" \in gone /\ "sessions" \in gone)
     /\ \A g \in Handlers : InFlight(g) /\ Op(g) = "login" => g \in strayed'

LEMMA RootRow == Root \in UserRows /\ Root.name = "admin"
BY DEF Root, User, UserRows, Names, Roles, People

\* When the users are dropped, their sessions and the log are gone.
LEMMA UsersGoLast ==
  ASSUME Kinds, ResetsInTurn, NEW h \in Handlers, pc[h] = "drop", Foremost("users", DropRank, todo[h])
  PROVE  doubled \/ ("logs" \in gone /\ "sessions" \in gone)
<1>1. ASSUME NEW t \in {"logs", "sessions"} PROVE t \notin todo[h]
  BY <1>1 DEF Foremost, DropRank
<1> QED BY <1>1 DEF ResetsInTurn, Tables

LEMMA StepOnUsers == ASSUME Kinds, OnCourse, ResetsInTurn, NEW h \in Handlers, Step(h) PROVE UsersMove
<1>1. CASE UNCHANGED users
  BY <1>1 DEF UsersMove
<1>2. CASE CommitRole(h) /\ users' # users
  <2>1. call[h].role \in Roles
    <3>1. pc[h] = "commit role" /\ pc[h] \notin AtRest
      BY <1>2 DEF CommitRole, AtRest
    <3>2. call[h] \in Requests /\ Op(h) = "role"
      BY <3>1, Known DEF Course, Authenticating, Resetting
    <3> QED BY <3>2, Fields DEF Op
  <2>2. Exists(target[h].id) /\ users' = [users EXCEPT ![target[h].id].role = call[h].role]
    BY <1>2 DEF CommitRole
  <2> QED BY <2>1, <2>2, Domain DEF UsersMove, Exists
<1>3. CASE Insert(h) /\ users' # users
  <2>1. pc[h] = "insert" /\ pc[h] \notin AtRest
    BY <1>3 DEF Insert, AtRest
  <2>2. call[h].name \in Names
    BY <2>1, Known, Fields DEF Course, Authenticating, Resetting, Op
  <2> DEFINE u == User(call[h].name, IF Op(h) = "addadmin" THEN "admin" ELSE "user", h)
  <2>3. u \in UserRows /\ u.name = call[h].name
    BY <2>2 DEF User, UserRows, Roles, People
  <2>4. ~Refused(call[h].name) /\ users' = Append(users, u)
    BY <1>3 DEF Insert
  <2> HIDE DEF u
  <2> QED BY <2>3, <2>4 DEF UsersMove
<1>4. CASE CommitName(h) /\ users' # users
  <2>1. pc[h] = "rename" /\ pc[h] \notin AtRest
    BY <1>4 DEF CommitName, AtRest
  <2>2. call[h].name \in Names
    BY <2>1, Known, Fields DEF Course, Authenticating, Resetting, Op
  <2>3. Exists(me[h].id) /\ ~Refused(call[h].name) /\ users' = [users EXCEPT ![me[h].id].name = call[h].name]
    BY <1>4 DEF CommitName
  <2> QED BY <2>2, <2>3, Domain DEF UsersMove, Exists
<1>5. CASE DropTable(h) /\ users' # users
  <2>1. /\ pc[h] = "drop" /\ Foremost("users", DropRank, todo[h]) /\ users' = <<>> /\ UNCHANGED sessions
        /\ strayed' = strayed \cup {g \in Handlers : InFlight(g) /\ Op(g) = "login"}
    BY <1>5 DEF DropTable
  <2> QED BY <2>1, UsersGoLast DEF UsersMove
<1>6. CASE AddRoot(h) /\ users' # users
  BY <1>6, RootRow DEF AddRoot, UsersMove
<1> QED BY <1>1, <1>2, <1>3, <1>4, <1>5, <1>6
        DEF Step, AuthSession, AuthUser, LoadTarget, Lookup, Refresh, LogAdmin, CheckName, LoginLookup, Verify,
            NewSession, FindSession, DeleteSession, KnownLanguage, AddLanguage, ListTables, ListMissing, CreateTable,
            StatementFails, FindAdmin, FindLanguage, AddDefault, db

LEMMA NextOnUsers == ASSUME Kinds, OnCourse, ResetsInTurn, [Next]_vars PROVE UsersMove
<1>1. CASE \E h \in Handlers : Begin(h)
  BY <1>1 DEF Begin, db, UsersMove
<1>2. CASE \E h \in Handlers : Step(h)
  BY <1>2, StepOnUsers
<1>3. CASE (\E t \in Tokens : Expire(t)) \/ UNCHANGED vars
  BY <1>3 DEF Expire, vars, db, UsersMove
<1>4. CASE Restart
  BY <1>4, RootRow DEF Restart, UsersMove, Refused
<1> QED BY <1>1, <1>2, <1>3, <1>4 DEF Next

LEMMA UsersKind == ASSUME Kinds, UsersMove PROVE users' \in Seq(UserRows)
<1>1. users \in Seq(UserRows)
  BY DEF Kinds
<1>2. CASE \E i \in DOMAIN users, r \in Roles : users' = [users EXCEPT ![i].role = r]
  <2> PICK i \in DOMAIN users, r \in Roles : users' = [users EXCEPT ![i].role = r]
    BY <1>2
  <2>1. users[i] \in UserRows
    BY <1>1
  <2>2. [users[i] EXCEPT !.role = r] \in UserRows
    BY <2>1 DEF UserRows
  <2> QED BY <1>1, <2>2
<1>3. CASE \E i \in DOMAIN users, n \in Names : users' = [users EXCEPT ![i].name = n]
  <2> PICK i \in DOMAIN users, n \in Names : users' = [users EXCEPT ![i].name = n]
    BY <1>3
  <2>1. users[i] \in UserRows
    BY <1>1
  <2>2. [users[i] EXCEPT !.name = n] \in UserRows
    BY <2>1 DEF UserRows
  <2> QED BY <1>1, <2>2
<1>4. CASE \E u \in UserRows : users' = Append(users, u)
  BY <1>1, <1>4
<1>5. CASE users' = <<>>
  BY <1>5
<1> QED BY <1>1, <1>2, <1>3, <1>4, <1>5 DEF UsersMove

\* The unique index: nobody gets a name that somebody has.
LEMMA NamesStay == ASSUME Kinds, UsersMove, Has("index"), DistinctNames PROVE DistinctNames'
<1>1. users \in Seq(UserRows) /\ \A n : ~Refused(n) => ~Taken(n)
  BY DEF Kinds, Refused
<1>2. CASE \E u \in UserRows : ~Refused(u.name) /\ users' = Append(users, u)
  BY <1>1, <1>2 DEF DistinctNames, Taken
<1>3. CASE \E i \in DOMAIN users, r \in Roles : users' = [users EXCEPT ![i].role = r]
  <2> PICK i \in DOMAIN users, r \in Roles : users' = [users EXCEPT ![i].role = r]
    BY <1>3
  <2>1. DOMAIN users' = DOMAIN users /\ \A j \in DOMAIN users : users'[j].name = users[j].name
    BY <1>1 DEF UserRows
  <2> QED BY <2>1 DEF DistinctNames
<1>4. CASE \E i \in DOMAIN users, n \in Names : ~Refused(n) /\ users' = [users EXCEPT ![i].name = n]
  <2> PICK i \in DOMAIN users, n \in Names : ~Taken(n) /\ users' = [users EXCEPT ![i].name = n]
    BY <1>1, <1>4
  <2>1. DOMAIN users' = DOMAIN users /\ \A j \in DOMAIN users : users'[j].name = IF j = i THEN n ELSE users[j].name
    BY <1>1 DEF UserRows
  <2> QED BY <2>1 DEF DistinctNames, Taken
<1> QED BY <1>2, <1>3, <1>4 DEF UsersMove, DistinctNames

\* A row keeps its person as long as its table stands.
LEMMA PersonsStay ==
  ASSUME Kinds, TablesHold, UsersMove, NEW id, Exists(id)
  PROVE  \/ Exists(id)' /\ users'[id].who = users[id].who
         \/ /\ doubled \/ \A t \in Tokens : sessions'[t] = NoSession
            /\ \A g \in Handlers : InFlight(g) /\ Op(g) = "login" => g \in strayed'
<1>1. users \in Seq(UserRows) /\ id \in 1 .. Len(users)
  BY DEF Kinds, Exists
<1>2. CASE \E u \in UserRows : users' = Append(users, u)
  BY <1>1, <1>2 DEF Exists
<1>3. CASE \E i \in DOMAIN users, r \in Roles : users' = [users EXCEPT ![i].role = r]
  BY <1>1, <1>3 DEF Exists, UserRows
<1>4. CASE \E i \in DOMAIN users, n \in Names : users' = [users EXCEPT ![i].name = n]
  BY <1>1, <1>4 DEF Exists, UserRows
<1>5. CASE UNCHANGED users
  BY <1>1, <1>5 DEF Exists
<1>6. "sessions" \in gone /\ UNCHANGED sessions => \A t \in Tokens : sessions'[t] = NoSession
  BY DEF TablesHold
<1> QED BY <1>2, <1>3, <1>4, <1>5, <1>6 DEF UsersMove

\* What a step does to the table sessions: only a login makes a session, under
\* a token of its own.
SessionsMove ==
  \/ UNCHANGED sessions
  \/ sessions' = [t \in Tokens |-> NoSession]
  \/ \E t \in Tokens : sessions' = [sessions EXCEPT ![t] = NoSession]
  \/ \E t \in Tokens : Live(t) /\ sessions' = [sessions EXCEPT ![t].live = FALSE]
  \/ \E g \in Handlers :
       /\ pc[g] = "session" /\ pc'[g] = "done" /\ UNCHANGED <<users, strayed>> /\ Has("sessions")
       /\ sessions' = [sessions EXCEPT ![g] = [user |-> me[g].id, who |-> me[g].who, live |-> TRUE]]

LEMMA NextOnSessions == ASSUME Kinds, OnCourse, [Next]_vars PROVE SessionsMove
<1>1. CASE UNCHANGED sessions
  BY <1>1 DEF SessionsMove
<1>2. ASSUME NEW h \in Handlers, DropTable(h) PROVE SessionsMove
  BY <1>2 DEF DropTable, SessionsMove
<1>3. ASSUME NEW h \in Handlers, DeleteSession(h) PROVE SessionsMove
  <2>1. pc[h] = "delete" /\ pc[h] \notin AtRest
    BY <1>3 DEF DeleteSession, AtRest
  <2>2. call[h].token \in Tokens
    BY <2>1, Known, Fields DEF Course, Authenticating, Resetting, Op
  <2> QED BY <1>3, <2>2 DEF DeleteSession, SessionsMove
<1>4. ASSUME NEW h \in Handlers, NewSession(h), Has("sessions") PROVE SessionsMove
  <2>1. pc[h] = "session" /\ pc'[h] = "done" /\ UNCHANGED <<users, strayed>>
    BY <1>4 DEF NewSession, Answer, Kinds, Same, ghosts
  <2>2. sessions' = [sessions EXCEPT ![h] = [user |-> me[h].id, who |-> me[h].who, live |-> TRUE]]
    BY <1>4 DEF NewSession
  <2> QED BY <1>4, <2>1, <2>2 DEF SessionsMove
<1>5. CASE \E t \in Tokens : Expire(t)
  BY <1>5 DEF Expire, SessionsMove
<1>6. ASSUME NEW h \in Handlers, Step(h), ~DropTable(h), ~DeleteSession(h), ~NewSession(h) \/ ~Has("sessions")
      PROVE  UNCHANGED sessions
  BY <1>6 DEF Step, AuthSession, AuthUser, LoadTarget, CommitRole, Lookup, Insert, Refresh, LogAdmin, CheckName,
              CommitName, LoginLookup, Verify, NewSession, FindSession, KnownLanguage, AddLanguage, ListTables,
              ListMissing, CreateTable, StatementFails, FindAdmin, AddRoot, FindLanguage, AddDefault, db
<1> QED BY <1>1, <1>2, <1>3, <1>4, <1>5, <1>6 DEF Next, Begin, Restart, vars, db

LEMMA TokenKinds == Handlers \subseteq Tokens /\ "ta" \notin Handlers /\ "tb" \notin Handlers
BY AccountsAssumption DEF Tokens

LEMMA SessionsKind == ASSUME Kinds, SessionsMove PROVE sessions' \in [Tokens -> SessionRows]
<1>1. sessions \in [Tokens -> SessionRows] /\ NoSession \in SessionRows
  BY DEF Kinds, SessionRows
<1>2. ASSUME NEW t \in Tokens, Live(t) PROVE [sessions[t] EXCEPT !.live = FALSE] \in SessionRows
  <2>1. sessions[t] \in [user : Nat, who : People \cup {"nobody"}, live : BOOLEAN]
    BY <1>1, <1>2 DEF SessionRows, NoSession, Live
  <2> QED BY <2>1 DEF SessionRows
<1>3. ASSUME NEW g \in Handlers PROVE [user |-> me[g].id, who |-> me[g].who, live |-> TRUE] \in SessionRows
  BY DEF Kinds, Rows, SessionRows
<1>4. CASE \E t \in Tokens : Live(t) /\ sessions' = [sessions EXCEPT ![t].live = FALSE]
  BY <1>1, <1>2, <1>4
<1>5. CASE \E g \in Handlers : sessions' = [sessions EXCEPT ![g] = [user |-> me[g].id, who |-> me[g].who, live |-> TRUE]]
  BY <1>1, <1>3, <1>5, TokenKinds
<1> QED BY <1>1, <1>4, <1>5 DEF SessionsMove

LEMMA LangsKind == ASSUME Kinds, [Next]_vars PROVE langs' \in [Languages -> LanguageRows]
<1>1. /\ langs \in [Languages -> LanguageRows] /\ "python" \in Languages
      /\ NoLanguage \in LanguageRows /\ Default \in LanguageRows
      /\ \A h \in Handlers : [run |-> h, limits |-> h] \in LanguageRows
      /\ \A row \in LanguageRows : [row EXCEPT !.run = "system"] \in LanguageRows
  BY DEF Kinds, Languages, LanguageRows, NoLanguage, Default
<1>2. CASE UNCHANGED langs
  BY <1>1, <1>2
<1>3. ASSUME NEW h \in Handlers, AddLanguage(h) \/ DropTable(h) PROVE langs' \in [Languages -> LanguageRows]
  BY <1>1, <1>3 DEF AddLanguage, DropTable
<1>4. CASE Restart
  BY <1>1, <1>4 DEF Restart
<1>5. ASSUME NEW h \in Handlers, AddDefault(h) PROVE langs' \in [Languages -> LanguageRows]
  <2>1. CASE UNCHANGED langs
    BY <1>1, <2>1
  <2>2. ASSUME NEW row \in LanguageRows, langs' = [langs EXCEPT !["python"] = row] PROVE langs' \in [Languages -> LanguageRows]
    BY <1>1, <2>2
  <2>3. langs["python"] \in LanguageRows
    BY <1>1
  <2> QED BY <1>1, <1>5, <2>1, <2>2, <2>3 DEF AddDefault
<1>6. ASSUME NEW h \in Handlers, Step(h), ~AddLanguage(h), ~DropTable(h), ~AddDefault(h) PROVE UNCHANGED langs
  BY <1>6 DEF Step, AuthSession, AuthUser, LoadTarget, CommitRole, Lookup, Insert, Refresh, LogAdmin, CheckName,
              CommitName, LoginLookup, Verify, NewSession, FindSession, DeleteSession, KnownLanguage, ListTables,
              ListMissing, CreateTable, StatementFails, FindAdmin, AddRoot, FindLanguage, db
<1> QED BY <1>2, <1>3, <1>4, <1>5, <1>6 DEF Next, Begin, Expire, vars, db

-----------------------------------------------------------------------------
(* The requests *)

Stays(h) == pc'[h] = pc[h] /\ call'[h] = call[h] /\ me'[h] = me[h] /\ target'[h] = target[h]
Starts(h) ==
  /\ pc[h] = "idle" /\ Begin(h) /\ me'[h] = me[h] /\ target'[h] = target[h] /\ call'[h] \in Requests
  /\ pc'[h] \in {"lookup", "find", "pre session"} /\ Course(call'[h].op, pc'[h])
  /\ pc'[h] = "lookup" => call'[h].op \in {"login", "register"}
  /\ call'[h].op \notin {"login", "register"} => sessions[call'[h].token] # NoSession
Advances(h) ==
  /\ Step(h) /\ pc[h] \notin AtRest /\ call'[h] = call[h] /\ call[h] \in Requests
  /\ pc'[h] \in Places \ AtRest /\ Course(call[h].op, pc'[h]) /\ me'[h] \in Rows /\ target'[h] \in Rows
Rests(h) ==
  /\ pc'[h] \in AtRest /\ (pc[h] = "done" => pc'[h] = "done") /\ (pc'[h] = "idle" => pc[h] = "idle")
  /\ call'[h] = NoCall /\ me'[h] \in Rows /\ target'[h] \in Rows

\* What any step means to any request.
LEMMA Requesting ==
  ASSUME Kinds, OnCourse, [Next]_vars
  PROVE  /\ \A h \in Handlers : Stays(h) \/ Starts(h) \/ Advances(h) \/ Rests(h)
         /\ DOMAIN call' = Handlers /\ call' = [h \in Handlers |-> call'[h]]
         /\ pc' = [h \in Handlers |-> pc'[h]]
         /\ me' = [h \in Handlers |-> me'[h]] /\ target' = [h \in Handlers |-> target'[h]]
<1>1. CASE UNCHANGED <<call, pc, me, target>>
  BY <1>1 DEF Stays, Kinds
<1>2. ASSUME NEW g \in Handlers, Step(g)
      PROVE  /\ \A h \in Handlers : Stays(h) \/ Starts(h) \/ Advances(h) \/ Rests(h)
             /\ DOMAIN call' = Handlers /\ call' = [h \in Handlers |-> call'[h]]
             /\ pc' = [h \in Handlers |-> pc'[h]]
             /\ me' = [h \in Handlers |-> me'[h]] /\ target' = [h \in Handlers |-> target'[h]]
  <2>1. pc[g] \notin AtRest /\ Moves(g) /\ call[g] \in Requests
    BY <1>2, StepMoves, Known
  <2> PICK c \in {call[g], NoCall}, p \in Places, m, t \in Rows, d \in SUBSET Things :
        /\ call' = [call EXCEPT ![g] = c] /\ pc' = [pc EXCEPT ![g] = p] /\ todo' = [todo EXCEPT ![g] = d]
        /\ me' = [me EXCEPT ![g] = m] /\ target' = [target EXCEPT ![g] = t]
        /\ IF p \in AtRest THEN p = "done" /\ c = NoCall ELSE c = call[g] /\ Course(c.op, p)
    BY <2>1 DEF Moves
  <2>2. \A h \in Handlers : h # g => Stays(h)
    BY DEF Stays, Kinds
  <2>3. pc'[g] = p /\ call'[g] = c /\ me'[g] = m /\ target'[g] = t
    BY DEF Kinds
  <2>4. Advances(g) \/ Rests(g)
    BY <1>2, <2>1, <2>3 DEF Advances, Rests
  <2>5. DOMAIN call' = Handlers /\ call' = [h \in Handlers |-> call'[h]] /\ pc' = [h \in Handlers |-> pc'[h]]
        /\ me' = [h \in Handlers |-> me'[h]] /\ target' = [h \in Handlers |-> target'[h]]
    BY DEF Kinds
  <2> QED BY <2>2, <2>4, <2>5
<1>3. ASSUME NEW g \in Handlers, Begin(g)
      PROVE  /\ \A h \in Handlers : Stays(h) \/ Starts(h) \/ Advances(h) \/ Rests(h)
             /\ DOMAIN call' = Handlers /\ call' = [h \in Handlers |-> call'[h]]
             /\ pc' = [h \in Handlers |-> pc'[h]]
             /\ me' = [h \in Handlers |-> me'[h]] /\ target' = [h \in Handlers |-> target'[h]]
  <2> PICK r \in Requests, p \in Places \ AtRest :
        /\ call' = [call EXCEPT ![g] = r] /\ pc' = [pc EXCEPT ![g] = p] /\ Course(r.op, p)
        /\ p \in {"lookup", "find", "pre session"}
        /\ p = "lookup" => r.op \in {"login", "register"}
        /\ r.op \notin {"login", "register"} => sessions[r.token] # NoSession
    BY <1>3, BeginMoves
  <2>1. pc[g] = "idle" /\ UNCHANGED <<me, target>>
    BY <1>3, BeginMoves
  <2>2. \A h \in Handlers : h # g => Stays(h)
    BY <2>1 DEF Stays, Kinds
  <2>3. Starts(g)
    BY <1>3, <2>1 DEF Starts, Kinds
  <2>4. DOMAIN call' = Handlers /\ call' = [h \in Handlers |-> call'[h]] /\ pc' = [h \in Handlers |-> pc'[h]]
        /\ me' = [h \in Handlers |-> me'[h]] /\ target' = [h \in Handlers |-> target'[h]]
    BY <2>1 DEF Kinds
  <2> QED BY <2>2, <2>3, <2>4
<1>4. CASE Restart
  <2>1. NoRow \in Rows /\ "lost" \in AtRest
    BY DEF NoRow, Rows, AtRest
  <2> QED BY <1>4, <2>1 DEF Restart, InFlight, Rests, AtRest, Kinds
<1> QED BY <1>1, <1>2, <1>3, <1>4 DEF Next, Expire, vars, local

LEMMA ThingsKind == ASSUME Kinds, OnCourse, [Next]_vars PROVE gone' \subseteq Things /\ todo' \in [Handlers -> SUBSET Things]
<1>1. ASSUME NEW h \in Handlers, Step(h) PROVE todo' \in [Handlers -> SUBSET Things]
  BY <1>1, StepMoves DEF Moves, Kinds
<1>2. ASSUME NEW h \in Handlers, DropTable(h) PROVE gone' \subseteq Things
  BY <1>2 DEF DropTable, Without, Things, Kinds
<1>3. ASSUME NEW h \in Handlers, CreateTable(h) PROVE gone' \subseteq Things
  BY <1>3 DEF CreateTable, Kinds
<1>4. ASSUME NEW h \in Handlers, Step(h), ~DropTable(h), ~CreateTable(h) PROVE UNCHANGED gone
  BY <1>4 DEF Step, AuthSession, AuthUser, LoadTarget, CommitRole, Lookup, Insert, Refresh, LogAdmin, CheckName,
              CommitName, LoginLookup, Verify, NewSession, FindSession, DeleteSession, KnownLanguage, AddLanguage,
              ListTables, ListMissing, StatementFails, FindAdmin, AddRoot, FindLanguage, AddDefault, db
<1>5. CASE Restart
  BY <1>5 DEF Restart, Kinds
<1>6. CASE UNCHANGED <<gone, todo>>
  BY <1>6 DEF Kinds
<1> QED BY <1>1, <1>2, <1>3, <1>4, <1>5, <1>6 DEF Next, Begin, Expire, vars, db, local, Kinds

LEMMA KindsStep == ASSUME Kinds, OnCourse, ResetsInTurn, [Next]_vars PROVE Kinds' /\ OnCourse'
<1>1. /\ users' \in Seq(UserRows) /\ sessions' \in [Tokens -> SessionRows] /\ langs' \in [Languages -> LanguageRows]
      /\ gone' \subseteq Things /\ todo' \in [Handlers -> SUBSET Things]
  BY NextOnUsers, UsersKind, NextOnSessions, SessionsKind, LangsKind, ThingsKind
<1>2. ASSUME NEW h \in Handlers
      PROVE  /\ call'[h] \in {NoCall} \cup Requests /\ pc'[h] \in Places
             /\ me'[h] \in Rows /\ target'[h] \in Rows
             /\ pc'[h] \in AtRest \/ (call'[h] \in Requests /\ Course(call'[h].op, pc'[h]))
  <2>1. CASE Stays(h)
    BY <2>1, Known DEF Stays, Kinds, Op
  <2>2. CASE Starts(h)
    BY <2>2 DEF Starts, Kinds, Places, Authenticating
  <2>3. CASE Advances(h)
    BY <2>3 DEF Advances
  <2>4. CASE Rests(h)
    BY <2>4 DEF Rests, Places
  <2> QED BY <2>1, <2>2, <2>3, <2>4, Requesting
<1>3. Kinds'
  BY <1>1, <1>2, Requesting DEF Kinds
<1> QED BY <1>2, <1>3 DEF OnCourse, InFlight, AtRest, Op
-----------------------------------------------------------------------------
(* Which tables there are *)

\* A step that is neither a reset's DDL nor a start makes and drops nothing, and
\* who is done with its DDL has nothing left to make.
Elsewhere(h) ==
  \/ pc'[h] = pc[h] /\ todo'[h] = todo[h]
  \/ ~Ddl(h)' /\ pc[h] # "drop" /\ (pc[h] = "create" => todo[h] = {})
Aside == UNCHANGED <<gone, doubled, crashes>> /\ (cut => cut') /\ \A h \in Handlers : Elsewhere(h)

LEMMA StepAside == ASSUME Kinds, OnCourse, NEW h \in Handlers, Step(h), ~Ddling(h) PROVE Aside
<1>1. UNCHANGED <<gone, doubled, crashes>> /\ (cut => cut')
  <2>1. UNCHANGED gone
    BY DEF Ddling, Step, AuthSession, AuthUser, LoadTarget, CommitRole, Lookup, Insert, Refresh, LogAdmin, CheckName,
           CommitName, LoginLookup, Verify, NewSession, FindSession, DeleteSession, KnownLanguage, AddLanguage,
           FindAdmin, AddRoot, FindLanguage, AddDefault, db
  <2>2. UNCHANGED <<doubled, crashes>> /\ (UNCHANGED cut \/ cut')
    BY DEF Ddling, Step, AuthSession, AuthUser, LoadTarget, CommitRole, Lookup, Insert, Refresh, LogAdmin, CheckName,
           CommitName, LoginLookup, Verify, NewSession, FindSession, DeleteSession, KnownLanguage, AddLanguage,
           FindAdmin, AddRoot, FindLanguage, AddDefault, BreakOff, Same, ghosts
  <2> QED BY <2>1, <2>2
<1>2. pc[h] # "drop" /\ (pc[h] = "create" => todo[h] = {})
  BY DEF Ddling, Step, AuthSession, AuthUser, LoadTarget, CommitRole, Lookup, Insert, Refresh, LogAdmin, CheckName,
         CommitName, LoginLookup, Verify, NewSession, FindSession, DeleteSession, KnownLanguage, AddLanguage,
         FindAdmin, AddRoot, FindLanguage, AddDefault
<1>3. pc[h] \notin AtRest /\ Moves(h)
  BY StepMoves
<1>4. \A g \in Handlers : g # h => pc'[g] = pc[g] /\ todo'[g] = todo[g]
  BY <1>3 DEF Moves, Kinds
<1>5. pc'[h] \notin {"drop", "create"}
  <2>1. CASE Answer(h)
    BY <2>1 DEF Answer, Kinds
  <2>2. ASSUME NEW q, q \notin {"drop", "create"}, Goto(h, q) PROVE pc'[h] \notin {"drop", "create"}
    BY <2>2 DEF Goto, Kinds
  <2>3. CASE AuthUser(h) /\ ~Answer(h)
    <3>1. Op(h) \in Protected
      BY <1>3, <2>3, Known DEF AuthUser, Course, Authenticating, Resetting
    <3>2. \A q \in {"auth session", Work(Op(h))} : q \notin {"drop", "create"}
      BY <3>1 DEF Work, Protected
    <3> QED BY <2>2, <2>3, <3>2 DEF AuthUser
  <2>4. CASE (AuthSession(h) \/ LoadTarget(h) \/ Lookup(h) \/ Insert(h) \/ Refresh(h) \/ CheckName(h) \/ LoginLookup(h)
              \/ Verify(h) \/ FindSession(h) \/ KnownLanguage(h) \/ FindAdmin(h) \/ AddRoot(h) \/ FindLanguage(h)) /\ ~Answer(h)
    BY <2>2, <2>4 DEF AuthSession, LoadTarget, Lookup, Insert, Refresh, CheckName, LoginLookup, Verify, FindSession,
                      KnownLanguage, FindAdmin, AddRoot, FindLanguage, BreakOff
  <2> QED BY <2>1, <2>3, <2>4 DEF Ddling, Step, CommitRole, LogAdmin, CommitName, NewSession, DeleteSession, AddLanguage,
                                  AddDefault, BreakOff
<1> QED BY <1>1, <1>2, <1>4, <1>5 DEF Aside, Elsewhere, Ddl

LEMMA AsideOrNot ==
  ASSUME Kinds, OnCourse, [Next]_vars
  PROVE  Aside \/ Restart \/ \E h \in Handlers : Ddling(h)
<1>1. ASSUME NEW h \in Handlers, Begin(h) PROVE Aside
  <2>1. pc[h] = "idle" /\ UNCHANGED <<db, me, target, todo, ghosts, crashes>>
        /\ \E q : pc' = [pc EXCEPT ![h] = q] /\ q \in {"lookup", "find", "pre session"}
    BY <1>1, BeginMoves
  <2> QED BY <2>1 DEF Aside, Elsewhere, Ddl, db, ghosts, Kinds
<1>2. CASE UNCHANGED <<gone, doubled, crashes, cut, pc, todo>>
  BY <1>2 DEF Aside, Elsewhere
<1> QED BY <1>1, <1>2, StepAside DEF Next, Expire, vars, db, local, ghosts, Same

\* A crash loses what every reset had in hand.
LEMMA AllLost == ASSUME Kinds, Restart, NEW h \in Handlers PROVE ~Ddl(h)'
BY DEF Restart, Ddl, InFlight, Kinds

\* Each step of a reset concerns its own part of what is to be dropped or made.
LEMMA DdlingAlone ==
  ASSUME Kinds, OnCourse, NEW h \in Handlers, Ddling(h), NEW g \in Handlers, g # h
  PROVE  pc'[g] = pc[g] /\ todo'[g] = todo[g]
<1>1. Moves(h)
  BY DdlingMoves
<1> QED BY <1>1 DEF Moves, Kinds

LEMMA DoubledStays == ASSUME Kinds, OnCourse, [Next]_vars, doubled PROVE doubled'
<1>1. ASSUME NEW h \in Handlers, Ddling(h) PROVE doubled'
  BY <1>1 DEF Ddling, ListTables, DropTable, ListMissing, CreateTable, StatementFails, BreakOff, Same, ghosts
<1> QED BY <1>1, AsideOrNot DEF Aside, Restart

LEMMA ResetsStep == ASSUME Kinds, OnCourse, ResetsInTurn, [Next]_vars PROVE ResetsInTurn'
<1> SUFFICES ASSUME ~doubled' PROVE ResetsInTurn'
  BY DEF ResetsInTurn
<1>1. /\ ~doubled
      /\ \A h, g \in Handlers : Ddl(h) /\ Ddl(g) => h = g
      /\ \A h \in Handlers : pc[h] = "drop" => Tables \subseteq todo[h] \cup gone
  BY DoubledStays DEF ResetsInTurn
<1>2. CASE Aside
  BY <1>1, <1>2 DEF Aside, Elsewhere, Ddl, ResetsInTurn
<1>3. CASE Restart
  BY <1>3, AllLost DEF ResetsInTurn, Ddl
<1>4. ASSUME NEW h \in Handlers, Ddling(h) PROVE ResetsInTurn'
  <2>1. \A g \in Handlers \ {h} : pc'[g] = pc[g] /\ todo'[g] = todo[g]
    BY <1>4, DdlingAlone
  <2>2. \A g \in Handlers \ {h} : ~Ddl(g) /\ ~Ddl(g)'
    <3>1. CASE ListTables(h)
      BY <1>1, <2>1, <3>1 DEF ListTables, Ddl
    <3>2. CASE ~ListTables(h)
      <4>1. Ddl(h)
        BY <1>4, <3>2 DEF Ddling, DropTable, ListMissing, CreateTable, StatementFails, Ddl
      <4> QED BY <1>1, <2>1, <4>1 DEF Ddl
    <3> QED BY <3>1, <3>2
  <2>3. pc'[h] = "drop" => Tables \subseteq todo'[h] \cup gone'
    <3>1. CASE ListTables(h)
      BY <3>1 DEF ListTables, db, Kinds
    <3>2. CASE DropTable(h)
      <4>1. PICK t \in Tables \ gone : todo' = [todo EXCEPT ![h] = @ \ {t}] /\ gone' = gone \cup Without(t)
        BY <3>2 DEF DropTable
      <4>2. t \in Without(t) /\ pc[h] = "drop"
        BY <3>2 DEF Without, DropTable
      <4> QED BY <1>1, <4>1, <4>2 DEF Kinds
    <3>3. CASE ListMissing(h)
      BY <3>3 DEF ListMissing, Kinds
    <3>4. CASE CreateTable(h)
      BY <3>4 DEF CreateTable
    <3>5. CASE StatementFails(h)
      BY <3>5 DEF StatementFails, BreakOff, Answer, Kinds
    <3> QED BY <1>4, <3>1, <3>2, <3>3, <3>4, <3>5 DEF Ddling
  <2>4. \A g, k \in Handlers : Ddl(g)' /\ Ddl(k)' => g = k
    BY <2>2
  <2>5. \A g \in Handlers : pc'[g] = "drop" => g = h
    BY <2>2 DEF Ddl
  <2> QED BY <2>3, <2>4, <2>5 DEF ResetsInTurn
<1> QED BY <1>2, <1>3, <1>4, AsideOrNot

\* Only a table that exists is written.
LEMMA TablesStep == ASSUME Kinds, OnCourse, TablesHold, [Next]_vars PROVE TablesHold'
<1>1. CASE Restart
  <2>1. gone' \subseteq {"index"}
    BY <1>1 DEF Restart, Missing, Has, TablesHold
  <2> QED BY <2>1 DEF TablesHold
<1>2. ASSUME NEW h \in Handlers, DropTable(h) PROVE TablesHold'
  <2> PICK t \in Tables \ gone :
        /\ gone' = gone \cup Without(t)
        /\ users' = IF t = "users" THEN <<>> ELSE users
        /\ sessions' = IF t = "sessions" THEN [k \in Tokens |-> NoSession] ELSE sessions
        /\ logs' = IF t = "logs" THEN <<>> ELSE logs
    BY <1>2 DEF DropTable
  <2> QED BY DEF TablesHold, Without, Tables
<1>3. ASSUME NEW h \in Handlers, CreateTable(h) PROVE TablesHold'
  <2> PICK t \in gone : (t = "index" => Has("users")) /\ gone' = gone \ {t} /\ UNCHANGED <<users, sessions, logs>>
    BY <1>3 DEF CreateTable
  <2> QED BY DEF TablesHold, Has
<1>5. "sessions" \in gone => \A t \in Tokens : sessions'[t] = NoSession
  <2>1. SessionsMove
    BY NextOnSessions
  <2> SUFFICES ASSUME "sessions" \in gone PROVE \A t \in Tokens : sessions'[t] = NoSession
    OBVIOUS
  <2>2. ~Has("sessions") /\ (\A t \in Tokens : sessions[t] = NoSession) /\ DOMAIN sessions = Tokens
    BY DEF TablesHold, Has, Kinds
  <2>3. \A t \in Tokens : ~Live(t)
    BY <2>2 DEF Live, NoSession
  <2> QED BY <2>1, <2>2, <2>3 DEF SessionsMove
<1>4. CASE UNCHANGED <<users, logs, gone>>
  BY <1>4, <1>5 DEF TablesHold
<1>6. ASSUME NEW h \in Handlers, Step(h), ~DropTable(h), ~CreateTable(h) PROVE TablesHold'
  <2>1. UNCHANGED gone
    BY <1>6 DEF Step, AuthSession, AuthUser, LoadTarget, CommitRole, Lookup, Insert, Refresh, LogAdmin, CheckName,
              CommitName, LoginLookup, Verify, NewSession, FindSession, DeleteSession, KnownLanguage, AddLanguage,
              ListTables, ListMissing, StatementFails, FindAdmin, AddRoot, FindLanguage, AddDefault, db
  <2>2. "users" \in gone => UNCHANGED users
    <3> SUFFICES ASSUME "users" \in gone PROVE UNCHANGED users
      OBVIOUS
    <3>1. ~Has("users") /\ \A id : ~Exists(id)
      BY DEF TablesHold, Has, Exists
    <3> QED
      BY <1>6, <3>1 DEF Step, AuthSession, AuthUser, LoadTarget, CommitRole, Lookup, Insert, Refresh, LogAdmin, CheckName,
              CommitName, LoginLookup, Verify, NewSession, FindSession, DeleteSession, KnownLanguage, AddLanguage,
              ListTables, ListMissing, StatementFails, FindAdmin, AddRoot, FindLanguage, AddDefault, db
  <2>3. "logs" \in gone => UNCHANGED logs
    BY <1>6 DEF Step, AuthSession, AuthUser, LoadTarget, CommitRole, Lookup, Insert, Refresh, LogAdmin, CheckName,
              CommitName, LoginLookup, Verify, NewSession, FindSession, DeleteSession, KnownLanguage, AddLanguage,
              ListTables, ListMissing, StatementFails, FindAdmin, AddRoot, FindLanguage, AddDefault, db, Has
  <2> QED BY <2>1, <2>2, <2>3, <1>5 DEF TablesHold
<1> QED BY <1>1, <1>2, <1>3, <1>4, <1>6 DEF Next, Begin, Expire, vars, db

LEMMA IndexStep ==
  ASSUME Kinds, OnCourse, TablesHold, IndexToCome, [Next]_vars
  PROVE  IndexToCome'
<1>1. CASE Aside
  <2>1. ASSUME NEW h \in Handlers, WillMake(h) PROVE WillMake(h)'
    BY <1>1, <2>1 DEF Aside, Elsewhere, WillMake
  <2>2. ASSUME NEW h \in Handlers, pc'[h] = "create", "users" \in todo'[h] PROVE "index" \in todo'[h]
    BY <1>1, <2>2 DEF Aside, Elsewhere, IndexToCome, Ddl
  <2>3. UNCHANGED <<gone, crashes>> /\ (cut => cut')
    BY <1>1 DEF Aside
  <2>4. "index" \in gone' => crashes' > 0 \/ cut' \/ \E h \in Handlers : WillMake(h)'
    BY <2>1, <2>3 DEF IndexToCome
  <2> QED BY <2>2, <2>3, <2>4 DEF IndexToCome
<1>2. CASE Restart
  <2>1. crashes' \in Nat /\ crashes' > 0
    BY <1>2 DEF Restart, IndexToCome
  <2> QED BY <1>2, <2>1, AllLost DEF IndexToCome, Ddl
<1>3. ASSUME NEW h \in Handlers, Ddling(h) PROVE IndexToCome'
  <2>1. \A g \in Handlers \ {h} : pc'[g] = pc[g] /\ todo'[g] = todo[g]
    BY <1>3, DdlingAlone
  <2>2. \A g \in Handlers \ {h} : pc'[g] = "create" /\ "users" \in todo'[g] => "index" \in todo'[g]
    BY <2>1 DEF IndexToCome
  <2>3. crashes' = crashes /\ (UNCHANGED cut \/ cut')
    BY <1>3 DEF Ddling, ListTables, DropTable, ListMissing, CreateTable, StatementFails, BreakOff, Same, ghosts
  <2>4. CASE ListTables(h)
    <3>1. pc[h] = "list" /\ pc'[h] = "drop" /\ UNCHANGED <<gone, cut>>
      BY <2>4 DEF ListTables, db, Kinds
    <3>2. ASSUME NEW g \in Handlers, WillMake(g) PROVE WillMake(g)'
      BY <2>1, <3>1, <3>2 DEF WillMake
    <3> QED BY <2>2, <2>3, <3>1, <3>2 DEF IndexToCome
  <2>5. CASE DropTable(h)
    <3>1. PICK t \in Tables : gone' = gone \cup Without(t)
      BY <2>5 DEF DropTable
    <3>2. pc[h] = "drop" /\ pc'[h] = "drop" /\ UNCHANGED cut
      BY <2>5 DEF DropTable
    <3>3. t = "users" => WillMake(h)'
      BY <3>1, <3>2 DEF WillMake, Without
    <3>4. ASSUME NEW g \in Handlers, WillMake(g) PROVE WillMake(g)'
      BY <2>1, <3>1, <3>2, <3>4 DEF WillMake
    <3>5. t # "users" => ("index" \in gone' => "index" \in gone)
      BY <3>1 DEF Without, Tables
    <3> QED BY <2>2, <2>3, <3>2, <3>3, <3>4, <3>5 DEF IndexToCome
  <2>6. CASE ListMissing(h)
    <3>1. pc[h] = "drop" /\ pc'[h] = "create" /\ todo'[h] = Missing /\ UNCHANGED <<gone, cut>>
      BY <2>6 DEF ListMissing, db, Same, ghosts, Kinds
    <3>2. "users" \in gone => "index" \in Missing
      BY DEF Missing, Has, TablesHold
    <3>3. "users" \in Missing => "users" \in gone
      BY DEF Missing
    <3>4. ASSUME NEW g \in Handlers, WillMake(g) PROVE WillMake(g)'
      BY <2>1, <3>1, <3>2, <3>4 DEF WillMake
    <3> QED BY <2>2, <2>3, <3>1, <3>2, <3>3, <3>4 DEF IndexToCome
  <2>7. CASE CreateTable(h)
    <3>1. PICK t \in gone : Foremost(t, CreateRank, todo[h]) /\ todo' = [todo EXCEPT ![h] = @ \ {t}] /\ gone' = gone \ {t}
      BY <2>7 DEF CreateTable
    <3>2. pc[h] = "create" /\ pc'[h] = "create" /\ todo'[h] = todo[h] \ {t} /\ UNCHANGED cut
      BY <2>7, <3>1 DEF CreateTable, Same, ghosts, Kinds
    <3>3. t = "index" => "users" \notin todo[h]
      BY <3>1 DEF Foremost, CreateRank
    <3>4. t = "users" => "index" \in todo[h]
      BY <3>1, <3>2 DEF Foremost, IndexToCome
    <3>5. ASSUME NEW g \in Handlers, WillMake(g), t # "index" PROVE WillMake(g)' \/ WillMake(h)'
      BY <2>1, <3>1, <3>2, <3>4, <3>5 DEF WillMake
    <3>6. pc'[h] = "create" /\ "users" \in todo'[h] => "index" \in todo'[h]
      BY <3>2, <3>3 DEF IndexToCome
    <3> QED BY <2>2, <2>3, <3>1, <3>2, <3>5, <3>6 DEF IndexToCome
  <2>8. CASE StatementFails(h)
    <3>1. cut' /\ pc'[h] = "done"
      BY <2>8 DEF StatementFails, BreakOff, Answer, Kinds
    <3> QED BY <2>2, <2>3, <3>1 DEF IndexToCome
  <2> QED BY <1>3, <2>4, <2>5, <2>6, <2>7, <2>8 DEF Ddling
<1> QED BY <1>1, <1>2, <1>3, AsideOrNot

\* The index is made over distinct names and keeps them so.
LEMMA NamesStep ==
  ASSUME Kinds, OnCourse, TablesHold, ResetsInTurn, IndexToCome, NamesUnique, [Next]_vars
  PROVE  NamesUnique'
<1>1. Has("index")' \/ crashes' > 0 \/ cut' \/ \E h \in Handlers : Ddl(h)'
  BY IndexStep DEF IndexToCome, WillMake, Has, Ddl
<1>2. ASSUME Has("index"), DistinctNames PROVE DistinctNames'
  BY <1>2, NextOnUsers, NamesStay
<1>3. ASSUME ~Has("index"), Has("index")' PROVE DistinctNames'
  <2>1. CASE Restart
    <3>1. users = <<>>
      BY <1>3, <2>1 DEF Restart, Missing, Has, TablesHold
    <3>2. users' = <<Root>>
      BY <2>1, <3>1 DEF Restart, Taken
    <3> QED BY <3>2 DEF DistinctNames
  <2>2. ASSUME NEW h \in Handlers, Ddling(h) PROVE DistinctNames'
    <3>1. CreateTable(h)
      BY <1>3, <2>2 DEF Ddling, ListTables, DropTable, ListMissing, StatementFails, Has, db
    <3>2. UNCHANGED users /\ DistinctNames
      BY <1>3, <3>1 DEF CreateTable, Has
    <3> QED BY <3>2 DEF DistinctNames
  <2>3. ~Aside
    BY <1>3 DEF Aside, Has
  <2> QED BY <2>1, <2>2, <2>3, AsideOrNot
<1> QED BY <1>1, <1>2, <1>3 DEF NamesUnique
-----------------------------------------------------------------------------
(* Authorisation *)

\* A request that is over stays over.
LEMMA DoneStays == ASSUME Kinds, OnCourse, [Next]_vars, NEW h \in Handlers, pc[h] = "done" PROVE pc'[h] = "done"
BY Requesting DEF Stays, Starts, Advances, Rests, AtRest

\* A session that is valid after a step was there before, unless this step is
\* the login that makes it.
LEMMA SessionsAge ==
  ASSUME Kinds, OnCourse, [Next]_vars, NEW t \in Tokens, sessions'[t] # NoSession
  PROVE  \/ /\ sessions[t] # NoSession /\ (Live(t)' => sessions'[t] = sessions[t])
            /\ sessions'[t].user = sessions[t].user /\ sessions'[t].who = sessions[t].who
         \/ /\ t \in Handlers /\ pc[t] = "session" /\ pc'[t] = "done" /\ UNCHANGED <<users, strayed>>
            /\ sessions'[t] = [user |-> me[t].id, who |-> me[t].who, live |-> TRUE]
<1>1. SessionsMove /\ sessions \in [Tokens -> SessionRows]
  BY NextOnSessions DEF Kinds
<1>2. CASE UNCHANGED sessions
  BY <1>2
<1>3. CASE sessions' = [u \in Tokens |-> NoSession]
  BY <1>3
<1>4. CASE \E u \in Tokens : sessions' = [sessions EXCEPT ![u] = NoSession]
  BY <1>1, <1>4
<1>5. ASSUME NEW u \in Tokens, Live(u), sessions' = [sessions EXCEPT ![u].live = FALSE]
      PROVE  /\ sessions[t] # NoSession /\ (Live(t)' => sessions'[t] = sessions[t])
             /\ sessions'[t].user = sessions[t].user /\ sessions'[t].who = sessions[t].who
  <2>1. CASE t = u
    <3>1. sessions[u] # NoSession
      BY <1>5 DEF Live, NoSession
    <3>2. sessions[u] \in [user : Nat, who : People \cup {"nobody"}, live : BOOLEAN]
      BY <1>1, <3>1 DEF SessionRows
    <3>3. ~Live(t)' /\ sessions'[t].user = sessions[t].user /\ sessions'[t].who = sessions[t].who
      BY <1>1, <1>5, <2>1, <3>2 DEF Live
    <3> QED BY <2>1, <3>1, <3>3
  <2>2. CASE t # u
    BY <1>1, <1>5, <2>2
  <2> QED BY <2>1, <2>2
<1>6. ASSUME NEW g \in Handlers, pc[g] = "session", pc'[g] = "done", UNCHANGED <<users, strayed>>,
             sessions' = [sessions EXCEPT ![g] = [user |-> me[g].id, who |-> me[g].who, live |-> TRUE]]
      PROVE  \/ /\ sessions[t] # NoSession /\ (Live(t)' => sessions'[t] = sessions[t])
                /\ sessions'[t].user = sessions[t].user /\ sessions'[t].who = sessions[t].who
             \/ /\ t \in Handlers /\ pc[t] = "session" /\ pc'[t] = "done" /\ UNCHANGED <<users, strayed>>
                /\ sessions'[t] = [user |-> me[t].id, who |-> me[t].who, live |-> TRUE]
  BY <1>1, <1>6
<1> QED BY <1>1, <1>2, <1>3, <1>4, <1>5, <1>6 DEF SessionsMove

LEMMA TokensStep == ASSUME Kinds, OnCourse, TokensSpent, [Next]_vars PROVE TokensSpent'
<1>1. ASSUME NEW g \in Handlers, sessions'[g] # NoSession PROVE pc'[g] = "done"
  BY <1>1, SessionsAge, TokenKinds, DoneStays DEF TokensSpent
<1>2. ASSUME NEW h \in Handlers, NEW g \in Handlers, InFlight(h)', Op(h)' \notin {"login", "register"}, call'[h].token = g
      PROVE  pc'[g] = "done"
  <2>1. pc[g] = "done"
    <3>1. CASE Stays(h) \/ Advances(h)
      BY <1>2, <3>1 DEF Stays, Advances, TokensSpent, InFlight, Op, AtRest
    <3>2. CASE Starts(h)
      BY <1>2, <3>2, TokenKinds DEF Starts, TokensSpent, Op
    <3>3. ~Rests(h)
      BY <1>2 DEF Rests, InFlight, AtRest
    <3> QED BY <3>1, <3>2, <3>3, Requesting
  <2> QED BY <2>1, DoneStays
<1> QED BY <1>1, <1>2 DEF TokensSpent

\* While a request is under way its session can end but not change.
LEMMA TokenHeld ==
  ASSUME Kinds, OnCourse, TokensSpent, [Next]_vars, NEW h \in Handlers, pc[h] \notin AtRest,
         Op(h) \in Protected, Live(call[h].token)' , call'[h] = call[h]
  PROVE  sessions'[call[h].token] = sessions[call[h].token]
<1> DEFINE t == call[h].token
<1>1. t \in Tokens
  BY Known, Fields DEF Op
<1>2. sessions'[t] # NoSession
  BY DEF Live, NoSession
<1>3. t \in Handlers => pc[t] = "done"
  BY DEF TokensSpent, InFlight, AtRest, Protected
<1> QED BY <1>1, <1>2, <1>3, SessionsAge DEF Live

\* Which steps lead through the authentication.
LEMMA ComesTo ==
  ASSUME Kinds, OnCourse, NEW h \in Handlers, Advances(h)
  PROVE  /\ pc'[h] \in {"pre user", "auth user"} => AuthSession(h)
         /\ pc'[h] = "auth session" => AuthUser(h) /\ pc[h] = "pre user"
         /\ AtWork(h)' => AtWork(h) \/ pc[h] = "auth user"
<1> USE DEF Kinds, Goto
<1>1. pc[h] \notin AtRest /\ ~Answer(h) /\ call'[h] = call[h] /\ Op(h)' = Op(h)
  BY DEF Advances, Answer, AtRest, Op
<1>2. Course(Op(h), pc[h])
  BY <1>1, Known
<1>3. CASE AuthSession(h)
  <2>1. pc'[h] \in {"pre user", "auth user"}
    BY <1>1, <1>3 DEF AuthSession
  <2> QED BY <1>1, <1>3, <2>1 DEF AtWork
<1>4. CASE AuthUser(h)
  <2>1. CASE pc[h] = "pre user"
    <3>1. pc'[h] = "auth session"
      BY <1>1, <1>4, <2>1 DEF AuthUser
    <3> QED BY <1>4, <2>1, <3>1 DEF AtWork
  <2>2. CASE pc[h] = "auth user"
    <3>1. pc'[h] = Work(Op(h)) /\ Op(h) \in Protected
      BY <1>1, <1>2, <1>4, <2>2 DEF AuthUser, Course, Authenticating, Resetting
    <3>2. pc'[h] \notin {"pre user", "auth user", "auth session"}
      BY <3>1 DEF Work, Protected
    <3> QED BY <2>2, <3>2
  <2> QED BY <1>4, <2>1, <2>2 DEF AuthUser
<1>5. CASE LoadTarget(h) \/ CheckName(h) \/ KnownLanguage(h)
  <2>1. pc[h] \in {"load", "check", "known"} /\ pc'[h] \in {"commit role", "rename", "add"}
    BY <1>1, <1>5 DEF LoadTarget, CheckName, KnownLanguage
  <2> QED BY <2>1 DEF AtWork
<1>6. CASE Lookup(h)
  <2>1. pc[h] = "lookup" /\ pc'[h] = "insert"
    BY <1>1, <1>6 DEF Lookup
  <2> QED BY <1>1, <2>1 DEF AtWork
<1>7. CASE Insert(h) \/ Refresh(h) \/ LoginLookup(h) \/ Verify(h) \/ FindSession(h)
  <2>1. pc'[h] \in {"refresh", "log", "verify", "session", "delete"}
    BY <1>1, <1>7 DEF Insert, Refresh, LoginLookup, Verify, FindSession
  <2> QED BY <2>1 DEF AtWork
<1>8. CASE FindAdmin(h) \/ AddRoot(h) \/ FindLanguage(h)
  <2>1. pc'[h] \in {"add root", "ensure language", "add default", "sync default"}
    BY <1>1, <1>8 DEF FindAdmin, AddRoot, FindLanguage, BreakOff
  <2> QED BY <2>1 DEF AtWork
<1>9. CASE Ddling(h)
  <2>1. pc'[h] \in {"drop", "create"} /\ (pc'[h] = "drop" => pc[h] \in {"list", "drop"})
    BY <1>1, <1>9 DEF Ddling, ListTables, DropTable, ListMissing, CreateTable, StatementFails, BreakOff
  <2> QED BY <2>1 DEF AtWork
<1> QED BY <1>1, <1>3, <1>4, <1>5, <1>6, <1>7, <1>8, <1>9
        DEF Advances, Step, CommitRole, LogAdmin, CommitName, NewSession, DeleteSession, AddLanguage, AddDefault,
            BreakOff, Ddling

LEMMA TogetherKept ==
  ASSUME Authorised, [Next]_vars, NEW h \in Handlers
  PROVE  /\ Authentic(h)' => h \in together'
         /\ InFlight(h)' /\ h \in together => h \in together'
<1>1. CASE Next
  BY <1>1 DEF Next, Authentic
<1>2. CASE UNCHANGED vars
  <2>1. Authentic(h)' => Authentic(h)
    BY <1>2 DEF vars, db, local, Authentic, InFlight, Op, Exists
  <2> QED BY <1>2, <2>1 DEF vars, Authorised
<1> QED BY <1>1, <1>2

\* The session that is read a second time was valid, with the same user, in the
\* state in which the user's role was read.
LEMMA AuthorisedStep ==
  ASSUME Kinds, OnCourse, TokensSpent, Authorised, [Next]_vars
  PROVE  Authorised'
<1>1. ASSUME NEW h \in Handlers PROVE Authentic(h)' => h \in together'
  BY TogetherKept
<1>2. ASSUME NEW h \in Handlers, pc'[h] \notin AtRest, h \in together PROVE h \in together'
  BY <1>2, TogetherKept DEF InFlight, AtRest
<1>3. ASSUME NEW h \in Handlers, pc'[h] \in Authenticating, Live(call[h].token)',
             Stays(h) \/ Advances(h)
      PROVE  sessions'[call[h].token] = sessions[call[h].token] /\ Live(call[h].token) /\ call'[h] = call[h]
             /\ Op(h) \in Protected
  <2>1. call'[h] = call[h] /\ pc[h] \notin AtRest
    BY <1>3 DEF Stays, Advances, Authenticating, AtRest
  <2>2. Op(h) \in Protected
    <3>1. CASE Stays(h)
      BY <1>3, <2>1, <3>1, Known DEF Stays, Course, Authenticating, Resetting
    <3>2. CASE Advances(h)
      BY <1>3, <3>2 DEF Advances, Op, Course, Authenticating, Resetting
    <3> QED BY <1>3, <3>1, <3>2
  <2>3. sessions'[call[h].token] = sessions[call[h].token]
    BY <1>3, <2>1, <2>2, TokenHeld
  <2> QED BY <1>3, <2>1, <2>2, <2>3 DEF Live
<1>4. ASSUME NEW h \in Handlers, pc'[h] = "pre user", Live(call[h].token)'
      PROVE  sessions'[call'[h].token].user = me'[h].id
  <2>1. CASE Stays(h)
    BY <1>3, <1>4, <2>1 DEF Stays, Authenticating, Authorised
  <2>2. CASE Advances(h)
    <3>1. AuthSession(h) /\ ~Answer(h)
      BY <1>4, <2>2, ComesTo DEF Advances, Answer, AtRest, Kinds
    <3>2. me' = [me EXCEPT ![h] = [NoRow EXCEPT !.id = sessions[call[h].token].user]]
      BY <3>1 DEF AuthSession
    <3>3. me'[h].id = sessions[call[h].token].user
      BY <3>2 DEF Kinds, NoRow
    <3> QED BY <1>3, <1>4, <2>2, <3>3 DEF Authenticating
  <2> QED BY <1>4, <2>1, <2>2, Requesting DEF Starts, Rests, AtRest
<1>5. ASSUME NEW h \in Handlers, pc'[h] = "auth session", Live(call[h].token)'
      PROVE  h \in together'
  <2>1. CASE Stays(h)
    BY <1>2, <1>3, <1>5, <2>1 DEF Stays, Authenticating, Authorised, AtRest
  <2>2. CASE Advances(h)
    <3>1. AuthUser(h) /\ ~Answer(h) /\ pc[h] = "pre user"
      BY <1>5, <2>2, ComesTo DEF Advances, Answer, AtRest, Kinds
    <3>2. Exists(me[h].id) /\ Entitled(Op(h), users[me[h].id].role)
      BY <3>1 DEF AuthUser
    <3>3. Live(call[h].token) /\ sessions[call[h].token].user = me[h].id /\ Op(h) \in Protected
      BY <1>3, <1>5, <2>2, <3>1 DEF Authenticating, Authorised
    <3>4. Authentic(h)
      BY <3>1, <3>2, <3>3 DEF Authentic, InFlight, Live, Protected, Open
    <3> QED BY <1>2, <1>5, <3>4 DEF Authorised, AtRest
  <2> QED BY <1>5, <2>1, <2>2, Requesting DEF Starts, Rests, AtRest
<1>6. ASSUME NEW h \in Handlers, pc'[h] = "auth user" PROVE h \in together'
  <2>1. CASE Stays(h)
    BY <1>2, <1>6, <2>1 DEF Stays, Authorised, AtRest
  <2>2. CASE Advances(h)
    <3>1. AuthSession(h) /\ ~Answer(h)
      BY <1>6, <2>2, ComesTo DEF Advances, Answer, AtRest, Kinds
    <3>2. pc[h] = "auth session" /\ Live(call[h].token)
      BY <1>6, <3>1 DEF AuthSession, Goto, Kinds, Live
    <3> QED BY <1>2, <1>6, <3>2 DEF Authorised, AtRest
  <2> QED BY <1>6, <2>1, <2>2, Requesting DEF Starts, Rests, AtRest
<1>7. ASSUME NEW h \in Handlers, AtWork(h)' PROVE h \in together'
  <2>1. pc'[h] \notin AtRest
    BY <1>7 DEF AtWork, AtRest
  <2>2. CASE Stays(h)
    BY <1>2, <1>7, <2>1, <2>2 DEF Stays, AtWork, Op, Authorised, AuthorisedAtOnce
  <2>3. CASE Advances(h)
    BY <1>2, <1>7, <2>1, <2>3, ComesTo DEF Authorised, AuthorisedAtOnce
  <2>4. ~Starts(h) /\ ~Rests(h)
    BY <1>7, <2>1 DEF Starts, Rests, AtWork, Op
  <2> QED BY <2>2, <2>3, <2>4, Requesting
<1> QED BY <1>1, <1>4, <1>5, <1>6, <1>7 DEF Authorised, AuthorisedAtOnce
-----------------------------------------------------------------------------
(* Whose session it is *)

LEMMA StrayedGrows == ASSUME [Next]_vars PROVE strayed \subseteq strayed'
<1>1. ASSUME NEW h \in Handlers, Step(h) PROVE strayed \subseteq strayed'
  BY <1>1 DEF Step, AuthSession, AuthUser, LoadTarget, CommitRole, Lookup, Insert, Refresh, LogAdmin, CheckName,
              CommitName, LoginLookup, Verify, NewSession, FindSession, DeleteSession, KnownLanguage, AddLanguage,
              ListTables, DropTable, ListMissing, CreateTable, StatementFails, FindAdmin, AddRoot, FindLanguage,
              AddDefault, BreakOff, Same, ghosts
<1> QED BY <1>1 DEF Next, Begin, Expire, Restart, Same, ghosts, vars

LEMMA LoginsStep ==
  ASSUME Kinds, OnCourse, TablesHold, ResetsInTurn, LoginsBelong, [Next]_vars
  PROVE  LoginsBelong'
<1> SUFFICES ASSUME NEW h \in Handlers, h \notin strayed', pc'[h] \in {"verify", "session"}
             PROVE  Exists(me[h].id)' /\ users'[me'[h].id].who = me'[h].who
  BY DEF LoginsBelong
<1>1. h \notin strayed /\ UsersMove
  BY StrayedGrows, NextOnUsers
<1>3. CASE Stays(h)
  <2>1. pc[h] \in {"verify", "session"} /\ pc[h] \notin AtRest /\ Op(h) = "login"
    BY <1>3, Known DEF Stays, Course, Authenticating, Resetting, AtRest
  <2>2. InFlight(h) /\ Exists(me[h].id) /\ users[me[h].id].who = me[h].who
    BY <1>1, <2>1 DEF InFlight, AtRest, LoginsBelong
  <2> QED BY <1>1, <1>3, <2>1, <2>2, PersonsStay DEF Stays, Exists
<1>4. CASE Advances(h)
  <2>1. pc[h] \notin AtRest /\ Step(h) /\ ~Answer(h) /\ Op(h) = "login"
    BY <1>4 DEF Advances, Answer, Kinds, AtRest, Course, Op, Authenticating, Resetting
  <2>2. CASE LoginLookup(h)
    <3>1. PICK id \in DOMAIN users : me' = [me EXCEPT ![h] = Row(id)]
      BY <2>1, <2>2 DEF LoginLookup
    <3>2. me'[h] = Row(id) /\ UNCHANGED users
      BY <2>2, <3>1 DEF LoginLookup, db, Kinds
    <3> QED BY <3>1, <3>2, Domain DEF Row, Exists
  <2>3. CASE Verify(h)
    <3>1. UNCHANGED <<users, me>> /\ pc[h] = "verify"
      BY <2>1, <2>3 DEF Verify, db
    <3> QED BY <1>1, <3>1 DEF LoginsBelong, Exists
  <2>4. ASSUME ~LoginLookup(h), ~Verify(h) PROVE FALSE
    <3>1. Course(Op(h), pc[h])
      BY <2>1, Known
    <3>2. pc[h] \in {"lookup", "verify", "session"}
      BY <2>1, <3>1 DEF Course, Protected
    <3> QED BY <2>1, <2>4, <3>2 DEF Step, AuthSession, AuthUser, LoadTarget, CommitRole, Lookup, Insert, Refresh,
              LogAdmin, CheckName, CommitName, NewSession, FindSession, DeleteSession, KnownLanguage,
              AddLanguage, ListTables, DropTable, ListMissing, CreateTable, StatementFails, Ddl, FindAdmin, AddRoot,
              FindLanguage, AddDefault
  <2> QED BY <2>2, <2>3, <2>4
<1> QED BY <1>3, <1>4, Requesting DEF Starts, Rests, AtRest

LEMMA SessionsStep ==
  ASSUME Kinds, OnCourse, TablesHold, ResetsInTurn, LoginsBelong, SessionBelongs, [Next]_vars
  PROVE  SessionBelongs'
<1> SUFFICES ASSUME ~doubled', NEW t \in Tokens, t \notin strayed', sessions'[t] # NoSession
             PROVE  Exists(sessions[t].user)' /\ users'[sessions'[t].user].who = sessions'[t].who
  BY DEF SessionBelongs
<1>1. t \notin strayed /\ UsersMove /\ ~doubled
  BY StrayedGrows, NextOnUsers, DoubledStays
<1>2. CASE t \in Handlers /\ pc[t] = "session" /\ UNCHANGED users
           /\ sessions'[t] = [user |-> me[t].id, who |-> me[t].who, live |-> TRUE]
  BY <1>1, <1>2 DEF LoginsBelong, Exists
<1>3. CASE sessions[t] # NoSession /\ sessions'[t].user = sessions[t].user /\ sessions'[t].who = sessions[t].who
  <2>1. Exists(sessions[t].user) /\ users[sessions[t].user].who = sessions[t].who
    BY <1>1, <1>3 DEF SessionBelongs
  <2> QED BY <1>1, <1>3, <2>1, PersonsStay DEF Exists
<1> QED BY <1>2, <1>3, SessionsAge
-----------------------------------------------------------------------------
(* The default language *)

Restoring(h) == pc[h] \in Resetting \ {"list"}

\* A reset goes on until the default is there, or it fails.
LEMMA DefaultsStep == ASSUME Kinds, OnCourse, DefaultsRestored, [Next]_vars PROVE DefaultsRestored'
<1>1. cut \/ langs["python"].run = "system" \/ \E h \in Handlers : Restoring(h)
  BY DEF DefaultsRestored, Restoring, Resetting, Ddl
<1>2. ASSUME cut' \/ langs'["python"].run = "system" \/ \E h \in Handlers : Restoring(h)'
      PROVE  DefaultsRestored'
  BY <1>2 DEF DefaultsRestored, Restoring, Resetting, Ddl
<1>3. langs \in [Languages -> LanguageRows] /\ "python" \in Languages
  BY DEF Kinds, Languages
<1>4. ASSUME NEW row \in LanguageRows PROVE [row EXCEPT !.run = "system"].run = "system" /\ Default.run = "system"
  BY DEF LanguageRows, Default
<1>5. CASE Restart
  <2>1. langs["python"] \in LanguageRows
    BY <1>3
  <2>2. langs'["python"].run = "system"
    BY <1>3, <1>4, <1>5, <2>1 DEF Restart
  <2> QED BY <1>2, <2>2
<1>6. ASSUME ~Restart, cut PROVE cut'
  <2>1. ASSUME NEW h \in Handlers, Ddling(h) PROVE cut'
    BY <1>6, <2>1 DEF Ddling, ListTables, DropTable, ListMissing, CreateTable, StatementFails, BreakOff, Same, ghosts
  <2> QED BY <1>6, <2>1, AsideOrNot DEF Aside
<1>7. ASSUME NEW h \in Handlers, AddDefault(h) PROVE cut' \/ langs'["python"].run = "system"
  <2>1. langs["python"] \in LanguageRows
    BY <1>3
  <2> QED BY <1>3, <1>4, <1>7, <2>1 DEF AddDefault, BreakOff
<1>8. ASSUME ~Restart, langs["python"].run = "system"
      PROVE  cut' \/ langs'["python"].run = "system" \/ \E h \in Handlers : Restoring(h)'
  <2>1. ASSUME NEW h \in Handlers, AddLanguage(h) PROVE langs'["python"].run = "system"
    <3>1. langs["python"] # NoLanguage
      BY <1>8 DEF NoLanguage
    <3> QED BY <1>3, <1>8, <2>1, <3>1 DEF AddLanguage
  <2>2. ASSUME NEW h \in Handlers, DropTable(h) PROVE Restoring(h)'
    BY <2>2 DEF DropTable, Restoring, Resetting
  <2>3. ASSUME NEW h \in Handlers, Step(h), ~AddLanguage(h), ~DropTable(h), ~AddDefault(h) PROVE UNCHANGED langs
    BY <2>3 DEF Step, AuthSession, AuthUser, LoadTarget, CommitRole, Lookup, Insert, Refresh, LogAdmin, CheckName,
              CommitName, LoginLookup, Verify, NewSession, FindSession, DeleteSession, KnownLanguage, ListTables,
              ListMissing, CreateTable, StatementFails, FindAdmin, AddRoot, FindLanguage, db
  <2> QED BY <1>7, <1>8, <2>1, <2>2, <2>3 DEF Next, Begin, Expire, vars, db
<1>9. ASSUME ~Restart, NEW h \in Handlers, Restoring(h)
      PROVE  Restoring(h)' \/ cut' \/ langs'["python"].run = "system"
  <2>1. pc[h] \notin AtRest
    BY <1>9 DEF Restoring, Resetting, AtRest
  <2>2. CASE Step(h)
    <3>1. CASE FindAdmin(h)
      BY <3>1 DEF FindAdmin, BreakOff, Goto, Kinds, Restoring, Resetting
    <3>2. CASE AddRoot(h)
      BY <3>2 DEF AddRoot, BreakOff, Goto, Kinds, Restoring, Resetting
    <3>3. CASE FindLanguage(h)
      <4>1. CASE Answer(h)
        BY <1>3, <3>3, <4>1 DEF FindLanguage, BreakOff, Goto, Answer, Kinds, db
      <4>2. CASE ~Answer(h)
        BY <3>3, <4>2 DEF FindLanguage, BreakOff, Goto, Kinds, Restoring, Resetting
      <4> QED BY <4>1, <4>2
    <3>4. CASE AddDefault(h)
      BY <1>7, <3>4
    <3>5. CASE Ddling(h)
      BY <3>5 DEF Ddling, ListTables, DropTable, ListMissing, CreateTable, StatementFails, BreakOff, Kinds, Restoring, Resetting
    <3> QED BY <1>9, <2>2, <3>1, <3>2, <3>3, <3>4, <3>5
            DEF Restoring, Resetting, Step, AuthSession, AuthUser, LoadTarget, CommitRole, Lookup, Insert, Refresh,
                LogAdmin, CheckName, CommitName, LoginLookup, Verify, NewSession, FindSession, DeleteSession,
                KnownLanguage, AddLanguage, Ddling
  <2>3. CASE ~Step(h)
    <3>1. pc'[h] = pc[h]
      <4>1. ASSUME NEW g \in Handlers, g # h, Step(g) PROVE pc'[h] = pc[h]
        BY <4>1, StepMoves DEF Moves, Kinds
      <4>2. ASSUME NEW g \in Handlers, Begin(g) PROVE pc'[h] = pc[h]
        BY <2>1, <4>2, BeginMoves DEF Kinds, AtRest
      <4> QED BY <1>9, <2>3, <4>1, <4>2 DEF Next, Expire, local, vars
    <3> QED BY <1>9, <3>1 DEF Restoring
  <2> QED BY <2>2, <2>3
<1> QED BY <1>1, <1>2, <1>5, <1>6, <1>8, <1>9
-----------------------------------------------------------------------------
(* The role change log *)

SameRow(id) == users'[id].born = users[id].born /\ users'[id].who = users[id].who
Entry(id, old, new) == [target |-> id, old |-> old, new |-> new]

\* What a step does to the roles, to their log and to the two sets beside it.
RolesMove ==
  \/ /\ UNCHANGED logs /\ mixed \subseteq mixed' /\ unlogged \subseteq unlogged'
     /\ \A id \in DOMAIN users : Exists(id)' /\ SameRow(id) /\ users'[id].role = users[id].role
     /\ \A id \in DOMAIN users' \ DOMAIN users : users'[id].role = users'[id].born
  \/ /\ users' = <<>> /\ UNCHANGED logs /\ (doubled \/ logs = <<>>)
     /\ mixed' = mixed \cup {id \in DOMAIN users : \E g \in Handlers : Touches(g, id)}
  \/ UNCHANGED <<users, mixed>> /\ logs' = <<>> /\ unlogged' = DOMAIN users
  \/ \E h \in Handlers :
       /\ pc[h] = "commit role" /\ pc'[h] = "done" /\ DOMAIN users' = DOMAIN users /\ Mix(h) /\ UNCHANGED unlogged
       /\ \A id \in DOMAIN users :
            /\ SameRow(id)
            /\ users'[id].role = IF id = target[h].id /\ target[h].role # call[h].role THEN call[h].role ELSE users[id].role
       /\ logs' = Append(logs, Entry(target[h].id, target[h].role, call[h].role))
  \/ \E h \in Handlers :
       /\ pc[h] = "log" /\ UNCHANGED <<users, unlogged>> /\ mixed \subseteq mixed'
       /\ logs' = Append(logs, Entry(target[h].id, "-", "admin"))

\* The table of users grows by a row that nobody has changed yet, or a name is
\* changed; the log stays as it is.
LEMMA QuietMove ==
  ASSUME Kinds, UNCHANGED logs, mixed \subseteq mixed', unlogged \subseteq unlogged',
         \/ UNCHANGED users
         \/ \E u \in UserRows : u.role = u.born /\ users' = Append(users, u)
         \/ \E i \in DOMAIN users, n \in Names : users' = [users EXCEPT ![i].name = n]
  PROVE  RolesMove
<1>1. users \in Seq(UserRows)
  BY DEF Kinds
<1>2. /\ \A id \in DOMAIN users : Exists(id)' /\ SameRow(id) /\ users'[id].role = users[id].role
      /\ \A id \in DOMAIN users' \ DOMAIN users : users'[id].role = users'[id].born
  <2>1. CASE UNCHANGED users
    BY <1>1, <2>1 DEF Exists, SameRow
  <2>2. ASSUME NEW u \in UserRows, u.role = u.born, users' = Append(users, u)
        PROVE  /\ \A id \in DOMAIN users : Exists(id)' /\ SameRow(id) /\ users'[id].role = users[id].role
               /\ \A id \in DOMAIN users' \ DOMAIN users : users'[id].role = users'[id].born
    BY <1>1, <2>2 DEF Exists, SameRow
  <2>3. ASSUME NEW i \in DOMAIN users, NEW n \in Names, users' = [users EXCEPT ![i].name = n]
        PROVE  /\ \A id \in DOMAIN users : Exists(id)' /\ SameRow(id) /\ users'[id].role = users[id].role
               /\ \A id \in DOMAIN users' \ DOMAIN users : users'[id].role = users'[id].born
    BY <1>1, <2>3 DEF Exists, SameRow, UserRows
  <2> QED BY <2>1, <2>2, <2>3
<1> QED BY <1>2 DEF RolesMove

LEMMA RootBorn == Root \in UserRows /\ Root.role = Root.born
BY RootRow DEF Root, User

LEMMA CommitMoves == ASSUME Kinds, NEW h \in Handlers, CommitRole(h) PROVE RolesMove
<1> DEFINE t == target[h]
           r == call[h].role
<1>1. pc[h] = "commit role" /\ pc'[h] = "done" /\ Mix(h) /\ users \in Seq(UserRows)
  BY DEF CommitRole, Answer, Kinds
<1>2. \/ t.role # r /\ Exists(t.id) /\ users' = [users EXCEPT ![t.id].role = r] /\ logs' = Append(logs, Entry(t.id, t.role, r))
      \/ UNCHANGED <<users, logs>>
      \/ t.role = r /\ UNCHANGED users /\ logs' = Append(logs, Entry(t.id, t.role, r))
  BY DEF CommitRole, Log, Entry
<1>3. CASE UNCHANGED <<users, logs>>
  BY <1>1, <1>3, QuietMove DEF CommitRole, Mix
<1>4. ASSUME ~UNCHANGED <<users, logs>>
      PROVE  /\ DOMAIN users' = DOMAIN users /\ logs' = Append(logs, Entry(t.id, t.role, r)) /\ UNCHANGED unlogged
             /\ \A id \in DOMAIN users : SameRow(id) /\ users'[id].role = IF id = t.id /\ t.role # r THEN r ELSE users[id].role
  <2>1. CASE UNCHANGED users /\ t.role = r
    BY <1>2, <1>4, <2>1 DEF SameRow, CommitRole
  <2>3. CASE Exists(t.id) /\ users' = [users EXCEPT ![t.id].role = r] /\ t.role # r
    <3>1. ASSUME NEW id \in DOMAIN users
          PROVE  users[id] \in UserRows /\ users'[id] = IF id = t.id THEN [users[id] EXCEPT !.role = r] ELSE users[id]
      <4>1. DOMAIN users = 1 .. Len(users)
        BY Domain
      <4>2. t.id \in DOMAIN users
        BY <2>3, <4>1 DEF Exists
      <4>3. users[id] \in UserRows
        BY DEF Kinds
      <4>4. users'[id] = IF id = t.id THEN [users[id] EXCEPT !.role = r] ELSE users[id]
        BY <2>3, <4>2
      <4> QED BY <4>3, <4>4
    <3>2. ASSUME NEW id \in DOMAIN users
          PROVE  SameRow(id) /\ users'[id].role = IF id = t.id THEN r ELSE users[id].role
      <4> HIDE DEF t, r
      <4> QED BY <3>1 DEF SameRow, UserRows
    <3>3. DOMAIN users' = DOMAIN users
      BY <2>3
    <3>4. UNCHANGED unlogged /\ logs' = Append(logs, Entry(t.id, t.role, r))
      BY <1>2, <1>4, <2>3 DEF CommitRole
    <3> QED BY <2>3, <3>2, <3>3, <3>4
  <2> QED BY <1>2, <1>4, <2>1, <2>3
<1> QED BY <1>1, <1>3, <1>4 DEF RolesMove

LEMMA NextOnRoles == ASSUME Kinds, OnCourse, TablesHold, ResetsInTurn, [Next]_vars PROVE RolesMove
<1>1. CASE UNCHANGED <<users, logs, mixed, unlogged>>
  BY <1>1, QuietMove
<1>2. ASSUME NEW h \in Handlers, Insert(h), ~Answer(h) PROVE RolesMove
  <2>1. pc[h] = "insert" /\ pc[h] \notin AtRest
    BY <1>2 DEF Insert, AtRest
  <2>2. call[h].name \in Names
    BY <2>1, Known, Fields DEF Course, Authenticating, Resetting, Op
  <2> DEFINE u == User(call[h].name, IF Op(h) = "addadmin" THEN "admin" ELSE "user", h)
  <2>3. u \in UserRows /\ u.role = u.born
    BY <2>2 DEF User, UserRows, Roles, People
  <2>4. users' = Append(users, u) /\ UNCHANGED <<logs, mixed, unlogged>>
    BY <1>2 DEF Insert, Same, ghosts
  <2> HIDE DEF u
  <2> QED BY <2>3, <2>4, QuietMove
<1>3. ASSUME NEW h \in Handlers, CommitName(h) PROVE RolesMove
  <2>1. pc[h] = "rename" /\ pc[h] \notin AtRest
    BY <1>3 DEF CommitName, AtRest
  <2>2. call[h].name \in Names
    BY <2>1, Known, Fields DEF Course, Authenticating, Resetting, Op
  <2>3. UNCHANGED <<logs, mixed, unlogged>>
        /\ (UNCHANGED users \/ (me[h].id \in DOMAIN users /\ users' = [users EXCEPT ![me[h].id].name = call[h].name]))
    BY <1>3, Domain DEF CommitName, Same, ghosts, Exists
  <2> QED BY <2>2, <2>3, QuietMove
<1>4. ASSUME NEW h \in Handlers, CommitRole(h) PROVE RolesMove
  BY <1>4, CommitMoves
<1>5. ASSUME NEW h \in Handlers, LogAdmin(h) PROVE RolesMove
  <2>1. pc[h] = "log" /\ UNCHANGED users /\ mixed \subseteq mixed'
        /\ \/ logs' = Append(logs, Entry(target[h].id, "-", "admin")) /\ UNCHANGED unlogged
           \/ UNCHANGED logs /\ unlogged \subseteq unlogged'
    BY <1>5 DEF LogAdmin, Log, Entry, Mix
  <2> QED BY <2>1, QuietMove DEF RolesMove
<1>6. ASSUME NEW h \in Handlers, DropTable(h) PROVE RolesMove
  <2> PICK t \in Tables \ gone :
        /\ Foremost(t, DropRank, todo[h])
        /\ users' = IF t = "users" THEN <<>> ELSE users
        /\ logs' = IF t = "logs" THEN <<>> ELSE logs
        /\ mixed' = IF t = "users" THEN mixed \cup {id \in DOMAIN users : \E g \in Handlers : Touches(g, id)} ELSE mixed
        /\ unlogged' = CASE t = "logs" -> DOMAIN users [] t = "users" -> {} [] OTHER -> unlogged
    BY <1>6 DEF DropTable
  <2>1. CASE t = "users"
    <3>1. doubled \/ logs = <<>>
      BY <1>6, <2>1, UsersGoLast DEF DropTable, TablesHold
    <3> QED BY <2>1, <3>1 DEF RolesMove
  <2>2. CASE t = "logs"
    BY <2>2 DEF RolesMove
  <2>3. CASE t \notin {"users", "logs"}
    BY <2>3, <1>1
  <2> QED BY <2>1, <2>2, <2>3
<1>7. ASSUME NEW h \in Handlers, AddRoot(h) PROVE RolesMove
  BY <1>7, RootBorn, QuietMove DEF AddRoot, BreakOff, Same, ghosts
<1>8. ASSUME Restart PROVE RolesMove
  BY <1>8, RootBorn, QuietMove DEF Restart
<1>9. ASSUME NEW h \in Handlers, Step(h), ~CommitRole(h), ~LogAdmin(h), ~DropTable(h), ~AddRoot(h), ~CommitName(h),
             ~Insert(h) \/ Answer(h)
      PROVE  UNCHANGED <<users, logs, mixed, unlogged>>
  BY <1>9 DEF Step, AuthSession, AuthUser, LoadTarget, Lookup, Insert, Refresh, CheckName, LoginLookup, Verify,
              NewSession, FindSession, DeleteSession, KnownLanguage, AddLanguage, ListTables, ListMissing, CreateTable,
              StatementFails, FindAdmin, FindLanguage, AddDefault, BreakOff, Same, ghosts, db, Answer, Goto, Kinds, AtRest
<1> QED BY <1>1, <1>2, <1>3, <1>4, <1>5, <1>6, <1>7, <1>8, <1>9
        DEF Next, Begin, Expire, vars, db, Same, ghosts

LEMMA CrashesGrow == ASSUME Kinds, OnCourse, [Next]_vars PROVE crashes' = crashes \/ crashes' = crashes + 1
<1>1. ASSUME NEW h \in Handlers, Ddling(h) PROVE UNCHANGED crashes
  BY <1>1 DEF Ddling, ListTables, DropTable, ListMissing, CreateTable, StatementFails, BreakOff, Same
<1>2. CASE Restart
  BY <1>2 DEF Restart
<1> QED BY <1>1, <1>2, AsideOrNot DEF Aside

\* A request in flight moves by its own steps and by a crash only.
LEMMA StaysUnless ==
  ASSUME Kinds, OnCourse, [Next]_vars, NEW h \in Handlers, pc[h] \notin AtRest
  PROVE  Stays(h) \/ Step(h) \/ Restart
<1>1. ASSUME NEW g \in Handlers, g # h, Step(g) PROVE Stays(h)
  BY <1>1, StepMoves DEF Moves, Kinds, Stays
<1>2. ASSUME NEW g \in Handlers, Begin(g) PROVE Stays(h)
  BY <1>2, BeginMoves DEF Kinds, AtRest, Stays
<1>3. CASE UNCHANGED <<call, pc, me, target>>
  BY <1>3 DEF Stays
<1> QED BY <1>1, <1>2, <1>3 DEF Next, Expire, local, vars

LEMMA LogsKind == ASSUME Kinds, OnCourse, TablesHold, ResetsInTurn, LogKinds, [Next]_vars PROVE LogKinds'
<1> DEFINE Entries == [target : Nat, old : Roles \cup {"", "-"}, new : Roles]
<1>1. logs \in Seq(Entries) /\ RolesMove
  BY NextOnRoles DEF LogKinds
<1>2. ASSUME NEW h \in Handlers, pc[h] = "commit role"
      PROVE  Entry(target[h].id, target[h].role, call[h].role) \in Entries
  <2>1. Op(h) = "role" /\ call[h] \in Requests
    BY <1>2, Known DEF AtRest, Course, Authenticating, Resetting
  <2> QED BY <2>1, Fields DEF Entry, Kinds, Rows, Op
<1>3. \A h \in Handlers : Entry(target[h].id, "-", "admin") \in Entries
  BY DEF Entry, Kinds, Rows, Roles
<1>4. logs' \in Seq(Entries)
  <2>1. UNCHANGED logs \/ logs' = <<>> \/ \E e \in Entries : logs' = Append(logs, e)
    <3> HIDE DEF Entries
    <3> QED BY <1>2, <1>3, <1>1 DEF RolesMove
  <2> HIDE DEF Entries
  <2>2. CASE UNCHANGED logs
    BY <1>1, <2>2
  <2>3. CASE logs' = <<>>
    BY <2>3
  <2>4. ASSUME NEW e \in Entries, logs' = Append(logs, e) PROVE logs' \in Seq(Entries)
    BY <1>1, <2>4
  <2> QED BY <2>1, <2>2, <2>3, <2>4
<1> QED BY <1>4 DEF LogKinds

\* Which steps lead to the writing of a role or of its log entry.
LEMMA ComesToWrite ==
  ASSUME Kinds, OnCourse, NEW h \in Handlers, Advances(h)
  PROVE  /\ pc'[h] = "commit role" => LoadTarget(h)
         /\ pc'[h] = "refresh" => Insert(h)
         /\ pc'[h] = "log" => Refresh(h)
         /\ pc'[h] = "load" => AuthUser(h) /\ pc[h] = "auth user" /\ Op(h) = "role"
<1> USE DEF Kinds, Goto
<1>1. pc[h] \notin AtRest /\ ~Answer(h)
  BY DEF Advances, Answer, AtRest
<1>2. Course(Op(h), pc[h])
  BY <1>1, Known
<1>3. CASE AuthUser(h)
  <2>1. Op(h) \in Protected
    BY <1>2, <1>3 DEF AuthUser, Course, Authenticating, Resetting
  <2>2. pc'[h] = IF pc[h] = "pre user" THEN "auth session" ELSE Work(Op(h))
    BY <1>1, <1>3 DEF AuthUser
  <2> QED BY <1>3, <2>1, <2>2 DEF AuthUser, Work, Protected
<1>4. CASE AuthSession(h) \/ CheckName(h) \/ KnownLanguage(h) \/ Lookup(h) \/ LoginLookup(h) \/ Verify(h) \/ FindSession(h)
  <2>1. pc'[h] \in {"pre user", "auth user", "rename", "add", "insert", "verify", "session", "delete"}
    BY <1>1, <1>4 DEF AuthSession, CheckName, KnownLanguage, Lookup, LoginLookup, Verify, FindSession
  <2> QED BY <2>1
<1>5. CASE Ddling(h) \/ FindAdmin(h) \/ AddRoot(h) \/ FindLanguage(h)
  <2>1. pc'[h] \in {"drop", "create", "add root", "ensure language", "add default", "sync default"}
    BY <1>1, <1>5 DEF Ddling, ListTables, DropTable, ListMissing, CreateTable, StatementFails, FindAdmin, AddRoot,
                      FindLanguage, BreakOff
  <2> QED BY <2>1
<1>6. CASE LoadTarget(h)
  BY <1>1, <1>6 DEF LoadTarget
<1>7. CASE Insert(h)
  BY <1>1, <1>7 DEF Insert
<1>8. CASE Refresh(h)
  BY <1>1, <1>8 DEF Refresh
<1> QED BY <1>1, <1>3, <1>4, <1>5, <1>6, <1>7, <1>8
        DEF Advances, Step, CommitRole, LogAdmin, CommitName, NewSession, DeleteSession, AddLanguage, AddDefault,
            BreakOff, Ddling

\* A row a request has in hand is changed by nobody else, or it is mixed.
LEMMA InHand ==
  ASSUME Kinds, OnCourse, LogsInHand, RolesMove, UsersMove, NEW h \in Handlers, NEW id \in Nat, Touches(h, id), Stays(h)
  PROVE  id \in mixed' \/ (Exists(id) /\ Exists(id)' /\ users'[id].role = users[id].role)
<1>1. Exists(id) \/ id \in mixed
  BY DEF LogsInHand
<1>2. mixed \subseteq mixed'
  BY DEF RolesMove, Mix
<1> SUFFICES ASSUME Exists(id), id \in DOMAIN users PROVE id \in mixed' \/ (Exists(id)' /\ users'[id].role = users[id].role)
  BY <1>1, <1>2, Domain DEF Exists
<1>3. CASE users' = <<>> /\ mixed' = mixed \cup {i \in DOMAIN users : \E g \in Handlers : Touches(g, i)}
  BY <1>3
<1>4. ASSUME NEW g \in Handlers, pc[g] = "commit role", pc'[g] = "done", DOMAIN users' = DOMAIN users, Mix(g),
             users'[id].role = IF id = target[g].id /\ target[g].role # call[g].role THEN call[g].role ELSE users[id].role
      PROVE  id \in mixed' \/ (Exists(id)' /\ users'[id].role = users[id].role)
  <2>1. g # h
    BY <1>4 DEF Stays
  <2>2. CASE id = target[g].id
    BY <1>4, <2>1, <2>2 DEF Mix
  <2>3. CASE id # target[g].id
    <3>1. users \in Seq(UserRows) /\ users' \in Seq(UserRows)
      BY UsersKind DEF Kinds
    <3>2. DOMAIN users' = 1 .. Len(users')
      BY <3>1
    <3> QED BY <1>4, <2>3, <3>2 DEF Exists
  <2> QED BY <2>2, <2>3
<1> QED BY <1>3, <1>4 DEF RolesMove, Exists

LEMMA Appended ==
  ASSUME NEW S, NEW s \in Seq(S), NEW e
  PROVE  /\ DOMAIN s = 1 .. Len(s) /\ Len(s) \in Nat
         /\ DOMAIN Append(s, e) = 1 .. Len(s) + 1 /\ Len(Append(s, e)) = Len(s) + 1
         /\ \A i \in 1 .. Len(s) : Append(s, e)[i] = s[i]
         /\ Append(s, e)[Len(s) + 1] = e
OBVIOUS

LEMMA MixedGrows == ASSUME RolesMove PROVE mixed \subseteq mixed'
BY DEF RolesMove, Mix

\* A row that a request takes in hand is one that it reads or makes.
LEMMA TakesInHand ==
  ASSUME Kinds, OnCourse, TablesHold, ResetsInTurn, LogsInHand, [Next]_vars, NEW h \in Handlers, Advances(h), NEW id \in Nat, Touches(h, id)'
  PROVE  /\ Exists(id)' \/ id \in mixed'
         /\ pc'[h] \in {"commit role", "load"} /\ id \notin mixed' =>
              IF pc'[h] = "commit role" THEN target'[h].role = users'[id].role ELSE me'[h].role = users'[id].role
<1>1. RolesMove /\ mixed \subseteq mixed' /\ call'[h] = call[h]
  BY NextOnRoles, MixedGrows DEF Advances
<1>2. CASE pc'[h] = "commit role"
  <2>1. LoadTarget(h) /\ ~Answer(h) /\ target'[h].id = id
    BY <1>2, ComesToWrite DEF Answer, Kinds, Touches
  <2>2. /\ pc[h] = "load" /\ UNCHANGED <<users, mixed>>
        /\ call[h].id = me[h].id \/ Exists(call[h].id)
        /\ target'[h] = IF call[h].id = me[h].id THEN me[h] ELSE Row(call[h].id)
    BY <2>1 DEF LoadTarget, db, Same, ghosts, Kinds
  <2>3. CASE call[h].id = me[h].id
    <3>1. id = me[h].id /\ Touches(h, id) /\ target'[h] = me[h]
      BY <2>1, <2>2, <2>3 DEF Touches
    <3>2. Exists(id) \/ id \in mixed
      BY <3>1 DEF LogsInHand
    <3>3. id \notin mixed => me[h].role = users[id].role
      BY <2>2, <2>3, <3>1 DEF LogsInHand
    <3> QED BY <1>2, <2>2, <3>1, <3>2, <3>3 DEF Exists
  <2>4. CASE call[h].id # me[h].id
    <3>1. target'[h] = Row(id) /\ Exists(id)
      BY <2>1, <2>2, <2>4 DEF Row
    <3>2. target'[h].role = users'[id].role
      BY <2>2, <3>1 DEF Row
    <3>3. Exists(id)'
      BY <2>2, <3>1 DEF Exists
    <3> QED BY <1>2, <3>2, <3>3
  <2> QED BY <2>3, <2>4
<1>3. CASE pc'[h] = "refresh"
  <2>1. Insert(h) /\ ~Answer(h) /\ target'[h].id = id
    BY <1>3, ComesToWrite DEF Answer, Kinds, Touches
  <2>2. target'[h] = [NoRow EXCEPT !.id = Len(users) + 1, !.who = h]
    BY <2>1 DEF Insert, Kinds
  <2>3. \E u \in {User(call[h].name, r, h) : r \in {"admin", "user"}} : users' = Append(users, u)
    BY <2>1 DEF Insert
  <2>4. Len(users') = Len(users) + 1 /\ Len(users) \in Nat
    BY <2>3 DEF Kinds
  <2> QED BY <1>3, <2>1, <2>2, <2>4 DEF Exists, NoRow
<1>4. CASE pc'[h] = "log"
  <2>1. Refresh(h) /\ ~Answer(h)
    BY <1>4, ComesToWrite DEF Answer, Kinds
  <2>2. UNCHANGED <<users, target, mixed>> /\ pc[h] = "refresh"
    BY <2>1 DEF Refresh, db, Same, ghosts
  <2>3. Touches(h, id)
    BY <1>4, <2>2 DEF Touches
  <2> QED BY <1>4, <2>2, <2>3 DEF LogsInHand, Exists
<1>5. CASE pc'[h] = "load"
  <2>1. AuthUser(h) /\ ~Answer(h) /\ me'[h].id = id
    BY <1>5, ComesToWrite DEF Answer, Kinds, Touches
  <2>2. Exists(me[h].id) /\ me'[h] = Row(me[h].id) /\ UNCHANGED users
    BY <2>1 DEF AuthUser, db, Kinds
  <2> QED BY <1>5, <2>1, <2>2 DEF Row, Exists
<1> QED BY <1>2, <1>3, <1>4, <1>5 DEF Touches

LEMMA InHandStep ==
  ASSUME Kinds, OnCourse, TablesHold, ResetsInTurn, LogsInHand, LogKinds, [Next]_vars
  PROVE  LogsInHand'
<1>1. RolesMove /\ UsersMove /\ mixed \subseteq mixed'
  BY NextOnRoles, NextOnUsers, MixedGrows
<1>2. ASSUME NEW h \in Handlers, NEW id \in Nat, Touches(h, id)'
      PROVE  /\ Exists(id)' \/ id \in mixed'
             /\ pc'[h] = "commit role" /\ id \notin mixed' => target'[h].role = users'[id].role
             /\ pc'[h] = "load" /\ id \notin mixed' => me'[h].role = users'[id].role
  <2>1. CASE Stays(h)
    <3>1. Touches(h, id)
      BY <1>2, <2>1 DEF Stays, Touches
    <3>2. id \in mixed' \/ (Exists(id) /\ Exists(id)' /\ users'[id].role = users[id].role)
      BY <1>1, <2>1, <3>1, InHand
    <3>3. /\ pc[h] = "commit role" /\ id \notin mixed => target[h].role = users[id].role
          /\ pc[h] = "load" /\ id \notin mixed => me[h].role = users[id].role
      BY <3>1 DEF LogsInHand, Touches
    <3> QED BY <1>1, <2>1, <3>2, <3>3 DEF Stays
  <2>2. CASE Advances(h)
    BY <1>2, <2>2, TakesInHand
  <2>3. ~Starts(h) /\ ~Rests(h)
    BY <1>2 DEF Starts, Rests, Touches, AtRest
  <2> QED BY <2>1, <2>2, <2>3, Requesting
<1>3. ASSUME NEW h \in Handlers, NEW id \in Nat, pc'[h] = "commit role", target'[h].id = id, id \notin mixed'
      PROVE  target'[h].role = users'[id].role
  BY <1>2, <1>3 DEF Touches
<1>4. ASSUME NEW h \in Handlers, NEW id \in Nat, pc'[h] = "load", call'[h].id = id, me'[h].id = id, id \notin mixed'
      PROVE  me'[h].role = users'[id].role
  BY <1>2, <1>4 DEF Touches
<1>5. ASSUME ~doubled', NEW id \in Nat, NEW i \in DOMAIN logs', Concerns(i, id)'
      PROVE  Exists(id)' \/ id \in mixed'
  <2>1. ~doubled /\ logs' # <<>>
    BY <1>5, DoubledStays
  <2>2. ASSUME NEW h \in Handlers, pc[h] = "commit role", target[h].id = id, DOMAIN users' = DOMAIN users
        PROVE  Exists(id)' \/ id \in mixed'
    <3>1. Exists(id) \/ id \in mixed
      BY <2>2 DEF LogsInHand, Touches
    <3>2. DOMAIN users = 1 .. Len(users) /\ DOMAIN users' = 1 .. Len(users')
      BY KindsStep DEF Kinds
    <3> QED BY <1>1, <2>2, <3>1, <3>2 DEF Exists
  <2>3. ASSUME i \in DOMAIN logs, Concerns(i, id) PROVE Exists(id)' \/ id \in mixed'
    <3>1. Exists(id) \/ id \in mixed
      BY <2>1, <2>3 DEF LogsInHand
    <3>2. ASSUME Exists(id) PROVE Exists(id)'
      <4>1. DOMAIN users = 1 .. Len(users) /\ DOMAIN users' = 1 .. Len(users')
        BY KindsStep DEF Kinds
      <4>2. id \in DOMAIN users
        BY <3>2, <4>1 DEF Exists
      <4> QED BY <1>1, <2>1, <3>2, <4>1, <4>2 DEF RolesMove, Exists
    <3> QED BY <1>1, <3>1, <3>2
  <2>4. logs \in Seq([target : Nat, old : Roles \cup {"", "-"}, new : Roles])
    BY DEF LogKinds
  <2>5. ASSUME NEW e, logs' = Append(logs, e)
        PROVE  \/ i \in DOMAIN logs /\ Concerns(i, id)
               \/ e.target = id /\ e.old # "-"
    <3>1. /\ DOMAIN logs = 1 .. Len(logs) /\ DOMAIN logs' = 1 .. Len(logs) + 1 /\ Len(logs) \in Nat
          /\ \A j \in 1 .. Len(logs) : logs'[j] = logs[j]
          /\ logs'[Len(logs) + 1] = e
      <4> DEFINE Entries == [target : Nat, old : Roles \cup {"", "-"}, new : Roles]
      <4>1. logs \in Seq(Entries)
        BY <2>4
      <4> HIDE DEF Entries
      <4>2. /\ DOMAIN logs = 1 .. Len(logs) /\ DOMAIN Append(logs, e) = 1 .. Len(logs) + 1 /\ Len(logs) \in Nat
            /\ \A j \in 1 .. Len(logs) : Append(logs, e)[j] = logs[j]
            /\ Append(logs, e)[Len(logs) + 1] = e
        BY <4>1, Appended
      <4> QED BY <2>5, <4>2
    <3>2. CASE i \in 1 .. Len(logs)
      BY <1>5, <3>1, <3>2 DEF Concerns
    <3>3. CASE i = Len(logs) + 1
      BY <1>5, <3>1, <3>3 DEF Concerns
    <3> QED BY <1>5, <3>1, <3>2, <3>3
  <2>6. CASE UNCHANGED logs
    BY <1>5, <2>3, <2>6 DEF Concerns
  <2>7. ASSUME NEW h \in Handlers, pc[h] = "commit role", DOMAIN users' = DOMAIN users,
               logs' = Append(logs, Entry(target[h].id, target[h].role, call[h].role))
        PROVE  Exists(id)' \/ id \in mixed'
    <3>1. (i \in DOMAIN logs /\ Concerns(i, id)) \/ target[h].id = id
      <4> DEFINE e == Entry(target[h].id, target[h].role, call[h].role)
      <4>1. logs' = Append(logs, e) /\ e.target = target[h].id
        BY <2>7 DEF Entry
      <4> HIDE DEF e
      <4> QED BY <2>5, <4>1
    <3> QED BY <2>2, <2>3, <2>7, <3>1
  <2>8. ASSUME NEW h \in Handlers, logs' = Append(logs, Entry(target[h].id, "-", "admin"))
        PROVE  Exists(id)' \/ id \in mixed'
    BY <2>3, <2>5, <2>8 DEF Entry
  <2> QED BY <1>1, <2>1, <2>6, <2>7, <2>8 DEF RolesMove
<1>6. \A h \in Handlers : target'[h].id \in Nat /\ me'[h].id \in Nat
  BY KindsStep DEF Kinds, Rows
<1> QED BY <1>2, <1>3, <1>4, <1>5, <1>6 DEF LogsInHand

\* What a step does to the rows and to who made them.
LEMMA NewRow ==
  ASSUME Kinds, OnCourse, TablesHold, ResetsInTurn, [Next]_vars, NEW id \in DOMAIN users'
  PROVE  \/ id \in DOMAIN users /\ SameRow(id)
         \/ id \notin DOMAIN users /\ users'[id].who = "root"
         \/ \E h \in Handlers :
              /\ id = Len(users) + 1 /\ id \notin DOMAIN users /\ users'[id].who = h
              /\ pc[h] = "insert" /\ pc'[h] = "refresh" /\ target'[h].id = id /\ target'[h].who = h
              /\ users'[id].born = "admin" => Op(h) = "addadmin"
<1>1. RolesMove /\ users' # <<>>
  BY NextOnRoles
<1>2. CASE id \in DOMAIN users
  <2>1. SameRow(id)
    BY <1>1, <1>2 DEF RolesMove, SameRow
  <2> QED BY <1>2, <2>1
<1>3. CASE id \notin DOMAIN users
  <2>1. users \in Seq(UserRows) /\ DOMAIN users = 1 .. Len(users) /\ Len(users) \in Nat
    BY DEF Kinds
  <2>2. ASSUME NEW u, users' = Append(users, u) PROVE id = Len(users) + 1 /\ users'[id] = u
    <3>1. DOMAIN Append(users, u) = 1 .. Len(users) + 1 /\ Append(users, u)[Len(users) + 1] = u
      BY <2>1, Appended
    <3> QED BY <1>3, <2>1, <2>2, <3>1
  <2>3. Root.who = "root"
    BY DEF Root, User
  <2>4. CASE Restart
    BY <1>3, <2>2, <2>3, <2>4 DEF Restart
  <2>5. ASSUME NEW h \in Handlers, AddRoot(h) PROVE users'[id].who = "root"
    BY <1>3, <2>2, <2>3, <2>5 DEF AddRoot
  <2>6. ASSUME NEW h \in Handlers, Insert(h)
        PROVE  /\ id = Len(users) + 1 /\ users'[id].who = h
               /\ pc[h] = "insert" /\ pc'[h] = "refresh" /\ target'[h].id = id /\ target'[h].who = h
               /\ users'[id].born = "admin" => Op(h) = "addadmin"
    <3> DEFINE u == User(call[h].name, IF Op(h) = "addadmin" THEN "admin" ELSE "user", h)
    <3>1. users' = Append(users, u)
      BY <1>3, <2>6 DEF Insert
    <3>2. /\ pc[h] = "insert" /\ pc'[h] = "refresh"
          /\ target'[h] = [NoRow EXCEPT !.id = Len(users) + 1, !.who = h]
      BY <1>3, <2>6 DEF Insert, Kinds, Goto
    <3>3. u.who = h /\ (u.born = "admin" => Op(h) = "addadmin")
      BY DEF User
    <3> HIDE DEF u
    <3>4. id = Len(users) + 1 /\ users'[id] = u
      BY <2>2, <3>1
    <3> QED BY <3>2, <3>3, <3>4 DEF NoRow
  <2>7. ASSUME NEW h \in Handlers, Step(h), ~AddRoot(h), ~Insert(h) PROVE FALSE
    <3>1. users' = <<>> \/ DOMAIN users' = DOMAIN users
      BY <2>1, <2>7 DEF Step, AuthSession, AuthUser, LoadTarget, CommitRole, Lookup, Refresh, LogAdmin, CheckName,
              CommitName, LoginLookup, Verify, NewSession, FindSession, DeleteSession, KnownLanguage, AddLanguage,
              ListTables, DropTable, ListMissing, CreateTable, StatementFails, FindAdmin, FindLanguage, AddDefault, db
    <3> QED BY <1>3, <3>1
  <2> QED BY <1>3, <2>4, <2>5, <2>6, <2>7 DEF Next, Begin, Expire, vars, db
<1> QED BY <1>2, <1>3

LEMMA MadeOnceStep ==
  ASSUME Kinds, OnCourse, TablesHold, ResetsInTurn, MadeOnce, [Next]_vars
  PROVE  MadeOnce'
<1>1. ASSUME NEW h \in Handlers, pc'[h] \in {"refresh", "log"}
      PROVE  /\ Op(h)' = Op(h)
             /\ \/ pc[h] \in {"refresh", "log"} /\ target'[h] = target[h]
                \/ pc[h] = "insert" /\ pc'[h] = "refresh" /\ target'[h].who = h
  <2>1. CASE Stays(h)
    BY <1>1, <2>1 DEF Stays, Op
  <2>2. CASE Advances(h)
    <3>1. ~Answer(h) /\ Op(h)' = Op(h)
      BY <2>2 DEF Advances, Answer, AtRest, Kinds, Op
    <3>2. CASE Insert(h)
      <4>1. pc[h] = "insert" /\ target' = [target EXCEPT ![h] = [NoRow EXCEPT !.id = Len(users) + 1, !.who = h]] /\ Goto(h, "refresh")
        BY <3>1, <3>2 DEF Insert
      <4>2. pc'[h] = "refresh" /\ target'[h] = [NoRow EXCEPT !.id = Len(users) + 1, !.who = h]
        BY <4>1 DEF Goto, Kinds
      <4> QED BY <3>1, <4>1, <4>2 DEF NoRow
    <3>3. CASE Refresh(h)
      BY <1>1, <3>1, <3>3 DEF Refresh, Kinds
    <3> QED BY <1>1, <2>2, <3>2, <3>3, <3>1, ComesToWrite
  <2> QED BY <1>1, <2>1, <2>2, Requesting DEF Starts, Rests, AtRest
<1>2. ASSUME NEW id \in DOMAIN users', NEW h \in Handlers, users'[id].who = h
      PROVE  /\ pc'[h] \in {"refresh", "log", "done", "lost"}
             /\ pc'[h] \in {"refresh", "log"} => target'[h].id = id
             /\ users'[id].born = "admin" /\ pc'[h] \in {"refresh", "log"} => Op(h)' = "addadmin"
  <2>1. CASE id \in DOMAIN users /\ SameRow(id)
    <3>1. /\ pc[h] \in {"refresh", "log", "done", "lost"}
          /\ pc[h] \in {"refresh", "log"} => target[h].id = id
          /\ users[id].born = "admin" /\ pc[h] \in {"refresh", "log"} => Op(h) = "addadmin"
      BY <1>2, <2>1 DEF MadeOnce, SameRow
    <3>2. pc'[h] \in {"refresh", "log", "done", "lost"}
      <4>1. CASE Stays(h)
        BY <3>1, <4>1 DEF Stays
      <4>2. CASE Advances(h)
        <5>1. pc[h] = "refresh" \/ pc[h] = "log"
          BY <3>1, <4>2 DEF Advances, AtRest
        <5>2. Refresh(h) \/ LogAdmin(h)
          BY <4>2, <5>1 DEF Advances, Step, AuthSession, AuthUser, LoadTarget, CommitRole, Lookup, Insert, CheckName,
              CommitName, LoginLookup, Verify, NewSession, FindSession, DeleteSession, KnownLanguage, AddLanguage,
              ListTables, DropTable, ListMissing, CreateTable, StatementFails, Ddl, FindAdmin, AddRoot,
              FindLanguage, AddDefault
        <5> QED BY <5>2 DEF Refresh, LogAdmin, Goto, Answer, Kinds
      <4>3. CASE Rests(h)
        BY <3>1, <4>3 DEF Rests, AtRest
      <4> QED BY <3>1, <4>1, <4>2, <4>3, Requesting DEF Starts
    <3> QED BY <1>1, <1>2, <2>1, <3>1, <3>2 DEF SameRow
  <2>2. CASE id \notin DOMAIN users
    <3>1. users'[id].who # "root"
      BY <1>2, AccountsAssumption
    <3>2. /\ pc[h] = "insert" /\ pc'[h] = "refresh" /\ target'[h].id = id
          /\ users'[id].born = "admin" => Op(h) = "addadmin"
      BY <1>2, <2>2, <3>1, NewRow
    <3> QED BY <1>1, <3>2
  <2> QED BY <2>1, <2>2, NewRow
<1>3. ASSUME NEW h \in Handlers, pc'[h] \in {"refresh", "log"} PROVE target'[h].who = h
  BY <1>1, <1>3 DEF MadeOnce
<1> QED BY <1>2, <1>3 DEF MadeOnce

\* The two halves of LogExplainsRoles, for one user.
Explained(id) ==
  /\ \A k \in DOMAIN logs : Concerns(k, id) => LeavesWith(k, id, logs[k].old)
  /\ LeavesWith(Len(logs) + 1, id, users[id].role)
Announced(id) ==
  \/ \E i \in DOMAIN logs : logs[i].target = id /\ logs[i].old = "-"
  \/ \E h \in Handlers : pc[h] \in {"refresh", "log"} /\ target[h].who = users[id].who
  \/ crashes > 0

\* The log goes on explaining a role that changes together with it.
LEMMA ExplainedMore ==
  ASSUME LogKinds, NEW id \in Nat, Explained(id), NEW e, logs' = Append(logs, e),
         users'[id].born = users[id].born,
         IF e.target = id /\ e.old # "-" THEN e.old = users[id].role /\ e.new = users'[id].role
                                         ELSE users'[id].role = users[id].role
  PROVE  Explained(id)'
<1> PICK n : n = Len(logs) + 1
  OBVIOUS
<1>1. /\ DOMAIN logs = 1 .. Len(logs) /\ DOMAIN logs' = 1 .. n /\ Len(logs) \in Nat /\ Len(logs') = n
      /\ \A j \in 1 .. Len(logs) : logs'[j] = logs[j]
      /\ logs'[n] = e
  <2> DEFINE Entries == [target : Nat, old : Roles \cup {"", "-"}, new : Roles]
  <2>1. logs \in Seq(Entries)
    BY DEF LogKinds
  <2> HIDE DEF Entries
  <2>2. /\ DOMAIN logs = 1 .. Len(logs) /\ DOMAIN Append(logs, e) = 1 .. Len(logs) + 1 /\ Len(logs) \in Nat
        /\ Len(Append(logs, e)) = Len(logs) + 1
        /\ \A j \in 1 .. Len(logs) : Append(logs, e)[j] = logs[j]
        /\ Append(logs, e)[Len(logs) + 1] = e
    BY <2>1, Appended
  <2> QED BY <2>2
<1>2. \A j \in 1 .. Len(logs) : Concerns(j, id)' = Concerns(j, id)
  BY <1>1 DEF Concerns
<1>3. Concerns(n, id)' <=> (e.target = id /\ e.old # "-")
  BY <1>1 DEF Concerns
<1>4. ASSUME NEW k \in 1 .. n, NEW role, LeavesWith(k, id, role),
             NEW i \in 0 .. k - 1, i = 0 \/ Concerns(i, id)', \A j \in i + 1 .. k - 1 : ~Concerns(j, id)'
      PROVE  role = IF i = 0 THEN users'[id].born ELSE logs'[i].new
  <2>1. (i = 0 \/ Concerns(i, id)) /\ (\A j \in i + 1 .. k - 1 : ~Concerns(j, id))
    BY <1>1, <1>2, <1>4
  <2>2. role = IF i = 0 THEN users[id].born ELSE logs[i].new
    BY <1>4, <2>1 DEF LeavesWith
  <2> QED BY <1>1, <1>4, <2>2
<1>5. ASSUME NEW k \in DOMAIN logs', Concerns(k, id)',
             NEW i \in 0 .. k - 1, i = 0 \/ Concerns(i, id)', \A j \in i + 1 .. k - 1 : ~Concerns(j, id)'
      PROVE  logs'[k].old = IF i = 0 THEN users'[id].born ELSE logs'[i].new
  <2>1. CASE k \in 1 .. Len(logs)
    <3>1. LeavesWith(k, id, logs[k].old)
      BY <1>1, <1>2, <1>5, <2>1 DEF Explained
    <3> QED BY <1>1, <1>4, <1>5, <2>1, <3>1
  <2>2. CASE k = n
    <3>1. LeavesWith(k, id, users[id].role) /\ logs'[k].old = users[id].role
      BY <1>1, <1>3, <1>5, <2>2 DEF Explained
    <3> QED BY <1>1, <1>4, <1>5, <2>2, <3>1
  <2> QED BY <1>1, <2>1, <2>2
<1>6. ASSUME NEW i \in 0 .. n, i = 0 \/ Concerns(i, id)', \A j \in i + 1 .. n : ~Concerns(j, id)'
      PROVE  users'[id].role = IF i = 0 THEN users'[id].born ELSE logs'[i].new
  <2>1. CASE i = n
    BY <1>1, <1>3, <1>6, <2>1
  <2>2. CASE i # n
    <3>1. i \in 0 .. n - 1 /\ n \in i + 1 .. n /\ \A j \in i + 1 .. n - 1 : ~Concerns(j, id)'
      BY <1>1, <1>6, <2>2
    <3>2. users'[id].role = users[id].role
      BY <1>3, <1>6, <3>1
    <3>3. LeavesWith(n, id, users[id].role)
      BY DEF Explained
    <3> QED BY <1>1, <1>4, <1>6, <3>1, <3>2, <3>3
  <2> QED BY <2>1, <2>2
<1>7. n + 1 - 1 = n
  BY <1>1
<1>8. \A k \in DOMAIN logs' : Concerns(k, id)' => LeavesWith(k, id, logs[k].old)'
  BY <1>5 DEF LeavesWith
<1>9. LeavesWith(Len(logs) + 1, id, users[id].role)'
  BY <1>1, <1>6, <1>7 DEF LeavesWith
<1> QED BY <1>8, <1>9 DEF Explained

LEMMA ExplainedStep ==
  ASSUME Kinds, OnCourse, TablesHold, ResetsInTurn, LogKinds, LogsInHand, [Next]_vars, ~doubled',
         \A id \in DOMAIN users \ (mixed \cup unlogged) : Explained(id), NEW id \in DOMAIN users' \ (mixed' \cup unlogged')
  PROVE  Explained(id)'
<1>1. RolesMove /\ id \notin mixed /\ id \notin unlogged /\ id \in Nat
  <2>1. id \in Nat
    BY KindsStep DEF Kinds
  <2>2. RolesMove /\ id \notin mixed
    BY NextOnRoles, MixedGrows
  <2>3. id \notin unlogged
    <3>1. users' # <<>>
      OBVIOUS
    <3> QED BY <2>2, <3>1 DEF RolesMove
  <2> QED BY <2>1, <2>2, <2>3
<1>2. CASE /\ UNCHANGED logs /\ id \in DOMAIN users /\ SameRow(id) /\ users'[id].role = users[id].role
  BY <1>1, <1>2 DEF Explained, LeavesWith, Concerns, SameRow
<1>3. CASE UNCHANGED logs /\ id \notin DOMAIN users /\ users'[id].role = users'[id].born
  <2>1. ~Exists(id)
    BY <1>3, Domain DEF Exists
  <2>2. \A i \in DOMAIN logs : ~Concerns(i, id)
    BY <1>1, <2>1, DoubledStays DEF LogsInHand
  <2>3. DOMAIN logs = 1 .. Len(logs) /\ Len(logs) \in Nat
    <3> DEFINE Entries == [target : Nat, old : Roles \cup {"", "-"}, new : Roles]
    <3>1. logs \in Seq(Entries)
      BY DEF LogKinds
    <3> HIDE DEF Entries
    <3> QED BY <3>1
  <2> QED BY <1>3, <2>2, <2>3 DEF Explained, LeavesWith, Concerns
<1>4. ASSUME NEW h \in Handlers, pc[h] = "commit role", id \in DOMAIN users, SameRow(id),
             users'[id].role = IF id = target[h].id /\ target[h].role # call[h].role THEN call[h].role ELSE users[id].role,
             logs' = Append(logs, Entry(target[h].id, target[h].role, call[h].role))
      PROVE  Explained(id)'
  <2> DEFINE e == Entry(target[h].id, target[h].role, call[h].role)
  <2>1. e.target = target[h].id /\ e.old = target[h].role /\ e.new = call[h].role /\ logs' = Append(logs, e)
    BY <1>4 DEF Entry
  <2> HIDE DEF e
  <2>2. CASE id = target[h].id
    <3>1. target[h].role = users[id].role /\ users'[id].role = call[h].role
      BY <1>1, <1>4, <2>2 DEF LogsInHand
    <3>2. e.old # "-"
      BY <2>1 DEF Kinds, Rows, Roles
    <3> QED BY <1>1, <1>4, <2>1, <2>2, <3>1, <3>2, ExplainedMore DEF SameRow
  <2>3. CASE id # target[h].id
    BY <1>1, <1>4, <2>1, <2>3, ExplainedMore DEF SameRow
  <2> QED BY <2>2, <2>3
<1>5. ASSUME NEW h \in Handlers, UNCHANGED users, logs' = Append(logs, Entry(target[h].id, "-", "admin"))
      PROVE  Explained(id)'
  <2> DEFINE e == Entry(target[h].id, "-", "admin")
  <2>1. e.old = "-" /\ logs' = Append(logs, e)
    BY <1>5 DEF Entry
  <2> HIDE DEF e
  <2> QED BY <1>1, <1>5, <2>1, ExplainedMore
<1>6. CASE users' = <<>>
  BY <1>6
<1>7. CASE UNCHANGED users /\ unlogged' = DOMAIN users
  BY <1>7
<1> QED BY <1>1, <1>2, <1>3, <1>4, <1>5, <1>6, <1>7 DEF RolesMove

\* An administrator is announced by the request that made the row.
LEMMA AnnouncedStep ==
  ASSUME Kinds, OnCourse, TablesHold, ResetsInTurn, IndexToCome, LogKinds, MadeOnce, [Next]_vars,
         \A id \in DOMAIN users \ unlogged : users[id].born = "admin" /\ users[id].who # "root" => Announced(id),
         NEW id \in DOMAIN users' \ unlogged', users'[id].born = "admin", users'[id].who # "root"
  PROVE  Announced(id)'
<1>1. RolesMove /\ logs \in Seq([target : Nat, old : Roles \cup {"", "-"}, new : Roles]) /\ crashes \in Nat
  BY NextOnRoles DEF LogKinds, IndexToCome
<1>2. CASE \E h \in Handlers : pc'[h] = "refresh" /\ target'[h].who = users'[id].who
  BY <1>2 DEF Announced
<1>3. CASE id \in DOMAIN users /\ SameRow(id)
  <2>1. Announced(id)
    <3>1. users' # <<>>
      OBVIOUS
    <3>2. id \notin unlogged
      BY <1>1, <1>3, <3>1 DEF RolesMove
    <3> QED BY <1>3, <3>2 DEF SameRow
  <2>2. CASE crashes > 0
    <3>1. crashes' = crashes \/ crashes' = crashes + 1
      BY CrashesGrow
    <3>2. crashes \in Nat
      BY <1>1
    <3>3. crashes' > 0
      BY <2>2, <3>1, <3>2
    <3> QED BY <3>3 DEF Announced
  <2>3. ASSUME NEW i \in DOMAIN logs, logs[i].target = id, logs[i].old = "-" PROVE Announced(id)'
    <3>1. i \in DOMAIN logs' /\ logs'[i] = logs[i]
      <4>1. UNCHANGED logs \/ \E e : logs' = Append(logs, e)
        <5>1. users' # <<>>
          OBVIOUS
        <5> QED BY <1>1, <1>3, <5>1 DEF RolesMove
      <4>2. ASSUME NEW e, logs' = Append(logs, e) PROVE i \in DOMAIN logs' /\ logs'[i] = logs[i]
        <5> DEFINE Entries == [target : Nat, old : Roles \cup {"", "-"}, new : Roles]
        <5>1. logs \in Seq(Entries)
          BY <1>1
        <5> HIDE DEF Entries
        <5>2. /\ DOMAIN logs = 1 .. Len(logs) /\ DOMAIN Append(logs, e) = 1 .. Len(logs) + 1 /\ Len(logs) \in Nat
              /\ \A j \in 1 .. Len(logs) : Append(logs, e)[j] = logs[j]
          BY <5>1, Appended
        <5> QED BY <2>3, <4>2, <5>2
      <4> QED BY <2>3, <4>1, <4>2
    <3> QED BY <2>3, <3>1 DEF Announced
  <2>4. ASSUME NEW h \in Handlers, pc[h] \in {"refresh", "log"}, target[h].who = users[id].who PROVE Announced(id)'
    <3>1. users[id].who = h /\ target[h].id = id /\ Op(h) = "addadmin"
      BY <1>3, <2>4 DEF MadeOnce, SameRow
    <3>2. CASE Stays(h)
      BY <1>3, <2>4, <3>2 DEF Stays, Announced, SameRow
    <3>3. CASE Step(h) /\ pc[h] = "refresh"
      <4>1. Refresh(h)
        BY <3>3 DEF Step, AuthSession, AuthUser, LoadTarget, CommitRole, Lookup, Insert, Refresh, LogAdmin, CheckName,
              CommitName, LoginLookup, Verify, NewSession, FindSession, DeleteSession, KnownLanguage, AddLanguage,
              ListTables, DropTable, ListMissing, CreateTable, StatementFails, Ddl, FindAdmin, AddRoot,
              FindLanguage, AddDefault
      <4>2. Exists(id)
        BY <1>3, Domain DEF Exists
      <4>3. pc'[h] = "log" /\ target'[h] = target[h]
        BY <3>1, <4>1, <4>2 DEF Refresh, Goto, Kinds
      <4> QED BY <1>3, <2>4, <4>3 DEF Announced, SameRow
    <3>4. CASE Step(h) /\ pc[h] = "log"
      <4>1. LogAdmin(h)
        BY <3>4 DEF Step, AuthSession, AuthUser, LoadTarget, CommitRole, Lookup, Insert, Refresh, LogAdmin, CheckName,
              CommitName, LoginLookup, Verify, NewSession, FindSession, DeleteSession, KnownLanguage, AddLanguage,
              ListTables, DropTable, ListMissing, CreateTable, StatementFails, Ddl, FindAdmin, AddRoot,
              FindLanguage, AddDefault
      <4> DEFINE e == Entry(id, "-", "admin")
                 Entries == [target : Nat, old : Roles \cup {"", "-"}, new : Roles]
      <4>2. logs' = Append(logs, e) /\ e.target = id /\ e.old = "-" /\ logs \in Seq(Entries)
        BY <1>1, <3>1, <4>1 DEF LogAdmin, Log, Entry, Kinds
      <4> HIDE DEF e, Entries
      <4>3. /\ DOMAIN Append(logs, e) = 1 .. Len(logs) + 1 /\ Len(logs) \in Nat
            /\ Append(logs, e)[Len(logs) + 1] = e
        BY <4>2, Appended
      <4>4. Len(logs) + 1 \in DOMAIN logs' /\ logs'[Len(logs) + 1] = e
        BY <4>2, <4>3
      <4> QED BY <4>2, <4>4 DEF Announced
    <3>5. CASE Restart
      <4>1. crashes' = crashes + 1 /\ crashes \in Nat
        BY <1>1, <3>5 DEF Restart
      <4>2. crashes' > 0
        BY <4>1
      <4> QED BY <4>2 DEF Announced
    <3>6. Stays(h) \/ Step(h) \/ Restart
      BY <2>4, StaysUnless DEF AtRest
    <3> QED BY <2>4, <3>2, <3>3, <3>4, <3>5, <3>6
  <2> QED BY <2>1, <2>2, <2>3, <2>4 DEF Announced
<1> QED BY <1>2, <1>3, NewRow

LEMMA LogExplainsStep ==
  ASSUME Kinds, OnCourse, TablesHold, ResetsInTurn, IndexToCome, LogKinds, LogsInHand, MadeOnce, LogExplainsRoles, [Next]_vars
  PROVE  LogExplainsRoles'
<1> SUFFICES ASSUME ~doubled' PROVE LogExplainsRoles'
  BY DEF LogExplainsRoles
<1>1. (\A id \in DOMAIN users \ (mixed \cup unlogged) : Explained(id))
      /\ \A id \in DOMAIN users \ unlogged : users[id].born = "admin" /\ users[id].who # "root" => Announced(id)
  BY DoubledStays DEF LogExplainsRoles, Explained, Announced
<1>2. \A id \in DOMAIN users' \ (mixed' \cup unlogged') : Explained(id)'
  BY <1>1, ExplainedStep
<1>3. \A id \in DOMAIN users' \ unlogged' : users'[id].born = "admin" /\ users'[id].who # "root" => Announced(id)'
  BY <1>1, AnnouncedStep
<1> QED BY <1>2, <1>3 DEF LogExplainsRoles, Explained, Announced
-----------------------------------------------------------------------------

LEMMA Initially == Init => IInv
<1> SUFFICES ASSUME Init PROVE IInv
  OBVIOUS
<1>1. users = <<Root, User("bob", "user", "bob")>> /\ User("bob", "user", "bob") \in UserRows /\ users \in Seq(UserRows)
  <2>1. User("bob", "user", "bob") \in UserRows
    BY DEF User, UserRows, Names, Roles, People
  <2> QED BY <2>1, RootRow DEF Init
<1>2. \A t \in Tokens : sessions[t] \in SessionRows /\
        \/ sessions[t] = NoSession
        \/ t = "ta" /\ sessions[t] = [user |-> 1, who |-> "root", live |-> TRUE]
        \/ t = "tb" /\ sessions[t] = [user |-> 2, who |-> "bob", live |-> TRUE]
  BY DEF Init, SessionRows, People
<1>3. NoRow \in Rows /\ "idle" \in Places /\ "idle" \in AtRest
  BY DEF NoRow, Rows, Places, AtRest
<1>4. Kinds
  <2>1. sessions \in [Tokens -> SessionRows]
    BY <1>2 DEF Init
  <2>2. langs \in [Languages -> LanguageRows]
    BY DEF Init, LanguageRows, Default, NoLanguage
  <2> QED BY <1>1, <1>3, <2>1, <2>2 DEF Init, Kinds
<1>5. \A h \in Handlers : pc[h] = "idle"
  BY DEF Init
<1>6. OnCourse /\ LoginsBelong
  BY <1>5 DEF OnCourse, LoginsBelong, InFlight
<1>7. TokensSpent
  BY <1>2, <1>5, TokenKinds DEF TokensSpent, InFlight
<1>8. Authorised
  BY <1>5 DEF Authorised, AuthorisedAtOnce, AtWork, Authentic, InFlight
<1>9. NamesUnique
  BY <1>1 DEF Init, NamesUnique, DistinctNames, Has, Root, User
<1>10. SessionBelongs
  BY <1>1, <1>2 DEF SessionBelongs, Exists, Root, User
<1>11. DefaultsRestored
  BY DEF Init, DefaultsRestored, Languages, Default
<1>15. TablesHold /\ ResetsInTurn /\ IndexToCome
  BY <1>5 DEF Init, TablesHold, ResetsInTurn, IndexToCome, Ddl
<1>12. LogKinds /\ LogsInHand
  BY <1>5 DEF Init, LogKinds, LogsInHand, Touches
<1>13. MadeOnce
  BY <1>1, <1>5, AccountsAssumption DEF MadeOnce, Root, User
<1>14. LogExplainsRoles
  BY <1>1, <1>12 DEF Init, LogExplainsRoles, LeavesWith, Root, User
<1> QED BY <1>4, <1>6, <1>7, <1>8, <1>9, <1>10, <1>11, <1>12, <1>13, <1>14, <1>15 DEF IInv

LEMMA Inductive == IInv /\ [Next]_vars => IInv'
<1> SUFFICES ASSUME IInv, [Next]_vars PROVE IInv'
  OBVIOUS
<1>1. Kinds' /\ OnCourse'
  BY KindsStep DEF IInv
<1>2. TokensSpent' /\ Authorised'
  BY TokensStep, AuthorisedStep DEF IInv
<1>3. NamesUnique' /\ LoginsBelong' /\ SessionBelongs'
  BY NamesStep, LoginsStep, SessionsStep DEF IInv
<1>6. TablesHold' /\ ResetsInTurn' /\ IndexToCome'
  BY TablesStep, ResetsStep, IndexStep DEF IInv
<1>4. DefaultsRestored'
  BY DefaultsStep DEF IInv
<1>5. LogKinds' /\ LogsInHand' /\ MadeOnce' /\ LogExplainsRoles'
  BY LogsKind, InHandStep, MadeOnceStep, LogExplainsStep DEF IInv
<1> QED BY <1>1, <1>2, <1>3, <1>4, <1>5, <1>6 DEF IInv

\* The inductive invariant holds: for any number of requests of any kind,
\* expiries, resets and crashes.
THEOREM Invariance == Spec => []IInv
BY Initially, Inductive, PTL DEF Spec

\* A request gets to work only if in one state its session was valid and its
\* user had the role the route demands, although the two are read separately.
THEOREM RequestsAuthorised == Spec => []AuthorisedAtOnce
<1>1. IInv => AuthorisedAtOnce
  BY DEF IInv, Authorised
<1> QED BY Invariance, <1>1, PTL

\* Two registrations or renamings that found a name free do not both get it while
\* there is a unique index, and it is missing only in the middle of a reset or
\* after a crash or a failure there.
THEOREM NamesStayUnique == Spec => []NamesUnique
<1>1. IInv => NamesUnique
  BY DEF IInv
<1> QED BY Invariance, <1>1, PTL

\* A session opens the account of the person who logged in, although ids are
\* given again after a reset and whatever became of that reset, unless the login
\* overlapped it or two resets overlapped.
THEOREM SessionsBelong == Spec => []SessionBelongs
<1>1. IInv => SessionBelongs
  BY DEF IInv
<1> QED BY Invariance, <1>1, PTL

\* When a reset is over, the default language has the commands it had at the
\* start, unless a reset failed and there was no start since.  Its limits are not
\* promised.
THEOREM DefaultsComeBack == Spec => []DefaultsRestored
<1>1. IInv => DefaultsRestored
  BY DEF IInv
<1> QED BY Invariance, <1>1, PTL

\* The role change log explains every role: the entries of a user follow one
\* another from the first role to the present one, unless two requests were
\* changing it at a time, and every administrator has been announced.  It says
\* nothing of the users who outlived the log in a reset that got no further, nor
\* after two resets at a time.
THEOREM RolesExplained == Spec => []LogExplainsRoles
<1>1. IInv => LogExplainsRoles
  BY DEF IInv
<1> QED BY Invariance, <1>1, PTL
=============================================================================
