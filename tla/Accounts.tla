------------------------------- MODULE Accounts -------------------------------
(***************************************************************************)
(* Users, sessions, roles and the language registry: the handlers of       *)
(* app/routers/auth.py, users.py and languages.py with user_service.py,    *)
(* core/deps.py and core/routing.py, and the database part of a reset.     *)
(*                                                                         *)
(* A request is a sequence of statements with an await between any two of  *)
(* them; nothing is a snapshot, a commit is one step.  A protected route   *)
(* authenticates twice: AuthenticatedRoute in a database session of its    *)
(* own (pre), then the dependency of the handler (auth).  Passwords are    *)
(* only right or wrong.  who names the person behind a row: ids are used   *)
(* again after a reset.                                                    *)
(***************************************************************************)
EXTENDS Naturals, Sequences, FiniteSets

CONSTANTS
  Handlers,   \* bound: the requests made
  Ops,        \* what they may be
  NewRoles,   \* bound: the roles that change_role is asked for
  MaxCrashes, \* bound
  MaxExpired  \* bound: sessions whose time runs out

ASSUME AccountsAssumption == NewRoles \subseteq {"admin", "user", "banned"} /\ {"root", "bob", "ta", "tb"} \cap Handlers = {}

VARIABLES
  users,     \* the table users, a sequence of [name, role, born, who]
  sessions,  \* [Tokens -> a session, or none]
  logs,      \* role_change_logs: [target, old, new]
  langs,     \* [Languages -> who set its commands, and who its limits]
  gone,      \* tables that do not exist, and the unique index if it does not
  call,      \* [Handlers -> what the request asks]
  pc,
  me,        \* [Handlers -> the user row the request has loaded, with its id]
  target,    \* [Handlers -> the row change_role has loaded, or has inserted]
  todo,      \* [Handlers -> what a reset has still to drop, or to create]
  together,  \* ghost: in some state of the request its session was valid and
             \* its user had the role it needs
  mixed,     \* ghost: ids whose role two requests were changing at a time
  unlogged,  \* ghost: ids with a row whose log entries were dropped or refused
  strayed,   \* ghost: tokens of logins that overlapped a reset
  doubled,   \* ghost: two resets were dropping and creating at a time
  cut,       \* ghost: a reset has failed and there was no start since
  crashes

db == <<users, sessions, logs, langs, gone>>
local == <<call, pc, me, target, todo>>
ghosts == <<mixed, unlogged, strayed, doubled, cut>>
vars == <<db, local, together, ghosts, crashes>>

Tokens == {"ta", "tb"} \cup Handlers
Names == {"admin", "bob", "eve"}
Languages == {"python", "ada"}
Tables == {"users", "sessions", "logs", "langs"}

NoSession == [user |-> 0, who |-> "nobody", live |-> FALSE]
NoRow == [id |-> 0, name |-> "", role |-> "", who |-> "nobody"]
NoCall == [op |-> "none"]
NoLanguage == [run |-> "none", limits |-> "none"]
Default == [run |-> "system", limits |-> "system"]
User(n, r, w) == [name |-> n, role |-> r, born |-> r, who |-> w]
Root == User("admin", "admin", "root")

Exists(id) == id \in 1 .. Len(users)
Row(id) == [id |-> id, name |-> users[id].name, role |-> users[id].role, who |-> users[id].who]
Taken(n) == \E id \in DOMAIN users : users[id].name = n
Live(t) == sessions[t].live
Has(table) == table \notin gone
\* the unique index refuses a name; without it every name is accepted
Refused(n) == Has("index") /\ Taken(n)

Op(h) == call[h].op
AdminOps == {"role", "addadmin", "reset"}
Open == {"login", "logout", "register"}  \* routes without an authentication

-----------------------------------------------------------------------------
(* Requests *)

Requests ==
       [op : {"role"}, token : Tokens, id : 1 .. 3, role : NewRoles]
  \cup [op : {"rename"}, token : Tokens, name : Names]
  \cup [op : {"register"}, name : Names]
  \cup [op : {"addadmin"}, token : Tokens, name : {"eve"}]
  \cup [op : {"login"}, name : Names]
  \cup [op : {"logout", "reset"}, token : Tokens]
  \cup [op : {"language"}, token : Tokens, lang : Languages]

\* mutant: the pre-check of AuthenticatedRoute is dropped
FirstStep_Once(op) == CASE op \in {"login", "register"} -> "lookup" [] op = "logout" -> "find" [] OTHER -> "auth session"

FirstStep(op) == CASE op \in {"login", "register"} -> "lookup" [] op = "logout" -> "find" [] OTHER -> "pre session"

Begin(h) ==
  /\ pc[h] = "idle"
  /\ \E r \in Requests :
       /\ r.op \in Ops
       /\ r.op \notin {"login", "register"} => sessions[r.token] # NoSession
       /\ call' = [call EXCEPT ![h] = r]
       /\ pc' = [pc EXCEPT ![h] = FirstStep(r.op)]
  /\ UNCHANGED <<db, me, target, todo, ghosts, crashes>>

Goto(h, p) == pc' = [pc EXCEPT ![h] = p] /\ UNCHANGED <<call, todo>>
\* the request is answered, with an error as well; what it has loaded is forgotten
Answer(h) ==
  /\ pc' = [pc EXCEPT ![h] = "done"] /\ call' = [call EXCEPT ![h] = NoCall]
  /\ me' = [me EXCEPT ![h] = NoRow] /\ target' = [target EXCEPT ![h] = NoRow]
  /\ todo' = [todo EXCEPT ![h] = {}]
Same == UNCHANGED <<ghosts, crashes>>

-----------------------------------------------------------------------------
(* Authentication: get_current_user and require_admin, twice *)

AuthSession(h) ==
  /\ pc[h] \in {"pre session", "auth session"}
  /\ LET s == sessions[call[h].token] IN
     \/ /\ s.live /\ me' = [me EXCEPT ![h] = [NoRow EXCEPT !.id = s.user]]
        /\ Goto(h, IF pc[h] = "pre session" THEN "pre user" ELSE "auth user") /\ UNCHANGED target
     \/ ~s.live /\ Answer(h)
  /\ UNCHANGED db /\ Same

Entitled(op, role) == role # "banned" /\ (op \in AdminOps => role = "admin")

Work(op) == CASE op = "role" -> "load" [] op = "rename" -> "check" [] op = "addadmin" -> "lookup"
              [] op = "reset" -> "list" [] op = "language" -> "known"

AuthUser(h) ==
  /\ pc[h] \in {"pre user", "auth user"}
  /\ LET id == me[h].id IN
     IF Exists(id) /\ Entitled(Op(h), users[id].role)
     THEN /\ me' = [me EXCEPT ![h] = Row(id)] /\ UNCHANGED target
          /\ Goto(h, IF pc[h] = "pre user" THEN "auth session" ELSE Work(Op(h)))
     ELSE Answer(h)
  /\ UNCHANGED db /\ Same

-----------------------------------------------------------------------------
(* PUT /api/users/{id}/role *)

\* the requester's own row is taken from the session's identity map
LoadTarget(h) ==
  /\ pc[h] = "load"
  /\ LET id == call[h].id IN
     \/ /\ id = me[h].id \/ Exists(id)
        /\ target' = [target EXCEPT ![h] = IF id = me[h].id THEN me[h] ELSE Row(id)]
        /\ Goto(h, "commit role") /\ UNCHANGED me
     \/ id # me[h].id /\ ~Exists(id) /\ Answer(h)
  /\ UNCHANGED db /\ Same

Log(id, old, new) == logs' = Append(logs, [target |-> id, old |-> old, new |-> new])
\* the request has loaded the row, or inserted it, and will write about it
Touches(h, id) ==
  \/ pc[h] \in {"commit role", "refresh", "log"} /\ target[h].id = id
  \/ pc[h] = "load" /\ call[h].id = id /\ me[h].id = id
Mix(h) == LET id == target[h].id IN
  mixed' = IF \E g \in Handlers \ {h} : Touches(g, id) THEN mixed \cup {id} ELSE mixed

\* mutant: the old role in the log is the operator's
CommitRole_Operator(h) ==
  /\ pc[h] = "commit role" /\ Exists(target[h].id) /\ Has("logs")
  /\ users' = [users EXCEPT ![target[h].id].role = call[h].role]
  /\ Log(target[h].id, me[h].role, call[h].role)
  /\ Mix(h) /\ Answer(h)
  /\ UNCHANGED <<sessions, langs, gone, unlogged, strayed, doubled, cut, crashes>>

\* the UPDATE is written only when the role differs from the loaded one; it is
\* committed together with the log entry
CommitRole(h) ==
  /\ pc[h] = "commit role"
  /\ LET t == target[h]  r == call[h].role IN
     \/ t.role # r /\ Exists(t.id) /\ Has("logs")
        /\ users' = [users EXCEPT ![t.id].role = r] /\ Log(t.id, t.role, r)
     \/ t.role = r /\ Has("logs") /\ Log(t.id, t.role, r) /\ UNCHANGED users
     \/ (~Has("logs") \/ (t.role # r /\ ~Exists(t.id)))
        /\ UNCHANGED <<users, logs>>
  /\ Mix(h) /\ Answer(h)
  /\ UNCHANGED <<sessions, langs, gone, unlogged, strayed, doubled, cut, crashes>>

-----------------------------------------------------------------------------
(* Names: registration, new administrators, renaming.  The look-up is not   *)
(* enough; the unique index of the table refuses the second insertion.      *)

Lookup(h) ==
  /\ pc[h] = "lookup" /\ Op(h) # "login"
  /\ IF ~Has("users") \/ Taken(call[h].name) THEN Answer(h) ELSE Goto(h, "insert") /\ UNCHANGED <<me, target>>
  /\ UNCHANGED db /\ Same

\* mutant: no unique index, the look-up is trusted
Insert_Trusting(h) ==
  /\ pc[h] = "insert"
  /\ users' = Append(users, User(call[h].name, IF Op(h) = "addadmin" THEN "admin" ELSE "user", h))
  /\ target' = [target EXCEPT ![h] = [NoRow EXCEPT !.id = Len(users) + 1, !.who = h]]
  /\ Goto(h, "refresh") /\ UNCHANGED me
  /\ UNCHANGED <<sessions, logs, langs, gone>> /\ Same

\* create_user; the row gets the next id
Insert(h) ==
  /\ pc[h] = "insert"
  /\ \/ (~Has("users") \/ Refused(call[h].name)) /\ Answer(h) /\ UNCHANGED users
     \/ /\ Has("users") /\ ~Refused(call[h].name)
        /\ users' = Append(users, User(call[h].name, IF Op(h) = "addadmin" THEN "admin" ELSE "user", h))
        /\ target' = [target EXCEPT ![h] = [NoRow EXCEPT !.id = Len(users) + 1, !.who = h]]
        /\ Goto(h, "refresh") /\ UNCHANGED me
  /\ UNCHANGED <<sessions, logs, langs, gone>> /\ Same

Refresh(h) ==
  /\ pc[h] = "refresh"
  /\ IF Op(h) = "register" \/ ~Exists(target[h].id) THEN Answer(h) ELSE Goto(h, "log") /\ UNCHANGED <<me, target>>
  /\ UNCHANGED db /\ Same

\* create_admin commits its log entry separately
LogAdmin(h) ==
  /\ pc[h] = "log"
  /\ \/ Has("logs") /\ Log(target[h].id, "-", "admin") /\ UNCHANGED unlogged
     \/ ~Has("logs") /\ unlogged' = unlogged \cup {target[h].id} /\ UNCHANGED logs
  /\ Mix(h) /\ Answer(h)
  /\ UNCHANGED <<users, sessions, langs, gone, strayed, doubled, cut, crashes>>

CheckName(h) ==
  /\ pc[h] = "check"
  /\ IF call[h].name = me[h].name \/ ~Has("users") \/ \E id \in DOMAIN users : id # me[h].id /\ users[id].name = call[h].name
     THEN Answer(h) ELSE Goto(h, "rename") /\ UNCHANGED <<me, target>>
  /\ UNCHANGED db /\ Same

CommitName(h) ==
  /\ pc[h] = "rename" /\ Answer(h)
  /\ users' = IF Exists(me[h].id) /\ ~Refused(call[h].name)
              THEN [users EXCEPT ![me[h].id].name = call[h].name] ELSE users
  /\ UNCHANGED <<sessions, logs, langs, gone>> /\ Same

-----------------------------------------------------------------------------
(* Sessions *)

LoginLookup(h) ==
  /\ pc[h] = "lookup" /\ Op(h) = "login"
  /\ \/ /\ \E id \in DOMAIN users : users[id].name = call[h].name /\ me' = [me EXCEPT ![h] = Row(id)]
        /\ Goto(h, "verify") /\ UNCHANGED target
     \/ ~Taken(call[h].name) /\ Answer(h)
  /\ UNCHANGED db /\ Same

\* the password is verified in a thread; the role is the one loaded before
Verify(h) ==
  /\ pc[h] = "verify"
  /\ \/ me[h].role # "banned" /\ Goto(h, "session") /\ UNCHANGED <<me, target>>
     \/ Answer(h) \* a wrong password, or a banned user
  /\ UNCHANGED db /\ Same

NewSession(h) ==
  /\ pc[h] = "session" /\ Answer(h)
  /\ sessions' = IF Has("sessions")
                 THEN [sessions EXCEPT ![h] = [user |-> me[h].id, who |-> me[h].who, live |-> TRUE]]
                 ELSE sessions
  /\ UNCHANGED <<users, logs, langs, gone>> /\ Same

FindSession(h) ==
  /\ pc[h] = "find"
  /\ IF Live(call[h].token) THEN Goto(h, "delete") /\ UNCHANGED <<me, target>> ELSE Answer(h)
  /\ UNCHANGED db /\ Same

DeleteSession(h) ==
  /\ pc[h] = "delete" /\ Answer(h)
  /\ sessions' = [sessions EXCEPT ![call[h].token] = NoSession]
  /\ UNCHANGED <<users, logs, langs, gone>> /\ Same

Expire(t) ==
  /\ Live(t) /\ Cardinality({u \in Tokens : sessions[u] # NoSession /\ ~Live(u)}) < MaxExpired
  /\ sessions' = [sessions EXCEPT ![t].live = FALSE]
  /\ UNCHANGED <<users, logs, langs, gone, local>> /\ Same

-----------------------------------------------------------------------------
(* Languages *)

KnownLanguage(h) ==
  /\ pc[h] = "known"
  /\ IF ~Has("langs") \/ langs[call[h].lang] # NoLanguage THEN Answer(h) ELSE Goto(h, "add") /\ UNCHANGED <<me, target>>
  /\ UNCHANGED db /\ Same

AddLanguage(h) ==
  /\ pc[h] = "add" /\ Answer(h)
  /\ langs' = IF Has("langs") /\ langs[call[h].lang] = NoLanguage
              THEN [langs EXCEPT ![call[h].lang] = [run |-> h, limits |-> h]] ELSE langs
  /\ UNCHANGED <<users, sessions, logs, gone>> /\ Same

-----------------------------------------------------------------------------
(* Reset and start.  drop_all and create_all look first which tables there  *)
(* are, then issue one statement after another; SQLite commits each, and a   *)
(* statement may find the database locked.                                   *)

InFlight(h) == pc[h] \notin {"idle", "done", "lost"}
Ddl(h) == pc[h] \in {"drop", "create"}

\* the order of the metadata, backwards to drop; the index follows its table
DropRank == [logs |-> 1, sessions |-> 2, users |-> 3, langs |-> 4]
CreateRank == [langs |-> 1, users |-> 2, index |-> 3, sessions |-> 4, logs |-> 5]
Foremost(t, rank, set) == t \in set /\ \A u \in set \ {t} : rank[t] < rank[u]

ListTables(h) ==
  /\ pc[h] = "list"
  /\ pc' = [pc EXCEPT ![h] = "drop"] /\ todo' = [todo EXCEPT ![h] = Tables \ gone]
  /\ doubled' = (doubled \/ \E g \in Handlers \ {h} : Ddl(g))
  /\ UNCHANGED <<db, call, me, target, mixed, unlogged, strayed, cut, crashes>>

Without(t) == IF t = "users" THEN {"users", "index"} ELSE {t}

\* mutant: a reset forgets the table of sessions
DropTable_KeepsSessions(h) ==
  /\ pc[h] = "drop"
  /\ \E t \in Tables \ gone :
       /\ Foremost(t, DropRank, todo[h])
       /\ todo' = [todo EXCEPT ![h] = @ \ {t}]
       /\ gone' = gone \cup (Without(t) \ {"sessions"})
       /\ users' = IF t = "users" THEN <<>> ELSE users
       /\ logs' = IF t = "logs" THEN <<>> ELSE logs
       /\ langs' = IF t = "langs" THEN [l \in Languages |-> NoLanguage] ELSE langs
       /\ strayed' = IF t = "users" THEN strayed \cup {g \in Handlers : InFlight(g) /\ Op(g) = "login"} ELSE strayed
  /\ UNCHANGED <<sessions, call, pc, me, target, mixed, unlogged, doubled, cut, crashes>>

\* The log goes before the users it explains, the sessions before their users.
DropTable(h) ==
  /\ pc[h] = "drop"
  /\ \E t \in Tables \ gone :
       /\ Foremost(t, DropRank, todo[h])
       /\ todo' = [todo EXCEPT ![h] = @ \ {t}]
       /\ gone' = gone \cup Without(t)
       /\ users' = IF t = "users" THEN <<>> ELSE users
       /\ sessions' = IF t = "sessions" THEN [k \in Tokens |-> NoSession] ELSE sessions
       /\ logs' = IF t = "logs" THEN <<>> ELSE logs
       /\ langs' = IF t = "langs" THEN [l \in Languages |-> NoLanguage] ELSE langs
       /\ mixed' = IF t = "users"
                   THEN mixed \cup {id \in DOMAIN users : \E g \in Handlers : Touches(g, id)} ELSE mixed
       /\ unlogged' = CASE t = "logs" -> DOMAIN users [] t = "users" -> {} [] OTHER -> unlogged
       /\ strayed' = IF t = "users" THEN strayed \cup {g \in Handlers : InFlight(g) /\ Op(g) = "login"} ELSE strayed
  /\ UNCHANGED <<call, pc, me, target, doubled, cut, crashes>>

\* what create_all makes of what there is; an index only with its table
Missing == IF Has("users") THEN gone \ {"index"} ELSE gone

ListMissing(h) ==
  /\ pc[h] = "drop" /\ todo[h] = {}
  /\ pc' = [pc EXCEPT ![h] = "create"] /\ todo' = [todo EXCEPT ![h] = Missing]
  /\ UNCHANGED <<db, call, me, target>> /\ Same

DistinctNames == \A i, j \in DOMAIN users : users[i].name = users[j].name => i = j

CreateTable(h) ==
  /\ pc[h] = "create"
  /\ \E t \in gone :
       /\ Foremost(t, CreateRank, todo[h])
       /\ t = "index" => Has("users") /\ DistinctNames
       /\ todo' = [todo EXCEPT ![h] = @ \ {t}]
       /\ gone' = gone \ {t}
  /\ UNCHANGED <<users, sessions, logs, langs, call, pc, me, target>> /\ Same

\* the reset ends with an error and leaves what it has done
BreakOff(h) == Answer(h) /\ cut' = TRUE /\ UNCHANGED <<mixed, unlogged, strayed, doubled, crashes>>

StatementFails(h) ==
  /\ Ddl(h) /\ todo[h] # {}
  /\ BreakOff(h) /\ UNCHANGED db

\* ensure_admin looks for the name only
FindAdmin(h) ==
  /\ pc[h] = "create" /\ todo[h] = {}
  /\ \/ Has("users") /\ Goto(h, IF Taken("admin") THEN "ensure language" ELSE "add root")
        /\ UNCHANGED <<me, target>> /\ Same
     \/ ~Has("users") /\ BreakOff(h)
  /\ UNCHANGED db

\* an administrator's name registered in between fails the reset
AddRoot(h) ==
  /\ pc[h] = "add root"
  /\ \/ Has("users") /\ ~Refused("admin") /\ users' = Append(users, Root)
        /\ Goto(h, "ensure language") /\ UNCHANGED <<me, target>> /\ Same
     \/ (~Has("users") \/ Refused("admin")) /\ BreakOff(h) /\ UNCHANGED users
  /\ UNCHANGED <<sessions, logs, langs, gone>>

\* mutant: a default that exists is left as it is
FindLanguage_Keeps(h) ==
  /\ pc[h] = "ensure language" /\ Has("langs")
  /\ IF langs["python"] = NoLanguage THEN Goto(h, "add default") /\ UNCHANGED <<me, target>> ELSE Answer(h)
  /\ UNCHANGED db /\ Same

\* a row that is there is written only where its commands differ
FindLanguage(h) ==
  /\ pc[h] = "ensure language"
  /\ \/ ~Has("langs") /\ BreakOff(h)
     \/ Has("langs") /\ langs["python"].run = "system" /\ Answer(h) /\ Same
     \/ /\ Has("langs") /\ langs["python"].run # "system"
        /\ Goto(h, IF langs["python"] = NoLanguage THEN "add default" ELSE "sync default")
        /\ UNCHANGED <<me, target>> /\ Same
  /\ UNCHANGED db

\* the insertion fails on a row that came meanwhile, the update on one that went
AddDefault(h) ==
  /\ pc[h] \in {"add default", "sync default"}
  /\ LET row == langs["python"]  found == Has("langs") /\ (pc[h] = "add default" <=> row = NoLanguage) IN
     \/ /\ found /\ Answer(h) /\ Same
        /\ langs' = [langs EXCEPT !["python"] = IF row = NoLanguage THEN Default ELSE [row EXCEPT !.run = "system"]]
     \/ ~found /\ BreakOff(h) /\ UNCHANGED langs
  /\ UNCHANGED <<users, sessions, logs, gone>>

\* the next start makes what create_all finds missing, then the defaults
Restart ==
  /\ crashes < MaxCrashes /\ crashes' = crashes + 1
  /\ pc' = [h \in Handlers |-> IF InFlight(h) THEN "lost" ELSE pc[h]]
  /\ call' = [h \in Handlers |-> NoCall] /\ todo' = [h \in Handlers |-> {}]
  /\ me' = [h \in Handlers |-> NoRow] /\ target' = [h \in Handlers |-> NoRow]
  /\ gone' = gone \ Missing
  /\ users' = IF Taken("admin") THEN users ELSE Append(users, Root)
  /\ langs' = [langs EXCEPT !["python"] = IF @ = NoLanguage THEN Default ELSE [@ EXCEPT !.run = "system"]]
  /\ cut' = FALSE
  /\ UNCHANGED <<sessions, logs, mixed, unlogged, strayed, doubled>>

-----------------------------------------------------------------------------

Authentic(h) ==
  /\ InFlight(h) /\ Op(h) \notin Open
  /\ LET s == sessions[call[h].token] IN s.live /\ Exists(s.user) /\ Entitled(Op(h), users[s.user].role)

Init ==
  /\ users = <<Root, User("bob", "user", "bob")>>
  /\ sessions = [t \in Tokens |-> CASE t = "ta" -> [user |-> 1, who |-> "root", live |-> TRUE]
                                    [] t = "tb" -> [user |-> 2, who |-> "bob", live |-> TRUE]
                                    [] OTHER -> NoSession]
  /\ logs = <<>> /\ langs = [l \in Languages |-> IF l = "python" THEN Default ELSE NoLanguage]
  /\ gone = {} /\ todo = [h \in Handlers |-> {}]
  /\ call = [h \in Handlers |-> NoCall] /\ pc = [h \in Handlers |-> "idle"]
  /\ me = [h \in Handlers |-> NoRow] /\ target = [h \in Handlers |-> NoRow]
  /\ together = {} /\ mixed = {} /\ unlogged = {} /\ strayed = {}
  /\ doubled = FALSE /\ cut = FALSE /\ crashes = 0

Step(h) ==
  \/ AuthSession(h) \/ AuthUser(h) \/ LoadTarget(h) \/ CommitRole(h)
  \/ Lookup(h) \/ Insert(h) \/ Refresh(h) \/ LogAdmin(h) \/ CheckName(h) \/ CommitName(h)
  \/ LoginLookup(h) \/ Verify(h) \/ NewSession(h) \/ FindSession(h) \/ DeleteSession(h)
  \/ KnownLanguage(h) \/ AddLanguage(h)
  \/ ListTables(h) \/ DropTable(h) \/ ListMissing(h) \/ CreateTable(h) \/ StatementFails(h)
  \/ FindAdmin(h) \/ AddRoot(h) \/ FindLanguage(h) \/ AddDefault(h)

Next ==
  /\ (\E h \in Handlers : Begin(h) \/ Step(h)) \/ (\E t \in Tokens : Expire(t)) \/ Restart
  /\ together' = {h \in Handlers : InFlight(h)' /\ (h \in together \/ Authentic(h)')}

Spec == Init /\ [][Next]_vars

-----------------------------------------------------------------------------

AtWork(h) == pc[h] \in {"load", "commit role", "check", "rename", "list", "drop", "known", "add"}
             \/ (Op(h) = "addadmin" /\ pc[h] \in {"lookup", "insert"})

\* A request gets to work only if in one state since it began its session was
\* valid and the session's user had the role the route demands, although the
\* two are read in different statements: the session is never seen valid with
\* the role of a later promotion.
AuthorisedAtOnce == \A h \in Handlers : AtWork(h) => h \in together

\* Two requests that both found a name free do not both get it, as long as there
\* is a unique index; and it is missing only while a reset makes the table anew,
\* or since a crash or a failure in between: no later start makes it again.
NamesUnique ==
  /\ Has("index") => DistinctNames
  /\ Has("index") \/ crashes > 0 \/ cut \/ \E h \in Handlers : Ddl(h)

\* Entry i records a change of the role of the user with this id.
Concerns(i, id) == logs[i].target = id /\ logs[i].old # "-"

\* The entries before the k-th leave the user with this role: the one the last
\* change gave, or the first one.
LeavesWith(k, id, role) == \A i \in 0 .. k - 1 :
  (i = 0 \/ Concerns(i, id)) /\ (\A j \in i + 1 .. k - 1 : ~Concerns(j, id))
    => role = IF i = 0 THEN users[id].born ELSE logs[i].new

\* The role change log explains every role: its entries for a user follow one
\* another from the first role to the present one, unless two requests were
\* changing the role at the same time; and every administrator who was not
\* there from the start has its entry, unless the process died between the two
\* commits of create_admin.  Not so for users who kept their row when a reset had
\* dropped the log and got no further, nor when two resets overlapped.
LogExplainsRoles == doubled \/
  /\ \A id \in DOMAIN users \ (mixed \cup unlogged) :
       /\ \A k \in DOMAIN logs : Concerns(k, id) => LeavesWith(k, id, logs[k].old)
       /\ LeavesWith(Len(logs) + 1, id, users[id].role)
  /\ \A id \in DOMAIN users \ unlogged :
       users[id].born = "admin" /\ users[id].who # "root" =>
         \/ \E i \in DOMAIN logs : logs[i].target = id /\ logs[i].old = "-"
         \/ \E h \in Handlers : pc[h] \in {"refresh", "log"} /\ target[h].who = users[id].who
         \/ crashes > 0

\* A session opens the account of the person who logged in, also when ids are
\* used again after a reset and whatever becomes of that reset, unless the login
\* overlapped it or two resets overlapped.
SessionBelongs == doubled \/ \A t \in Tokens \ strayed :
  sessions[t] # NoSession => Exists(sessions[t].user) /\ users[sessions[t].user].who = sessions[t].who

\* Once a reset is over the default language has its own commands again, also
\* when a user registered the name between the deletion of the tables and
\* ensure_languages, unless a reset failed since the last start.  The limits such
\* a user gave it stay.
DefaultsRestored ==
  \/ cut \/ langs["python"].run = "system"
  \/ \E h \in Handlers : Ddl(h) \/ pc[h] \in {"add root", "ensure language", "add default", "sync default"}
=============================================================================
