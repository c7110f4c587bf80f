----------------------------- MODULE AccountsProofs -----------------------------
(***************************************************************************)
(* Accounts and the second factor, for any numbers of users, tokens,       *)
(* handlers, requests and restarts, and any batch of recovery codes.       *)
(*                                                                         *)
(* The first half is about Accounts: its types, and, each with an          *)
(* invariant of its own, that sessions end with what they were issued      *)
(* for, that a reset token sets one password, and that a superadmin stays. *)
(* The second half is about SecondFactor: that a recovery code and a time  *)
(* step are accepted once, and that what is on has been proven.            *)
(***************************************************************************)
EXTENDS Accounts, SecondFactor, FiniteSetTheorems, TLAPS

-----------------------------------------------------------------------------
(* Types.                                                                  *)

Tasks == [user : Users \cup {NoUser}, role : Roles, version : Nat, password : Nat,
          suspensions : Nat, second : BOOLEAN, token : Tokens \cup {NoToken}, off : BOOLEAN]

UserTypes ==
  /\ account \in [Users -> {"none", "there", "gone"}] /\ role \in [Users -> Roles]
  /\ disabled \in [Users -> BOOLEAN] /\ twoStep \in [Users -> BOOLEAN]
  /\ lastPassword \in Nat /\ password \in [Users -> 0 .. lastPassword]
  /\ version \in [Users -> Nat] /\ suspensions \in [Users -> Nat]

Known(u) == u \in Users /\ account[u] # "none"

TokenTypes ==
  /\ resets \in [Tokens -> Users \cup {NoUser}] /\ expired \subseteq Tokens
  /\ used \in [Tokens -> Nat]
  /\ \A t \in Tokens : resets[t] # NoUser => Known(resets[t])

SessionTypes ==
  /\ \A s \in sessions : Known(s.user) /\ s.version \in Nat /\ s.version <= version[s.user]
  /\ \A f \in firsts : Known(f.user) /\ f.password \in Nat /\ f.password <= lastPassword

\* What a handler at a stage may have read.
Within(j) == j.user \in Users /\ j.version <= version[j.user] /\ j.password <= lastPassword

Fits(step, j) ==
  /\ step # "idle" => Within(j)
  /\ step \notin {"idle", "set up", "create", "status"} => account[j.user] # "none"

HandlerTypes ==
  /\ stage \in [Handlers -> Stages] /\ task \in [Handlers -> Tasks]
  /\ \A c \in Handlers : Fits(stage[c], task[c])

Bounded == asked \in 0 .. MaxAsked /\ restarts \in 0 .. MaxRestarts

AccountsTypes == UserTypes /\ TokenTypes /\ SessionTypes /\ HandlerTypes /\ Bounded

-----------------------------------------------------------------------------
\* A reading of a user's row that is of the present version is of the present
\* suspension and, but for a second step, of the present password.
Current(r) ==
  r.version = version[r.user] /\ ~VersionDue(r.user) =>
    r.suspensions = suspensions[r.user] /\ (r.second \/ r.password = password[r.user])

\* The readings: of the sessions, of the handlers that may issue one, and of those
\* that set up a user, for whom all is zero.
Blank(u) == version[u] = 0 /\ suspensions[u] = 0 /\ password[u] = 0

ReadingInv ==
  /\ \A s \in sessions : Current(s)
  /\ \A c \in Handlers : stage[c] \in {"login", "code", "issue"} => Current(task[c])
  /\ \A c \in Handlers : stage[c] = "set up" =>
       task[c].version = 0 /\ task[c].suspensions = 0 /\ task[c].password = 0
  /\ \A u \in Users : account[u] = "none" => Blank(u)

\* Only a reset has a token, which it finds, burns and uses in this order; whoever
\* has one that is not disputed has it alone.
Held ==
  \A c \in Handlers : task[c].token # NoToken =>
    stage[c] \in {"drop token", "burn token", "set password", "bump"}

OnlyOnce(t) ==
  /\ used[t] <= 1
  /\ used[t] # 0 => resets[t] = NoUser
  /\ \A c, o \in Handlers : task[c].token = t /\ task[o].token = t => c = o
  /\ \A c \in Handlers : task[c].token = t =>
       /\ stage[c] \in {"burn token", "set password"} => used[t] = 0
       /\ stage[c] = "set password" => resets[t] = NoUser

TokenInv == Held /\ \A t \in Tokens \ disputed : OnlyOnce(t)

\* A deletion knows the role of whom it deletes, for roles stay; and while no two
\* superadmins go at once, there is another for whoever is past the count.
RolesKnown ==
  \A c \in Handlers :
    /\ stage[c] = "set up" => task[c].role = "superadmin"
    /\ stage[c] \in {"count", "owned", "delete"} => role[task[c].user] = task[c].role

OneStays ==
  /\ (\E u \in Users : There(u)) \/ (\E c \in Handlers : stage[c] = "create") => Admins # {}
  /\ \A c \in Handlers :
       stage[c] \in {"owned", "delete"} /\ task[c].role = "superadmin"
         => \E a \in Admins : a # task[c].user

AdminInv == RolesKnown /\ (~outcounted => OneStays)

-----------------------------------------------------------------------------
(* How handlers move.                                                      *)

\* What is taken up: of a user in the row of whom it was read.
AskedFor(step, j) ==
  /\ step \in Stages \ {"idle", "issue", "bump", "delete"} /\ j \in Tasks /\ Fits(step, j)
  /\ step \in {"login", "code"} =>
       /\ j.suspensions = suspensions[j.user]
       /\ j.second \/ j.password = password[j.user]
  /\ step = "set up" => j.version = 0 /\ j.suspensions = 0 /\ j.password = 0
  /\ step = "set up" => j.role = "superadmin"
  /\ step = "create" => Admins # {}
  /\ step \in {"count", "owned", "delete"} => role[j.user] = j.role
  /\ step = "owned" => j.role # "superadmin"

AskedWith(c, step, j) ==
  \/ j.token = NoToken /\ disputed' = disputed
  \/ \E t \in Tokens :
       /\ j.token = t /\ resets[t] # NoUser /\ step \in {"drop token", "burn token"}
       /\ disputed' = IF \E o \in Handlers \ {c} : task[o].token = t /\ stage[o] # "keep token"
                        THEN disputed \cup {t} ELSE disputed

LEMMA Reads ==
  ASSUME AccountsTypes, NEW u \in Users, account[u] # "none"
  PROVE  /\ Read(u) \in Tasks /\ Read(u).user = u /\ Read(u).role = role[u]
         /\ Read(u).version = version[u] /\ Read(u).password = password[u]
         /\ Read(u).suspensions = suspensions[u] /\ Read(u).token = NoToken
         /\ Within(Read(u))
<1>1. /\ Read(u).user = u /\ Read(u).role = role[u]
      /\ Read(u).version = version[u] /\ Read(u).password = password[u]
      /\ Read(u).suspensions = suspensions[u] /\ Read(u).token = NoToken
  BY DEF Read, NoTask
<1>2. /\ role[u] \in Roles /\ version[u] \in Nat /\ suspensions[u] \in Nat
      /\ password[u] \in 0 .. lastPassword /\ lastPassword \in Nat
  BY DEF AccountsTypes, UserTypes
<1>3. Read(u) \in Tasks
  BY <1>2 DEF Read, Tasks
<1> QED
  BY <1>1, <1>2, <1>3 DEF Within

LEMMA NoTaskType == NoTask \in Tasks /\ NoTask.token = NoToken
  BY DEF NoTask, Tasks, Roles

LEMMA ZeroWithin ==
  ASSUME AccountsTypes, NEW j, j.user \in Users, j.version = 0, j.password = 0
  PROVE  Within(j)
<1>1. version[j.user] \in Nat /\ lastPassword \in Nat
  BY DEF AccountsTypes, UserTypes
<1> QED
  BY <1>1 DEF Within

LEMMA Asks ==
  ASSUME AccountsTypes, NEW c \in Handlers, AskAccounts(c)
  PROVE  \E step, j : /\ Take(c, step, j) /\ AskedFor(step, j) /\ AskedWith(c, step, j)
                      /\ UNCHANGED <<suspensions, used, unraised, outcounted>>
<1>1. ASSUME NEW u \in Users, AskFirstUser(c, u), UNCHANGED observed
      PROVE  \E step, j : /\ Take(c, step, j) /\ AskedFor(step, j) /\ AskedWith(c, step, j)
                          /\ UNCHANGED <<suspensions, used, unraised, outcounted>>
  <2> DEFINE j == [NoTask EXCEPT !.user = u, !.role = "superadmin"]
  <2>1. /\ j \in Tasks /\ j.user = u /\ j.role = "superadmin" /\ j.token = NoToken
        /\ j.version = 0 /\ j.suspensions = 0 /\ j.password = 0 /\ Within(j)
    BY ZeroWithin DEF NoTask, Tasks, Roles
  <2>2. Take(c, "set up", j)
    BY <1>1 DEF AskFirstUser
  <2> HIDE DEF j
  <2>3. AskedFor("set up", j) /\ AskedWith(c, "set up", j)
    BY <1>1, <2>1 DEF AskedFor, AskedWith, Stages, Fits, observed
  <2> QED
    BY <1>1, <2>2, <2>3 DEF observed
<1>2. ASSUME NEW u \in Users, AskLogin(c, u) \/ AskChangePassword(c, u) \/ AskForgot(c, u),
             UNCHANGED observed
      PROVE  \E step, j : /\ Take(c, step, j) /\ AskedFor(step, j) /\ AskedWith(c, step, j)
                          /\ UNCHANGED <<suspensions, used, unraised, outcounted>>
  <2>1. PICK step \in {"login", "set password", "keep token"} : Take(c, step, Read(u))
    BY <1>2 DEF AskLogin, AskChangePassword, AskForgot
  <2>2. account[u] # "none"
    BY <1>2 DEF AskLogin, AskChangePassword, AskForgot, Active, There
  <2>3. AskedFor(step, Read(u))
    BY <2>1, <2>2, Reads DEF AskedFor, Stages, Fits
  <2> QED
    BY <1>2, <2>1, <2>2, <2>3, Reads DEF observed, AskedWith
<1>3. ASSUME NEW u \in Users, NEW r \in Roles, AskCreate(c, u, r), UNCHANGED observed
      PROVE  \E step, j : /\ Take(c, step, j) /\ AskedFor(step, j) /\ AskedWith(c, step, j)
                          /\ UNCHANGED <<suspensions, used, unraised, outcounted>>
  <2> DEFINE j == [NoTask EXCEPT !.user = u, !.role = r]
  <2>1. j \in Tasks /\ j.user = u /\ j.token = NoToken /\ Within(j)
    BY ZeroWithin DEF NoTask, Tasks, Roles
  <2>2. Take(c, "create", j) /\ Admins # {}
    BY <1>3 DEF AskCreate, AskedByAdmin
  <2> HIDE DEF j
  <2>3. AskedFor("create", j) /\ AskedWith(c, "create", j)
    BY <1>3, <2>1, <2>2 DEF AskedFor, AskedWith, Stages, Fits, observed
  <2> QED
    BY <1>3, <2>2, <2>3 DEF observed
<1>4. ASSUME NEW f \in firsts, AskSecondStep(c, f), UNCHANGED observed
      PROVE  \E step, j : /\ Take(c, step, j) /\ AskedFor(step, j) /\ AskedWith(c, step, j)
                          /\ UNCHANGED <<suspensions, used, unraised, outcounted>>
  <2> DEFINE j == [Read(f.user) EXCEPT !.password = f.password, !.second = TRUE]
  <2>1. Known(f.user) /\ f.password \in Nat /\ f.password <= lastPassword
    BY DEF AccountsTypes, SessionTypes
  <2>2. /\ j \in Tasks /\ j.user = f.user /\ j.token = NoToken /\ j.second
        /\ j.version = version[f.user] /\ j.suspensions = suspensions[f.user]
        /\ j.password = f.password
    BY <2>1 DEF Read, NoTask, Tasks, Roles, Known, AccountsTypes, UserTypes
  <2>3. Take(c, "code", j)
    BY <1>4 DEF AskSecondStep
  <2> HIDE DEF j
  <2>4. version[f.user] \in Nat
    BY <2>1 DEF Known, AccountsTypes, UserTypes
  <2>5. Within(j) /\ account[j.user] # "none"
    BY <2>1, <2>2, <2>4 DEF Within, Known
  <2>6. AskedFor("code", j) /\ AskedWith(c, "code", j)
    BY <1>4, <2>2, <2>5 DEF AskedFor, AskedWith, Fits, Stages, observed
  <2> QED
    BY <1>4, <2>3, <2>6 DEF observed
<1>5. ASSUME NEW u \in Users, NEW off \in BOOLEAN, AskStatus(c, u, off), UNCHANGED observed
      PROVE  \E step, j : /\ Take(c, step, j) /\ AskedFor(step, j) /\ AskedWith(c, step, j)
                          /\ UNCHANGED <<suspensions, used, unraised, outcounted>>
  <2> DEFINE j == [NoTask EXCEPT !.user = u, !.off = off]
  <2>1. j \in Tasks /\ j.user = u /\ j.token = NoToken /\ Within(j)
    BY ZeroWithin DEF NoTask, Tasks, Roles
  <2>2. Take(c, "status", j)
    BY <1>5 DEF AskStatus
  <2> HIDE DEF j
  <2>3. AskedFor("status", j) /\ AskedWith(c, "status", j)
    BY <1>5, <2>1 DEF AskedFor, AskedWith, Stages, Fits, observed
  <2> QED
    BY <1>5, <2>2, <2>3 DEF observed
<1>6. ASSUME NEW a \in Users, NEW u \in Users, AskDelete(c, a, u), UNCHANGED observed
      PROVE  \E step, j : /\ Take(c, step, j) /\ AskedFor(step, j) /\ AskedWith(c, step, j)
                          /\ UNCHANGED <<suspensions, used, unraised, outcounted>>
  <2>1. PICK step : /\ Take(c, step, Read(u))
                    /\ step = IF role[u] = "superadmin" THEN "count" ELSE "owned"
    BY <1>6 DEF AskDelete
  <2>2. account[u] # "none"
    BY <1>6 DEF AskDelete, There
  <2>3. step \in {"count", "owned"} /\ (step = "owned" => role[u] # "superadmin")
    BY <2>1
  <2>4. AskedFor(step, Read(u))
    BY <2>2, <2>3, Reads DEF AskedFor, Stages, Fits
  <2> QED
    BY <1>6, <2>1, <2>2, <2>4, Reads DEF observed, AskedWith
<1>7. ASSUME NEW t \in Tokens, AskReset(c, t),
             disputed' = IF \E o \in Handlers \ {c} : task[o].token = t /\ stage[o] # "keep token"
                           THEN disputed \cup {t} ELSE disputed,
             UNCHANGED <<suspensions, used, unraised, outcounted>>
      PROVE  \E step, j : /\ Take(c, step, j) /\ AskedFor(step, j) /\ AskedWith(c, step, j)
                          /\ UNCHANGED <<suspensions, used, unraised, outcounted>>
  <2> DEFINE j == [NoTask EXCEPT !.user = resets[t], !.token = t]
  <2>1. resets[t] # NoUser /\ Known(resets[t])
    BY <1>7 DEF AskReset, AccountsTypes, TokenTypes
  <2>2. /\ j \in Tasks /\ j.user = resets[t] /\ j.token = t /\ j.version = 0 /\ j.password = 0
    BY <2>1 DEF NoTask, Tasks, Roles, Known
  <2>4. Within(j)
    BY <2>1, <2>2, ZeroWithin DEF Known
  <2>5. PICK step \in {"drop token", "burn token"} : Take(c, step, j)
    BY <1>7 DEF AskReset
  <2> HIDE DEF j
  <2>6. AskedFor(step, j)
    BY <2>1, <2>2, <2>4, <2>5 DEF AskedFor, Stages, Fits, Known
  <2>7. AskedWith(c, step, j)
    BY <1>7, <2>1, <2>2, <2>5 DEF AskedWith
  <2> QED
    BY <1>7, <2>5, <2>6, <2>7
<1> QED
  BY <1>1, <1>2, <1>3, <1>4, <1>5, <1>6, <1>7 DEF AskAccounts, Admins

\* One handler moves, to a stage and a task.
MovesTo(c, step, j) ==
  /\ stage' = [stage EXCEPT ![c] = step]
  /\ task' = [task EXCEPT ![c] = j]

LEMMA MoveFacts ==
  ASSUME HandlerTypes, NEW c \in Handlers, NEW step \in Stages, NEW j \in Tasks,
         MovesTo(c, step, j)
  PROVE  /\ stage' \in [Handlers -> Stages] /\ task' \in [Handlers -> Tasks]
         /\ stage'[c] = step /\ task'[c] = j
         /\ \A o \in Handlers : o # c => stage'[o] = stage[o] /\ task'[o] = task[o]
  BY DEF HandlerTypes, MovesTo

LEMMA StepMoves ==
  ASSUME HandlerTypes, NEW c \in Handlers
  PROVE  /\ \A step, j : Take(c, step, j) => MovesTo(c, step, j)
         /\ \A step : Proceed(c, step) => MovesTo(c, step, task[c])
         /\ Finishes(c) => MovesTo(c, "idle", NoTask)
  BY DEF HandlerTypes, MovesTo, Take, Proceed, Finishes

\* A handler's step ends its work, or takes it on with its task.
Onward(c, step, j) ==
  \/ step = "idle" /\ j = NoTask
  \/ /\ j = task[c]
     /\ \/ stage[c] = "set up" /\ account[task[c].user] = "none" /\ step = "issue"
        \/ stage[c] = "count" /\ ~LastSuperadmin /\ step = "owned"
        \/ stage[c] = "owned" /\ step = "delete"
        \/ stage[c] = "burn token" /\ step = "set password"
        \/ stage[c] \in {"set password", "status"} /\ step = "bump"

LEMMA StepShape ==
  ASSUME HandlerTypes, NEW c \in Handlers, HandlerStep(c)
  PROVE  /\ stage[c] # "idle"
         /\ \E step \in Stages, j \in Tasks : MovesTo(c, step, j) /\ Onward(c, step, j)
<1>1. /\ stage[c] # "idle"
      /\ \/ MovesTo(c, "idle", NoTask)
         \/ stage[c] = "set up" /\ account[task[c].user] = "none" /\ MovesTo(c, "issue", task[c])
         \/ stage[c] = "count" /\ ~LastSuperadmin /\ MovesTo(c, "owned", task[c])
         \/ stage[c] = "owned" /\ MovesTo(c, "delete", task[c])
         \/ stage[c] = "burn token" /\ MovesTo(c, "set password", task[c])
         \/ stage[c] \in {"set password", "status"} /\ MovesTo(c, "bump", task[c])
  BY StepMoves DEF HandlerStep, CreateUser, InsertUser, DeleteUser, Login, SecondStep,
     SetupIssues, KeepToken, DropToken, BurnToken, SetPassword, SetStatus, RaiseVersion
<1>2. task[c] \in Tasks
  BY DEF HandlerTypes
<1> QED
  BY <1>1, <1>2, NoTaskType DEF Onward, Stages

-----------------------------------------------------------------------------
(* Type correctness.                                                       *)

LEMMA Updated ==
  ASSUME NEW S, NEW T, NEW f \in [S -> T], NEW x \in S, NEW e \in T
  PROVE  [f EXCEPT ![x] = e] \in [S -> T]
  OBVIOUS

\* Rows stay once inserted; versions and passwords go up.
Grows ==
  /\ \A u \in Users : (account[u] # "none" => account'[u] # "none") /\ version'[u] >= version[u]
  /\ lastPassword' >= lastPassword

LEMMA FitsKept ==
  ASSUME UserTypes, UserTypes', Grows, NEW step, NEW j \in Tasks, Fits(step, j), step # "idle"
  PROVE  Fits(step, j)'
<1>1. /\ version[j.user] \in Nat /\ version'[j.user] \in Nat /\ j.version \in Nat
      /\ lastPassword \in Nat /\ lastPassword' \in Nat /\ j.password \in Nat
      /\ version'[j.user] >= version[j.user] /\ lastPassword' >= lastPassword
  BY DEF UserTypes, Grows, Tasks, Fits, Within
<1>2. j.user \in Users /\ j.version <= version[j.user] /\ j.password <= lastPassword
  BY DEF Fits, Within
<1>3. j.version <= version'[j.user] /\ j.password <= lastPassword'
  <2> HIDE DEF Grows, Fits
  <2> QED
    BY <1>1, <1>2
<1> QED
  BY <1>2, <1>3 DEF Fits, Within, Grows

LEMMA HandlersKept ==
  ASSUME UserTypes, UserTypes', Grows, HandlerTypes,
         NEW c \in Handlers, NEW step \in Stages, NEW j \in Tasks,
         MovesTo(c, step, j), Fits(step, j)'
  PROVE  HandlerTypes'
<1>1. ASSUME NEW o \in Handlers PROVE Fits(stage[o], task[o])'
  <2>1. CASE o = c
    <3>1. step = stage'[o] /\ j = task'[o]
      BY <2>1, MoveFacts
    <3> QED
      BY <3>1 DEF Fits, Within
  <2>2. CASE o # c
    <3>1. PICK s \in Stages, k \in Tasks : s = stage[o] /\ k = task[o]
      BY DEF HandlerTypes
    <3>2. Fits(s, k)'
      <4>1. CASE s = "idle"
        BY <4>1 DEF Fits
      <4>2. CASE s # "idle"
        BY <3>1, <4>2, FitsKept DEF HandlerTypes
      <4> QED
        BY <4>1, <4>2
    <3>3. s = stage'[o] /\ k = task'[o]
      BY <2>2, <3>1, MoveFacts
    <3> QED
      BY <3>2, <3>3 DEF Fits, Within
  <2> QED
    BY <2>1, <2>2
<1> QED
  BY <1>1, MoveFacts DEF HandlerTypes

LEMMA SessionsKept ==
  ASSUME UserTypes, UserTypes', Grows, SessionTypes, UNCHANGED issued
  PROVE  SessionTypes'
<1>1. ASSUME NEW s \in sessions
      PROVE  Known(s.user)' /\ s.version \in Nat /\ s.version <= version'[s.user]
  <2>1. /\ version[s.user] \in Nat /\ version'[s.user] \in Nat /\ s.version \in Nat
        /\ version'[s.user] >= version[s.user] /\ s.version <= version[s.user]
    BY DEF UserTypes, Grows, SessionTypes, Known
  <2> QED
    BY <2>1 DEF SessionTypes, Known, Grows
<1>2. ASSUME NEW f \in firsts
      PROVE  Known(f.user)' /\ f.password \in Nat /\ f.password <= lastPassword'
  <2>1. /\ lastPassword \in Nat /\ lastPassword' \in Nat /\ f.password \in Nat
        /\ lastPassword' >= lastPassword /\ f.password <= lastPassword
    BY DEF UserTypes, Grows, SessionTypes
  <2> QED
    BY <2>1 DEF SessionTypes, Known, Grows
<1> QED
  BY <1>1, <1>2 DEF SessionTypes, issued

LEMMA TokensKept ==
  ASSUME Grows, TokenTypes, UNCHANGED <<resetTable, used>>
  PROVE  TokenTypes'
  BY DEF Grows, TokenTypes, resetTable, Known

LEMMA StillGrows ==
  ASSUME UserTypes, UNCHANGED <<account, version, lastPassword>>
  PROVE  Grows
  BY DEF UserTypes, Grows

LEMMA UsersKept ==
  ASSUME UserTypes, UNCHANGED <<userTable, suspensions>>
  PROVE  UserTypes' /\ Grows
  BY StillGrows DEF UserTypes, userTable

\* A step that goes on with its task or ends it, for a user who is known by then.
LEMMA StepFits ==
  ASSUME AccountsTypes, UserTypes', Grows, NEW c \in Handlers, HandlerStep(c),
         stage[c] \in {"set up", "status"} => \/ stage'[c] = "idle"
                                              \/ account'[task[c].user] # "none"
  PROVE  HandlerTypes'
<1> PICK step \in Stages, j \in Tasks : MovesTo(c, step, j) /\ Onward(c, step, j)
  BY StepShape DEF AccountsTypes
<1>1. stage'[c] = step
  BY MoveFacts DEF AccountsTypes
<1>2. CASE step = "idle"
  <2>1. Fits(step, j)'
    BY <1>2 DEF Fits
  <2> QED
    BY <2>1, HandlersKept DEF AccountsTypes
<1>3. CASE step # "idle"
  <2>1. j = task[c] /\ step \in {"issue", "owned", "delete", "set password", "bump"}
          /\ stage[c] \notin {"idle", "create"}
    BY <1>3 DEF Onward
  <2>2. PICK s \in Stages : s = stage[c]
    BY <2>1 DEF AccountsTypes, HandlerTypes
  <2>3. Fits(s, j)'
    BY <2>1, <2>2, FitsKept DEF AccountsTypes, HandlerTypes
  <2>4. account'[j.user] # "none"
    BY <1>1, <1>3, <2>1, <2>2, <2>3 DEF Fits
  <2>5. Fits(step, j)'
    BY <2>1, <2>2, <2>3, <2>4 DEF Fits
  <2> QED
    BY <2>5, HandlersKept DEF AccountsTypes
<1> QED
  BY <1>2, <1>3

LEMMA CreateTypes ==
  ASSUME AccountsTypes, NEW c \in Handlers, CreateUser(c)
  PROVE  UserTypes' /\ Grows /\ SessionTypes' /\ TokenTypes' /\ HandlerTypes'
<1> DEFINE u == task[c].user
<1>1. UserTypes' /\ Grows
  <2>1. CASE UNCHANGED userTable
    BY <2>1, UsersKept DEF AccountsTypes, CreateUser, observed
  <2>2. CASE /\ account' = [account EXCEPT ![u] = "there"]
             /\ role' = [role EXCEPT ![u] = task[c].role]
             /\ UNCHANGED <<disabled, password, version, twoStep, lastPassword>>
    <3>1. suspensions' = suspensions /\ task[c].role \in Roles
      BY DEF CreateUser, observed, AccountsTypes, HandlerTypes, Tasks
    <3>2. UserTypes'
      BY <2>2, <3>1 DEF AccountsTypes, UserTypes
    <3>3. \A v \in Users : account[v] # "none" => account'[v] # "none"
      BY <2>2 DEF AccountsTypes, UserTypes
    <3>4. lastPassword' >= lastPassword /\ \A v \in Users : version'[v] >= version[v]
      <4>1. lastPassword \in Nat /\ version \in [Users -> Nat]
        BY DEF AccountsTypes, UserTypes
      <4>2. lastPassword' = lastPassword /\ version' = version
        BY <2>2
      <4> QED
        BY <4>1, <4>2
    <3> QED
      BY <3>2, <3>3, <3>4 DEF Grows
  <2> QED
    BY <2>1, <2>2 DEF CreateUser, InsertUser
<1>2. stage[c] \in {"set up", "status"} => stage'[c] = "idle" \/ account'[u] # "none"
  <2>1. u \in Users \/ stage[c] # "set up"
    BY DEF AccountsTypes, HandlerTypes, Fits, Within
  <2> QED
    BY <2>1 DEF CreateUser, InsertUser, Finishes, Proceed, AccountsTypes, HandlerTypes, UserTypes
<1>3. HandlerTypes'
  BY <1>1, <1>2, StepFits DEF HandlerStep
<1>4. SessionTypes' /\ TokenTypes'
  BY <1>1, SessionsKept, TokensKept DEF AccountsTypes, CreateUser, observed
<1> QED
  BY <1>1, <1>3, <1>4

LEMMA DeleteTypes ==
  ASSUME AccountsTypes, NEW c \in Handlers, DeleteUser(c)
  PROVE  UserTypes' /\ Grows /\ SessionTypes' /\ TokenTypes' /\ HandlerTypes'
<1> DEFINE u == task[c].user
<1>1. UserTypes' /\ Grows
  <2>1. CASE UNCHANGED <<userTable, suspensions>>
    BY <2>1, UsersKept DEF AccountsTypes
  <2>2. CASE /\ account' = [account EXCEPT ![u] = "gone"]
             /\ UNCHANGED <<role, disabled, password, version, twoStep, lastPassword>>
             /\ suspensions' = suspensions
    <3>1. UserTypes'
      BY <2>2 DEF AccountsTypes, UserTypes
    <3>2. \A v \in Users : account[v] # "none" => account'[v] # "none"
      BY <2>2 DEF AccountsTypes, UserTypes
    <3>3. lastPassword' >= lastPassword /\ \A v \in Users : version'[v] >= version[v]
      <4>1. lastPassword \in Nat /\ version \in [Users -> Nat]
        BY DEF AccountsTypes, UserTypes
      <4>2. lastPassword' = lastPassword /\ version' = version
        BY <2>2
      <4> QED
        BY <4>1, <4>2
    <3> QED
      BY <3>1, <3>2, <3>3 DEF Grows
  <2> QED
    BY <2>1, <2>2 DEF DeleteUser, observed
<1>2. HandlerTypes'
  BY <1>1, StepFits DEF HandlerStep, DeleteUser
<1>3. SessionTypes' /\ TokenTypes'
  BY <1>1, SessionsKept, TokensKept DEF AccountsTypes, DeleteUser, observed
<1> QED
  BY <1>1, <1>2, <1>3

LEMMA IssueTypes ==
  ASSUME AccountsTypes, NEW c \in Handlers, Login(c) \/ SecondStep(c) \/ SetupIssues(c)
  PROVE  UserTypes' /\ Grows /\ SessionTypes' /\ TokenTypes' /\ HandlerTypes'
<1>1. UserTypes' /\ Grows
  BY UsersKept DEF AccountsTypes, Login, SecondStep, SetupIssues, observed
<1>2. HandlerTypes'
  BY <1>1, StepFits DEF HandlerStep, Login, SecondStep, SetupIssues
<1>3. TokenTypes'
  BY <1>1, TokensKept DEF AccountsTypes, Login, SecondStep, SetupIssues, observed
<1>4. SessionTypes'
  <2> PICK j \in Tasks : j = task[c]
    BY DEF AccountsTypes, HandlerTypes
  <2>1. Within(j) /\ account[j.user] # "none"
    BY DEF AccountsTypes, HandlerTypes, Fits, Login, SecondStep, SetupIssues
  <2>2. \/ UNCHANGED issued
        \/ sessions' = sessions \cup {Session(j)} /\ firsts' = firsts
        \/ /\ sessions' = sessions
           /\ firsts' = firsts \cup {[user |-> j.user, password |-> j.password]}
    BY DEF Login, SecondStep, SetupIssues, Issue
  <2>3. j.version \in Nat /\ j.password \in Nat
    BY DEF Tasks
  <2>4. UNCHANGED <<account, version, lastPassword>>
    BY DEF Login, SecondStep, SetupIssues, userTable
  <2>5. CASE UNCHANGED issued
    BY <1>1, <2>5, SessionsKept DEF AccountsTypes
  <2>6. CASE sessions' = sessions \cup {Session(j)} /\ firsts' = firsts
    <3>1. /\ Session(j).user = j.user /\ Session(j).version = j.version
      BY DEF Session
    <3> QED
      BY <2>1, <2>3, <2>4, <2>6, <3>1 DEF AccountsTypes, SessionTypes, Within, Known
  <2>7. CASE /\ sessions' = sessions
             /\ firsts' = firsts \cup {[user |-> j.user, password |-> j.password]}
    BY <2>1, <2>3, <2>4, <2>7 DEF AccountsTypes, SessionTypes, Within, Known
  <2> QED
    BY <2>2, <2>5, <2>6, <2>7
<1> QED
  BY <1>1, <1>2, <1>3, <1>4

LEMMA TokenStepTypes ==
  ASSUME AccountsTypes, NEW c \in Handlers, KeepToken(c) \/ DropToken(c) \/ BurnToken(c)
  PROVE  UserTypes' /\ Grows /\ SessionTypes' /\ TokenTypes' /\ HandlerTypes'
<1>1. UserTypes' /\ Grows
  BY UsersKept DEF AccountsTypes, KeepToken, DropToken, BurnToken, observed
<1>2. HandlerTypes'
  BY <1>1, StepFits DEF HandlerStep, KeepToken, DropToken, BurnToken
<1>3. SessionTypes'
  BY <1>1, SessionsKept DEF AccountsTypes, KeepToken, DropToken, BurnToken
<1>4. TokenTypes'
  <2> DEFINE u == task[c].user
  <2>1. expired' = expired /\ used' = used /\ account' = account
    BY DEF KeepToken, DropToken, BurnToken, observed, userTable
  <2>2. stage[c] = "keep token" => Known(u)
    BY DEF AccountsTypes, HandlerTypes, Fits, Within, Known
  <2>3. CASE stage[c] = "keep token"
    <3>1. PICK t \in Tokens : resets' = [resets EXCEPT ![t] = u]
      BY <2>3 DEF KeepToken, DropToken, BurnToken
    <3> QED
      BY <2>1, <2>2, <2>3, <3>1 DEF AccountsTypes, TokenTypes, Known
  <2>4. CASE stage[c] # "keep token"
    <3>1. resets' = resets \/ resets' = [resets EXCEPT ![task[c].token] = NoUser]
      BY <2>4 DEF KeepToken, DropToken, BurnToken
    <3> QED
      BY <2>1, <3>1 DEF AccountsTypes, TokenTypes, Known
  <2> QED
    BY <2>3, <2>4
<1> QED
  BY <1>1, <1>2, <1>3, <1>4

LEMMA SetPasswordTypes ==
  ASSUME AccountsTypes, NEW c \in Handlers, SetPassword(c)
  PROVE  UserTypes' /\ Grows /\ SessionTypes' /\ TokenTypes' /\ HandlerTypes'
<1> DEFINE u == task[c].user
<1>1. UserTypes' /\ Grows
  <2>1. CASE UNCHANGED userTable
    BY <2>1, UsersKept DEF AccountsTypes, SetPassword
  <2>2. CASE /\ password' = [password EXCEPT ![u] = lastPassword + 1]
             /\ lastPassword' = lastPassword + 1
             /\ UNCHANGED <<account, role, disabled, version, twoStep>>
    <3>1. /\ lastPassword \in Nat /\ password \in [Users -> 0 .. lastPassword]
          /\ version \in [Users -> Nat]
      BY DEF AccountsTypes, UserTypes
    <3>2. lastPassword' \in Nat /\ password' \in [Users -> 0 .. lastPassword']
      <4>1. /\ password \in [Users -> 0 .. lastPassword + 1]
            /\ lastPassword + 1 \in 0 .. lastPassword + 1
        BY <3>1
      <4>2. u \in Users
        BY DEF AccountsTypes, HandlerTypes, Fits, Within, SetPassword
      <4>3. [password EXCEPT ![u] = lastPassword + 1] \in [Users -> 0 .. lastPassword + 1]
        BY <4>1, <4>2, Updated
      <4> QED
        BY <2>2, <3>1, <4>3
    <3>3. UserTypes'
      BY <2>2, <3>2 DEF AccountsTypes, UserTypes, SetPassword
    <3>4. lastPassword' >= lastPassword /\ \A v \in Users : version'[v] >= version[v]
      BY <2>2, <3>1
    <3> QED
      BY <2>2, <3>3, <3>4 DEF Grows
  <2> QED
    BY <2>1, <2>2 DEF SetPassword
<1>2. HandlerTypes'
  BY <1>1, StepFits DEF HandlerStep, SetPassword
<1>3. SessionTypes'
  BY <1>1, SessionsKept DEF AccountsTypes, SetPassword
<1>4. TokenTypes'
  <2>1. used \in [Tokens -> Nat]
    BY DEF AccountsTypes, TokenTypes
  <2>2. used' = used \/ \E t : used' = [used EXCEPT ![t] = @ + 1]
    BY DEF SetPassword
  <2>3. used' \in [Tokens -> Nat]
    BY <2>1, <2>2
  <2> QED
    BY <1>1, <2>3 DEF AccountsTypes, TokenTypes, SetPassword, resetTable, Grows, Known
<1> QED
  BY <1>1, <1>2, <1>3, <1>4

LEMMA SetStatusTypes ==
  ASSUME AccountsTypes, NEW c \in Handlers, SetStatus(c)
  PROVE  UserTypes' /\ Grows /\ SessionTypes' /\ TokenTypes' /\ HandlerTypes'
<1> DEFINE u == task[c].user
<1>1. UserTypes' /\ Grows
  <2>1. CASE UNCHANGED <<userTable, suspensions>>
    BY <2>1, UsersKept DEF AccountsTypes
  <2>2. CASE /\ disabled' = [disabled EXCEPT ![u] = task[c].off]
             /\ suspensions' = suspensions \/ suspensions' = [suspensions EXCEPT ![u] = @ + 1]
             /\ UNCHANGED <<account, role, password, version, twoStep, lastPassword>>
    <3>1. suspensions \in [Users -> Nat] /\ task[c].off \in BOOLEAN
      BY DEF AccountsTypes, UserTypes, HandlerTypes, Tasks
    <3>2. suspensions' \in [Users -> Nat]
      BY <2>2, <3>1
    <3>3. disabled' \in [Users -> BOOLEAN]
      BY <2>2, <3>1 DEF AccountsTypes, UserTypes
    <3>4. UserTypes'
      BY <2>2, <3>2, <3>3 DEF AccountsTypes, UserTypes
    <3> QED
      BY <2>2, <3>4, StillGrows DEF AccountsTypes
  <2> QED
    BY <2>1, <2>2 DEF SetStatus
<1>2. stage'[c] = "idle" \/ account'[u] # "none"
  BY DEF SetStatus, Finishes, AccountsTypes, HandlerTypes, There, userTable
<1>3. HandlerTypes'
  BY <1>1, <1>2, StepFits DEF HandlerStep
<1>4. SessionTypes' /\ TokenTypes'
  BY <1>1, SessionsKept, TokensKept DEF AccountsTypes, SetStatus
<1> QED
  BY <1>1, <1>3, <1>4

LEMMA RaiseVersionTypes ==
  ASSUME AccountsTypes, NEW c \in Handlers, RaiseVersion(c)
  PROVE  UserTypes' /\ Grows /\ SessionTypes' /\ TokenTypes' /\ HandlerTypes'
<1> DEFINE u == task[c].user
<1>1. UserTypes' /\ Grows
  <2>1. version \in [Users -> Nat] /\ lastPassword \in Nat
    BY DEF AccountsTypes, UserTypes
  <2>2. /\ version' = [version EXCEPT ![u] = @ + 1]
        /\ UNCHANGED <<account, role, disabled, password, twoStep, lastPassword, suspensions>>
    BY DEF RaiseVersion, observed
  <2>3. /\ version' \in [Users -> Nat] /\ lastPassword' >= lastPassword
        /\ \A v \in Users : version'[v] >= version[v]
    <3> DEFINE new == [version EXCEPT ![u] = @ + 1]
    <3>1. \A v \in Users : new[v] = IF v = u THEN version[v] + 1 ELSE version[v]
      BY <2>1
    <3>2. new \in [Users -> Nat]
      <4>1. u \in Users
        BY DEF AccountsTypes, HandlerTypes, Fits, Within, RaiseVersion
      <4>2. version[u] + 1 \in Nat
        BY <2>1, <4>1
      <4> QED
        BY <2>1, <4>1, <4>2, Updated
    <3>3. \A v \in Users : new[v] >= version[v]
      <4> HIDE DEF new
      <4> QED
        BY <2>1, <3>1
    <3> QED
      BY <2>1, <2>2, <3>2, <3>3
  <2> QED
    BY <2>2, <2>3 DEF AccountsTypes, UserTypes, Grows
<1>2. HandlerTypes'
  BY <1>1, StepFits DEF HandlerStep, RaiseVersion
<1>3. SessionTypes' /\ TokenTypes'
  BY <1>1, SessionsKept, TokensKept DEF AccountsTypes, RaiseVersion, observed
<1> QED
  BY <1>1, <1>2, <1>3

LEMMA AccountsTypesInit == AccountsInit => AccountsTypes
<1> SUFFICES ASSUME AccountsInit PROVE AccountsTypes
  OBVIOUS
<1>1. /\ lastPassword \in Nat /\ password \in [Users -> 0 .. lastPassword]
      /\ version \in [Users -> Nat] /\ suspensions \in [Users -> Nat]
      /\ used \in [Tokens -> Nat] /\ asked \in 0 .. MaxAsked /\ restarts \in 0 .. MaxRestarts
  BY AccountsAssumption DEF AccountsInit
<1>2. UserTypes /\ TokenTypes /\ SessionTypes
  BY <1>1 DEF AccountsInit, UserTypes, TokenTypes, SessionTypes, Roles
<1>3. HandlerTypes
  BY NoTaskType DEF AccountsInit, HandlerTypes, Fits, Stages
<1> QED
  BY <1>1, <1>2, <1>3 DEF AccountsTypes, Bounded

LEMMA AccountsTypesNext == AccountsTypes /\ [AccountsNext]_accountsVars => AccountsTypes' /\ Grows
<1> SUFFICES ASSUME AccountsTypes, [AccountsNext]_accountsVars PROVE AccountsTypes' /\ Grows
  OBVIOUS
<1>1. ASSUME NEW c \in Handlers, AskAccounts(c) PROVE AccountsTypes' /\ Grows
  <2>1. PICK step, j : /\ Take(c, step, j) /\ AskedFor(step, j) /\ AskedWith(c, step, j)
                       /\ UNCHANGED <<suspensions, used, unraised, outcounted>>
    BY <1>1, Asks
  <2>2. UserTypes' /\ Grows
    BY <2>1, UsersKept DEF AccountsTypes, Take
  <2>3. SessionTypes' /\ TokenTypes'
    BY <2>1, <2>2, SessionsKept, TokensKept DEF AccountsTypes, Take
  <2>4. step \in Stages /\ j \in Tasks /\ Fits(step, j)'
    BY <2>1, <2>2, FitsKept DEF AskedFor, AccountsTypes
  <2>5. HandlerTypes'
    BY <2>1, <2>2, <2>4, StepMoves, HandlersKept DEF AccountsTypes
  <2>6. Bounded'
    BY <2>1, AccountsAssumption DEF Take, AccountsTypes, Bounded
  <2> QED
    BY <2>2, <2>3, <2>5, <2>6 DEF AccountsTypes
<1>2. ASSUME NEW c \in Handlers, HandlerStep(c) PROVE AccountsTypes' /\ Grows
  <2>1. UserTypes' /\ Grows /\ SessionTypes' /\ TokenTypes' /\ HandlerTypes'
    BY <1>2, CreateTypes, DeleteTypes, IssueTypes, TokenStepTypes, SetPasswordTypes,
       SetStatusTypes, RaiseVersionTypes DEF HandlerStep
  <2>2. asked' = asked /\ restarts' = restarts
    BY <1>2 DEF HandlerStep, CreateUser, InsertUser, DeleteUser, Login, SecondStep,
       SetupIssues, KeepToken, DropToken, BurnToken, SetPassword, SetStatus, RaiseVersion,
       Proceed, Finishes
  <2> QED
    BY <2>1, <2>2 DEF AccountsTypes, Bounded
<1>3. ASSUME NEW u \in Users, SecondFactorChanges(u) PROVE AccountsTypes' /\ Grows
  <2>1. UserTypes' /\ Grows
    <3>1. twoStep' \in [Users -> BOOLEAN]
      BY <1>3 DEF SecondFactorChanges, AccountsTypes, UserTypes
    <3> QED
      BY <1>3, <3>1, StillGrows DEF SecondFactorChanges, AccountsTypes, UserTypes, observed
  <2>2. SessionTypes' /\ TokenTypes'
    BY <1>3, <2>1, SessionsKept, TokensKept DEF AccountsTypes, SecondFactorChanges, observed
  <2>3. HandlerTypes' /\ Bounded'
    BY <1>3 DEF SecondFactorChanges, AccountsTypes, HandlerTypes, Fits, Within, Bounded
  <2> QED
    BY <2>1, <2>2, <2>3 DEF AccountsTypes
<1>4. ASSUME NEW t \in Tokens, HourOver(t) PROVE AccountsTypes' /\ Grows
  <2>1. UserTypes' /\ Grows
    BY <1>4, UsersKept DEF HourOver, AccountsTypes, observed
  <2>2. SessionTypes'
    BY <1>4, <2>1, SessionsKept DEF AccountsTypes, HourOver
  <2>3. TokenTypes' /\ HandlerTypes' /\ Bounded'
    BY <1>4 DEF HourOver, AccountsTypes, TokenTypes, HandlerTypes, Fits, Within, Bounded,
       userTable, observed, Known
  <2> QED
    BY <2>1, <2>2, <2>3 DEF AccountsTypes
<1>5. CASE Restart
  <2>1. UserTypes' /\ Grows
    BY <1>5, UsersKept DEF Restart, AccountsTypes
  <2>2. SessionTypes' /\ TokenTypes'
    BY <1>5, <2>1, SessionsKept, TokensKept DEF AccountsTypes, Restart
  <2>3. HandlerTypes'
    BY <1>5, NoTaskType DEF Restart, HandlerTypes, Fits, Stages
  <2>4. Bounded'
    BY <1>5, AccountsAssumption DEF Restart, AccountsTypes, Bounded
  <2> QED
    BY <2>1, <2>2, <2>3, <2>4 DEF AccountsTypes
<1>6. CASE UNCHANGED accountsVars
  BY <1>6, StillGrows
     DEF accountsVars, AccountsTypes, UserTypes, TokenTypes, SessionTypes, HandlerTypes,
     Bounded, Fits, Within, Known
<1> QED
  BY <1>1, <1>2, <1>3, <1>4, <1>5, <1>6 DEF AccountsNext

\* Every variable stays in its type, nobody works for a user that never was, and no
\* password or version read is ahead of the store's: versions and passwords only go up,
\* and a row stays in the table of users once it has been there.
THEOREM AccountsTypeCorrect == AccountsSpec => []AccountsTypeOK
<1>1. AccountsTypes => AccountsTypeOK
  <2> SUFFICES ASSUME AccountsTypes PROVE AccountsTypeOK
    OBVIOUS
  <2>1. \A c \in Handlers : stage[c] # "idle" => Within(task[c])
    BY DEF AccountsTypes, HandlerTypes, Fits
  <2>2. \A c \in Handlers : stage[c] \notin {"idle", "set up", "create", "status"} =>
          account[task[c].user] # "none"
    BY DEF AccountsTypes, HandlerTypes, Fits
  <2> QED
    BY <2>1, <2>2 DEF AccountsTypes, AccountsTypeOK, UserTypes, TokenTypes, SessionTypes,
       HandlerTypes, Within, Known, Bounded
<1> QED
  BY <1>1, AccountsTypesInit, AccountsTypesNext, PTL DEF AccountsSpec

-----------------------------------------------------------------------------
(* Sessions.                                                               *)

\* What a step may do to a user: nothing that sessions depend on, or something after
\* which the version is to be raised, or raise it.
Ends(u) ==
  \/ /\ version'[u] = version[u] /\ suspensions'[u] = suspensions[u]
     /\ password'[u] = password[u]
     /\ VersionDue(u) => VersionDue(u)'
  \/ version'[u] >= version[u] /\ VersionDue(u)'
  \/ version'[u] > version[u]

LEMMA CurrentKept ==
  ASSUME UserTypes, UserTypes', NEW r, r.user \in Users, r.version \in Nat,
         r.version <= version[r.user], Ends(r.user), Current(r)
  PROVE  Current(r)'
<1>1. version[r.user] \in Nat /\ version'[r.user] \in Nat
  BY DEF UserTypes
<1>2. CASE version'[r.user] > version[r.user]
  <2>1. r.version # version'[r.user]
    BY <1>1, <1>2
  <2> QED
    BY <2>1 DEF Current
<1>3. CASE VersionDue(r.user)'
  BY <1>3 DEF Current, VersionDue
<1>4. CASE /\ version'[r.user] = version[r.user] /\ suspensions'[r.user] = suspensions[r.user]
           /\ password'[r.user] = password[r.user]
           /\ VersionDue(r.user) => VersionDue(r.user)'
  BY <1>4 DEF Current, VersionDue
<1> QED
  BY <1>2, <1>3, <1>4 DEF Ends

LEMMA DueKept ==
  ASSUME HandlerTypes, NEW c \in Handlers, NEW step \in Stages, NEW j \in Tasks,
         MovesTo(c, step, j), unraised' = unraised,
         NEW u \in Users, stage[c] # "bump" \/ task[c].user # u, VersionDue(u)
  PROVE  VersionDue(u)'
<1>1. CASE u \in unraised
  BY <1>1 DEF VersionDue
<1>2. ASSUME NEW o \in Handlers, stage[o] = "bump", task[o].user = u PROVE VersionDue(u)'
  <2>1. o # c
    BY <1>2
  <2>2. stage'[o] = "bump" /\ task'[o].user = u
    BY <1>2, <2>1, MoveFacts
  <2> QED
    BY <2>2 DEF VersionDue
<1> QED
  BY <1>1, <1>2 DEF VersionDue

LEMMA AskEnds ==
  ASSUME AccountsTypes, NEW c \in Handlers, NEW step, NEW j, Take(c, step, j), AskedFor(step, j),
         UNCHANGED <<suspensions, used, unraised, outcounted>>, NEW u \in Users
  PROVE  Ends(u)
<1>1. step \in Stages /\ j \in Tasks /\ MovesTo(c, step, j)
  BY StepMoves DEF AskedFor, AccountsTypes
<1>2. stage[c] # "bump" /\ version' = version /\ password' = password
  BY DEF Take, userTable
<1> QED
  BY <1>1, <1>2, DueKept DEF Ends, AccountsTypes

LEMMA StepEnds ==
  ASSUME AccountsTypes, AccountsTypes', NEW c \in Handlers, HandlerStep(c), NEW u \in Users
  PROVE  Ends(u)
<1> DEFINE u0 == task[c].user
<1>1. PICK step \in Stages, j \in Tasks : MovesTo(c, step, j)
  BY StepShape DEF AccountsTypes
<1>2. unraised' = unraised
  BY DEF HandlerStep, CreateUser, DeleteUser, Login, SecondStep, SetupIssues, KeepToken,
     DropToken, BurnToken, SetPassword, SetStatus, RaiseVersion, observed
<1>3. CASE /\ stage[c] # "bump"
           /\ version'[u] = version[u] /\ suspensions'[u] = suspensions[u]
           /\ password'[u] = password[u]
  BY <1>1, <1>2, <1>3, DueKept DEF Ends, AccountsTypes
<1>4. CASE CreateUser(c) \/ DeleteUser(c) \/ Login(c) \/ SecondStep(c) \/ SetupIssues(c)
             \/ KeepToken(c) \/ DropToken(c) \/ BurnToken(c)
  BY <1>3, <1>4 DEF CreateUser, InsertUser, DeleteUser, Login, SecondStep, SetupIssues,
     KeepToken, DropToken, BurnToken, userTable, observed
<1>5. CASE SetPassword(c) \/ SetStatus(c)
  <2>1. CASE u # u0 \/ UNCHANGED <<userTable, suspensions>>
    <3>1. /\ version'[u] = version[u] /\ suspensions'[u] = suspensions[u]
          /\ password'[u] = password[u]
      BY <1>5, <2>1 DEF SetPassword, SetStatus, userTable, AccountsTypes, UserTypes
    <3> QED
      BY <1>3, <1>5, <3>1 DEF SetPassword, SetStatus
  <2>2. CASE stage'[c] = "bump" /\ task'[c] = task[c] /\ u = u0
    <3>1. version'[u] >= version[u]
      <4>1. version' = version /\ version[u] \in Nat
        BY <1>5 DEF SetPassword, SetStatus, userTable, AccountsTypes, UserTypes
      <4> QED
        BY <4>1
    <3> QED
      BY <2>2, <3>1 DEF Ends, VersionDue
  <2>3. CASE task[c].off = FALSE /\ SetStatus(c)
    <3>1. suspensions' = suspensions /\ version' = version /\ password' = password
      BY <2>3 DEF SetStatus, userTable
    <3>2. stage[c] # "bump"
      BY <2>3 DEF SetStatus
    <3> QED
      BY <1>3, <3>1, <3>2
  <2>4. CASE stage' = [stage EXCEPT ![c] = "bump"] /\ task' = task /\ u = u0
    BY <2>2, <2>4 DEF AccountsTypes, HandlerTypes
  <2>5. task[c].off \in BOOLEAN
    BY DEF AccountsTypes, HandlerTypes, Tasks
  <2>6. CASE SetPassword(c)
    BY <2>1, <2>4, <2>6 DEF SetPassword, Proceed
  <2>7. CASE SetStatus(c)
    BY <2>1, <2>3, <2>4, <2>5, <2>7 DEF SetStatus, Proceed
  <2> QED
    BY <1>5, <2>6, <2>7
<1>6. CASE RaiseVersion(c)
  <2>1. CASE u = u0
    <3>1. version[u] \in Nat /\ version'[u] = version[u] + 1
      BY <1>6, <2>1 DEF RaiseVersion, AccountsTypes, UserTypes
    <3>2. version'[u] > version[u]
      BY <3>1
    <3> QED
      BY <3>2 DEF Ends
  <2>2. CASE u # u0
    <3>1. /\ version'[u] = version[u] /\ suspensions'[u] = suspensions[u]
          /\ password'[u] = password[u]
      BY <1>6, <2>2 DEF RaiseVersion, AccountsTypes, UserTypes, observed
    <3> QED
      BY <1>1, <1>2, <2>2, <3>1, DueKept DEF Ends, AccountsTypes
  <2> QED
    BY <2>1, <2>2
<1> QED
  BY <1>4, <1>5, <1>6 DEF HandlerStep

LEMMA RestartEnds ==
  ASSUME AccountsTypes, Restart, NEW u \in Users
  PROVE  Ends(u)
<1>1. version' = version /\ suspensions' = suspensions /\ password' = password
  BY DEF Restart, userTable
<1>2. VersionDue(u) => VersionDue(u)'
  BY DEF VersionDue, Restart
<1> QED
  BY <1>1, <1>2 DEF Ends

LEMMA StillEnds ==
  ASSUME UNCHANGED <<version, suspensions, password, stage, task, unraised>>, NEW u \in Users
  PROVE  Ends(u)
  BY DEF Ends, VersionDue

LEMMA EndsNext ==
  ASSUME AccountsTypes, AccountsTypes', [AccountsNext]_accountsVars, NEW u \in Users
  PROVE  Ends(u)
<1>1. ASSUME NEW c \in Handlers, AskAccounts(c) PROVE Ends(u)
  BY <1>1, Asks, AskEnds
<1>2. ASSUME NEW c \in Handlers, HandlerStep(c) PROVE Ends(u)
  BY <1>2, StepEnds
<1>3. ASSUME NEW v \in Users, SecondFactorChanges(v) PROVE Ends(u)
  BY <1>3, StillEnds DEF SecondFactorChanges, observed
<1>4. ASSUME NEW t \in Tokens, HourOver(t) PROVE Ends(u)
  BY <1>4, StillEnds DEF HourOver, userTable, observed
<1>5. CASE UNCHANGED accountsVars
  BY <1>5, StillEnds DEF accountsVars
<1> QED
  BY <1>1, <1>2, <1>3, <1>4, <1>5, RestartEnds DEF AccountsNext

\* Of a handler that does nothing, only a restart takes anything.
LEMMA Unmoved ==
  ASSUME AccountsTypes, [AccountsNext]_accountsVars, NEW c \in Handlers,
         ~AskAccounts(c), ~HandlerStep(c)
  PROVE  \/ stage'[c] = stage[c] /\ task'[c] = task[c]
         \/ stage'[c] = "idle" /\ task'[c] = NoTask
<1>1. ASSUME NEW o \in Handlers, AskAccounts(o) \/ HandlerStep(o)
      PROVE  stage'[c] = stage[c] /\ task'[c] = task[c]
  <2>1. \E step \in Stages, j \in Tasks : MovesTo(o, step, j)
    BY <1>1, Asks, StepMoves, StepShape DEF AskedFor, AccountsTypes
  <2>2. o # c
    BY <1>1
  <2> QED
    BY <2>1, <2>2, MoveFacts DEF AccountsTypes
<1> QED
  BY <1>1 DEF AccountsNext, SecondFactorChanges, HourOver, Restart, accountsVars

LEMMA UnknownKept ==
  ASSUME AccountsTypes, [AccountsNext]_accountsVars, NEW u \in Users, account[u] = "none"
  PROVE  version'[u] = version[u] /\ suspensions'[u] = suspensions[u] /\ password'[u] = password[u]
<1>1. ASSUME NEW c \in Handlers, AskAccounts(c)
      PROVE  UNCHANGED <<version, suspensions, password>>
  BY <1>1, Asks DEF Take, userTable
<1>2. ASSUME NEW c \in Handlers, HandlerStep(c)
      PROVE  /\ version'[u] = version[u] /\ suspensions'[u] = suspensions[u]
             /\ password'[u] = password[u]
  <2>1. CASE SetPassword(c)
    BY <2>1 DEF SetPassword, There, userTable, AccountsTypes, UserTypes
  <2>2. CASE SetStatus(c)
    <3>1. suspensions'[u] = suspensions[u]
      BY <2>2 DEF SetStatus, There, AccountsTypes, UserTypes
    <3> QED
      BY <2>2, <3>1 DEF SetStatus, userTable
  <2>3. CASE RaiseVersion(c)
    <3>1. task[c].user # u
      BY <2>3 DEF RaiseVersion, AccountsTypes, HandlerTypes, Fits
    <3> QED
      BY <2>3, <3>1 DEF RaiseVersion, observed, AccountsTypes, UserTypes
  <2>4. CASE CreateUser(c) \/ DeleteUser(c) \/ Login(c) \/ SecondStep(c) \/ SetupIssues(c)
               \/ KeepToken(c) \/ DropToken(c) \/ BurnToken(c)
    BY <2>4 DEF CreateUser, InsertUser, DeleteUser, Login, SecondStep, SetupIssues,
       KeepToken, DropToken, BurnToken, userTable, observed
  <2> QED
    BY <1>2, <2>1, <2>2, <2>3, <2>4 DEF HandlerStep
<1> QED
  BY <1>1, <1>2 DEF AccountsNext, SecondFactorChanges, HourOver, Restart, accountsVars,
     userTable, observed

LEMMA ReadingInit == AccountsInit => ReadingInv
  BY DEF AccountsInit, ReadingInv, Blank

LEMMA NewSessions ==
  ASSUME AccountsTypes, NEW c \in Handlers, HandlerStep(c), NEW s \in sessions', s \notin sessions
  PROVE  s = Session(task[c]) /\ stage[c] \in {"login", "code", "issue"}
  BY DEF HandlerStep, CreateUser, DeleteUser, Login, SecondStep, SetupIssues, Issue, KeepToken,
     DropToken, BurnToken, SetPassword, SetStatus, RaiseVersion, issued

LEMMA OldSessions ==
  ASSUME AccountsTypes, [AccountsNext]_accountsVars,
         NEW s \in sessions', s \notin sessions
  PROVE  \E c \in Handlers : HandlerStep(c)
<1>1. ASSUME NEW c \in Handlers, AskAccounts(c) PROVE sessions' = sessions
  BY <1>1, Asks DEF Take, issued
<1> QED
  BY <1>1 DEF AccountsNext, SecondFactorChanges, HourOver, Restart, issued, accountsVars

LEMMA ReadingNext ==
  ASSUME AccountsTypes, AccountsTypes', ReadingInv, [AccountsNext]_accountsVars
  PROVE  ReadingInv'
<1>1. ASSUME NEW s \in sessions, Current(s) PROVE Current(s)'
  <2>1. s.user \in Users /\ s.version \in Nat /\ s.version <= version[s.user]
    BY DEF AccountsTypes, SessionTypes, Known
  <2> QED
    BY <1>1, <2>1, EndsNext, CurrentKept DEF AccountsTypes
<1>2. ASSUME NEW j \in Tasks, Within(j), Current(j) PROVE Current(j)'
  <2>1. j.user \in Users /\ j.version \in Nat /\ j.version <= version[j.user]
    BY <1>2 DEF Within, Tasks
  <2> QED
    BY <1>2, <2>1, EndsNext, CurrentKept DEF AccountsTypes
<1>3. ASSUME NEW s \in sessions' PROVE Current(s)'
  <2>1. CASE s \in sessions
    BY <1>1, <2>1 DEF ReadingInv
  <2>2. CASE s \notin sessions
    <3>1. PICK c \in Handlers : HandlerStep(c)
      BY <2>2, OldSessions
    <3>2. s = Session(task[c]) /\ stage[c] \in {"login", "code", "issue"}
      BY <2>2, <3>1, NewSessions
    <3>3. PICK j \in Tasks : j = task[c]
      BY DEF AccountsTypes, HandlerTypes
    <3>4. Within(j) /\ Current(j)
      BY <3>2, <3>3 DEF AccountsTypes, HandlerTypes, Fits, ReadingInv
    <3>5. Current(j)'
      BY <1>2, <3>4
    <3>6. /\ s.user = j.user /\ s.version = j.version /\ s.password = j.password
          /\ s.suspensions = j.suspensions /\ s.second = j.second
      BY <3>2, <3>3 DEF Session
    <3> QED
      BY <3>5, <3>6 DEF Current, VersionDue
  <2> QED
    BY <2>1, <2>2
<1>4. ASSUME NEW c \in Handlers, stage'[c] \in {"login", "code", "issue"},
             stage'[c] = stage[c], task'[c] = task[c]
      PROVE  Current(task[c])'
  <2>1. PICK j \in Tasks : j = task[c]
    BY DEF AccountsTypes, HandlerTypes
  <2>2. Within(j) /\ Current(j)
    BY <1>4, <2>1 DEF AccountsTypes, HandlerTypes, Fits, ReadingInv
  <2>3. Current(j)' /\ j = task'[c]
    BY <1>2, <1>4, <2>1, <2>2
  <2> QED
    BY <2>3 DEF Current, VersionDue
<1>5. ASSUME NEW c \in Handlers, stage'[c] \in {"login", "code", "issue"},
             ~(stage'[c] = stage[c] /\ task'[c] = task[c])
      PROVE  Current(task[c])'
  <2>1. CASE AskAccounts(c)
    <3>1. PICK step, j : /\ Take(c, step, j) /\ AskedFor(step, j)
                         /\ UNCHANGED <<suspensions, used, unraised, outcounted>>
      BY <2>1, Asks
    <3>2. step \in Stages /\ j \in Tasks /\ stage'[c] = step /\ task'[c] = j
      <4>1. step \in Stages /\ j \in Tasks /\ MovesTo(c, step, j)
        BY <3>1, StepMoves DEF AskedFor, AccountsTypes
      <4> QED
        BY <4>1, MoveFacts DEF AccountsTypes
    <3>3. step \in {"login", "code"}
      BY <1>5, <3>1, <3>2 DEF AskedFor
    <3>4. Within(j) /\ Current(j)
      BY <3>1, <3>3 DEF AskedFor, Fits, Current
    <3>5. Current(j)'
      BY <1>2, <3>2, <3>4
    <3> QED
      BY <3>2, <3>5 DEF Current, VersionDue
  <2>2. CASE HandlerStep(c)
    <3>1. stage'[c] = "issue" /\ stage[c] = "set up" /\ task'[c] = task[c]
            /\ account[task[c].user] = "none"
      <4>1. PICK step \in Stages, j \in Tasks : MovesTo(c, step, j) /\ Onward(c, step, j)
        BY <2>2, StepShape DEF AccountsTypes
      <4>2. stage'[c] = step /\ task'[c] = j
        BY <4>1, MoveFacts DEF AccountsTypes
      <4> QED
        BY <1>5, <4>1, <4>2 DEF Onward
    <3>2. PICK j \in Tasks : j = task[c]
      BY DEF AccountsTypes, HandlerTypes
    <3>3. /\ j.version = 0 /\ j.suspensions = 0 /\ j.password = 0
          /\ Within(j) /\ Blank(j.user)
      BY <3>1, <3>2 DEF ReadingInv, AccountsTypes, HandlerTypes, Fits, Within
    <3>4. Current(j)
      BY <3>3 DEF Current, Blank
    <3>5. Current(j)' /\ j = task'[c]
      BY <1>2, <3>1, <3>2, <3>3, <3>4
    <3> QED
      BY <3>5 DEF Current, VersionDue
  <2>3. CASE ~AskAccounts(c) /\ ~HandlerStep(c)
    BY <1>5, <2>3, Unmoved
  <2> QED
    BY <2>1, <2>2, <2>3
<1>6. ASSUME NEW c \in Handlers, stage'[c] = "set up"
      PROVE  task'[c].version = 0 /\ task'[c].suspensions = 0 /\ task'[c].password = 0
  <2>1. CASE stage'[c] = stage[c] /\ task'[c] = task[c]
    BY <1>6, <2>1 DEF ReadingInv
  <2>2. CASE AskAccounts(c)
    <3>1. PICK step, j : Take(c, step, j) /\ AskedFor(step, j)
      BY <2>2, Asks
    <3>2. step \in Stages /\ j \in Tasks /\ stage'[c] = step /\ task'[c] = j
      <4>1. step \in Stages /\ j \in Tasks /\ MovesTo(c, step, j)
        BY <3>1, StepMoves DEF AskedFor, AccountsTypes
      <4> QED
        BY <4>1, MoveFacts DEF AccountsTypes
    <3> QED
      BY <1>6, <3>1, <3>2 DEF AskedFor
  <2>3. ~HandlerStep(c)
    <3> SUFFICES ASSUME HandlerStep(c) PROVE FALSE
      OBVIOUS
    <3>1. PICK step \in Stages, j \in Tasks : MovesTo(c, step, j) /\ Onward(c, step, j)
      BY StepShape DEF AccountsTypes
    <3>2. stage'[c] = step
      BY <3>1, MoveFacts DEF AccountsTypes
    <3>3. step # "set up"
      BY <3>1 DEF Onward
    <3> QED
      BY <1>6, <3>2, <3>3
  <2>4. CASE ~AskAccounts(c)
    <3>1. stage'[c] = stage[c] /\ task'[c] = task[c]
      BY <1>6, <2>3, <2>4, Unmoved
    <3> QED
      BY <2>1, <3>1
  <2> QED
    BY <2>2, <2>4
<1>7. ASSUME NEW u \in Users, account'[u] = "none" PROVE Blank(u)'
  <2>1. account[u] = "none" /\ Blank(u)
    BY <1>7, AccountsTypesNext DEF ReadingInv, Grows
  <2>2. version'[u] = version[u] /\ suspensions'[u] = suspensions[u] /\ password'[u] = password[u]
    BY <1>7, <2>1, UnknownKept
  <2> QED
    BY <2>1, <2>2 DEF Blank
<1> QED
  BY <1>3, <1>4, <1>5, <1>6, <1>7 DEF ReadingInv

LEMMA ReadingCorrect == AccountsSpec => [](AccountsTypes /\ ReadingInv)
<1>1. AccountsInit => AccountsTypes /\ ReadingInv
  BY AccountsTypesInit, ReadingInit
<1>2. AccountsTypes /\ ReadingInv /\ [AccountsNext]_accountsVars => (AccountsTypes /\ ReadingInv)'
  BY AccountsTypesNext, ReadingNext
<1> QED
  BY <1>1, <1>2, PTL DEF AccountsSpec

\* A session that is accepted was issued for the password its user has now and after the
\* last suspension, unless the version is still to be raised: whatever was read before a
\* change names a version that the change leaves behind, for each change and each
\* suspension is followed by a raise or known to lack one.
THEOREM SessionsEndHolds == AccountsSpec => []SessionsEnd
<1>1. AccountsTypes /\ ReadingInv => SessionsEnd
  BY DEF ReadingInv, Current, SessionsEnd, Live
<1> QED
  BY <1>1, ReadingCorrect, PTL

-----------------------------------------------------------------------------
(* Resets.                                                                 *)

LEMMA TokenInit == AccountsInit => TokenInv
<1> SUFFICES ASSUME AccountsInit PROVE TokenInv
  OBVIOUS
<1>1. /\ \A t \in Tokens : used[t] = 0
      /\ \A c \in Handlers : task[c].token = NoToken /\ stage[c] = "idle"
  BY NoTaskType DEF AccountsInit
<1>2. \A t \in Tokens : t # NoToken
  BY AccountsAssumption
<1>3. \A t \in Tokens : used[t] <= 1
  BY <1>1
<1> QED
  BY <1>1, <1>2, <1>3 DEF TokenInv, Held, OnlyOnce

LEMMA TokenAsk ==
  ASSUME AccountsTypes, TokenInv, NEW c \in Handlers, AskAccounts(c)
  PROVE  TokenInv'
<1> PICK step, j : /\ Take(c, step, j) /\ AskedFor(step, j) /\ AskedWith(c, step, j)
                   /\ UNCHANGED <<suspensions, used, unraised, outcounted>>
  BY Asks
<1>1. step \in Stages /\ j \in Tasks /\ MovesTo(c, step, j) /\ stage[c] = "idle"
  BY StepMoves DEF AskedFor, AccountsTypes, Take
<1>2. /\ stage'[c] = step /\ task'[c] = j /\ used' = used /\ resets' = resets
      /\ \A o \in Handlers : o # c => stage'[o] = stage[o] /\ task'[o] = task[o]
  BY <1>1, MoveFacts DEF AccountsTypes, Take, resetTable
<1>3. Held'
  <2>1. j.token # NoToken => step \in {"drop token", "burn token"}
    BY DEF AskedWith
  <2> QED
    BY <1>2, <2>1 DEF Held, TokenInv
<1>4. ASSUME NEW t \in Tokens, t \notin disputed' PROVE OnlyOnce(t)'
  <2>1. t \notin disputed /\ t # NoToken
    BY <1>4, AccountsAssumption DEF AskedWith
  <2>2. OnlyOnce(t)
    BY <2>1 DEF TokenInv
  <2>3. task[c].token # t
    BY <1>1, <2>1 DEF TokenInv, Held
  <2>4. CASE j.token # t
    <3>1. used'[t] <= 1 /\ (used'[t] # 0 => resets'[t] = NoUser)
      BY <1>2, <2>2 DEF OnlyOnce
    <3> QED
      BY <1>2, <2>2, <2>4, <3>1 DEF OnlyOnce
  <2>5. CASE j.token = t
    <3>1. /\ resets[t] # NoUser /\ step \in {"drop token", "burn token"}
          /\ ~\E o \in Handlers \ {c} : task[o].token = t /\ stage[o] # "keep token"
      BY <1>4, <2>1, <2>5 DEF AskedWith
    <3>2. \A o \in Handlers : o # c => task[o].token # t
      BY <2>1, <3>1 DEF TokenInv, Held
    <3>3. used[t] = 0
      BY <2>2, <3>1 DEF OnlyOnce
    <3>4. used'[t] <= 1
      <4>1. used'[t] = 0
        BY <1>2, <3>3
      <4> QED
        BY <4>1
    <3> QED
      BY <1>2, <3>1, <3>2, <3>3, <3>4 DEF OnlyOnce
  <2> QED
    BY <2>4, <2>5
<1> QED
  BY <1>3, <1>4 DEF TokenInv

\* What a handler's step does to the tokens, but for the setting of a password.
LEMMA TokenFrame ==
  ASSUME AccountsTypes, TokenInv, NEW c \in Handlers, HandlerStep(c), NEW t \in Tokens \ disputed,
         used' = used, resets'[t] = resets[t] \/ resets'[t] = NoUser,
         stage[c] = "burn token" /\ task[c].token = t => resets'[t] = NoUser
  PROVE  OnlyOnce(t)'
<1>1. OnlyOnce(t) /\ t # NoToken
  BY AccountsAssumption DEF TokenInv
<1>2. PICK step \in Stages, j \in Tasks : MovesTo(c, step, j) /\ Onward(c, step, j)
  BY StepShape DEF AccountsTypes
<1>3. /\ stage'[c] = step /\ task'[c] = j
      /\ \A o \in Handlers : o # c => stage'[o] = stage[o] /\ task'[o] = task[o]
  BY <1>2, MoveFacts DEF AccountsTypes
<1>4. \/ j = NoTask
      \/ j = task[c] /\ step \in {"issue", "owned", "delete", "bump"}
      \/ j = task[c] /\ step = "set password" /\ stage[c] = "burn token"
  BY <1>2 DEF Onward
<1>5. used'[t] <= 1 /\ (used'[t] # 0 => resets'[t] = NoUser)
  BY <1>1 DEF OnlyOnce
<1>6. \A o \in Handlers : task'[o].token = t => task[o].token = t
  BY <1>1, <1>3, <1>4, NoTaskType
<1>7. \A o \in Handlers : task'[o].token = t =>
        /\ stage'[o] \in {"burn token", "set password"} => used'[t] = 0
        /\ stage'[o] = "set password" => resets'[t] = NoUser
  <2>1. ASSUME NEW o \in Handlers, o # c, task'[o].token = t
        PROVE  /\ stage'[o] \in {"burn token", "set password"} => used'[t] = 0
               /\ stage'[o] = "set password" => resets'[t] = NoUser
    BY <1>1, <1>3, <1>6, <2>1 DEF OnlyOnce
  <2>2. ASSUME task'[c].token = t
        PROVE  /\ stage'[c] \in {"burn token", "set password"} => used'[t] = 0
               /\ stage'[c] = "set password" => resets'[t] = NoUser
    <3>1. j = task[c] /\ task[c].token = t
      BY <1>1, <1>3, <1>4, <1>6, <2>2, NoTaskType
    <3>2. step \in {"burn token", "set password"} =>
            step = "set password" /\ stage[c] = "burn token"
      BY <1>1, <1>4, <2>2, <3>1, <1>3, NoTaskType
    <3> QED
      BY <1>1, <1>3, <3>1, <3>2 DEF OnlyOnce
  <2> QED
    BY <2>1, <2>2
<1>8. \A a, o \in Handlers : task'[a].token = t /\ task'[o].token = t => a = o
  BY <1>1, <1>6 DEF OnlyOnce
<1> QED
  BY <1>5, <1>7, <1>8 DEF OnlyOnce

LEMMA TokenHeld ==
  ASSUME AccountsTypes, TokenInv, NEW c \in Handlers, HandlerStep(c)
  PROVE  Held' /\ disputed' = disputed
<1>1. PICK step \in Stages, j \in Tasks : MovesTo(c, step, j) /\ Onward(c, step, j)
  BY StepShape DEF AccountsTypes
<1>2. /\ stage'[c] = step /\ task'[c] = j
      /\ \A o \in Handlers : o # c => stage'[o] = stage[o] /\ task'[o] = task[o]
  BY <1>1, MoveFacts DEF AccountsTypes
<1>3. \/ j = NoTask
      \/ j = task[c] /\ step \in {"set password", "bump"}
      \/ j = task[c] /\ stage[c] \in {"set up", "count", "owned"}
  BY <1>1 DEF Onward
<1>4. Held'
  BY <1>2, <1>3, NoTaskType DEF TokenInv, Held
<1>5. disputed' = disputed
  BY DEF HandlerStep, CreateUser, DeleteUser, Login, SecondStep, SetupIssues, KeepToken,
     DropToken, BurnToken, SetPassword, SetStatus, RaiseVersion, observed
<1> QED
  BY <1>4, <1>5

LEMMA TokenStep ==
  ASSUME AccountsTypes, TokenInv, NEW c \in Handlers, HandlerStep(c)
  PROVE  TokenInv'
<1> SUFFICES ASSUME NEW t \in Tokens \ disputed PROVE OnlyOnce(t)'
  BY TokenHeld DEF TokenInv
<1>1. OnlyOnce(t) /\ t # NoToken /\ used \in [Tokens -> Nat] /\ DOMAIN resets = Tokens
  BY AccountsAssumption DEF TokenInv, AccountsTypes, TokenTypes
<1>2. CASE CreateUser(c) \/ DeleteUser(c) \/ Login(c) \/ SecondStep(c) \/ SetupIssues(c)
             \/ SetStatus(c) \/ RaiseVersion(c)
  <2>1. used' = used /\ resets' = resets /\ stage[c] # "burn token"
    BY <1>2 DEF CreateUser, DeleteUser, Login, SecondStep, SetupIssues, SetStatus,
       RaiseVersion, observed, resetTable
  <2> QED
    BY <2>1, TokenFrame
<1>3. CASE KeepToken(c)
  <2>1. PICK x \in Tokens : /\ used[x] = 0 /\ resets[x] = NoUser
                            /\ \A o \in Handlers : task[o].token # x
                            /\ resets' = [resets EXCEPT ![x] = task[c].user]
    BY <1>3 DEF KeepToken
  <2>2. used' = used /\ stage[c] # "burn token"
    BY <1>3 DEF KeepToken, observed
  <2>3. CASE x # t
    <3>1. resets'[t] = resets[t]
      BY <1>1, <2>1, <2>3
    <3> QED
      BY <2>2, <3>1, TokenFrame
  <2>4. CASE x = t
    <3>1. \A o \in Handlers : task'[o].token # t
      <4>1. PICK step \in Stages, j \in Tasks : MovesTo(c, step, j)
        BY StepShape DEF AccountsTypes
      <4>2. task'[c] = NoTask
        BY <1>3 DEF KeepToken, Finishes, AccountsTypes, HandlerTypes
      <4> QED
        BY <1>1, <2>1, <2>4, <4>1, <4>2, MoveFacts, NoTaskType DEF AccountsTypes
    <3>2. used'[t] <= 1 /\ used'[t] = 0
      <4>1. used'[t] = 0
        BY <2>1, <2>2, <2>4
      <4> QED
        BY <4>1
    <3> QED
      BY <3>1, <3>2 DEF OnlyOnce
  <2> QED
    BY <2>3, <2>4
<1>4. CASE DropToken(c) \/ BurnToken(c)
  <2>1. used' = used /\ resets' = [resets EXCEPT ![task[c].token] = NoUser]
    BY <1>4 DEF DropToken, BurnToken, observed
  <2>2. /\ resets'[t] = resets[t] \/ resets'[t] = NoUser
        /\ task[c].token = t => resets'[t] = NoUser
    BY <1>1, <2>1
  <2> QED
    BY <2>1, <2>2, TokenFrame
<1>5. CASE SetPassword(c)
  <2>1. resets' = resets /\ stage[c] = "set password"
    BY <1>5 DEF SetPassword, resetTable
  <2>2. CASE used' = used
    BY <2>1, <2>2, TokenFrame
  <2>3. CASE used' = [used EXCEPT ![task[c].token] = @ + 1] /\ task[c].token # t
             /\ stage' = [stage EXCEPT ![c] = "bump"] /\ task' = task
    <3>1. used'[t] = used[t]
      BY <1>1, <2>3
    <3>2. used'[t] <= 1
      BY <1>1, <3>1 DEF OnlyOnce
    <3> QED
      BY <1>1, <2>1, <2>3, <3>1, <3>2 DEF OnlyOnce, AccountsTypes, HandlerTypes
  <2>4. CASE used' = [used EXCEPT ![task[c].token] = @ + 1] /\ task[c].token = t
             /\ stage' = [stage EXCEPT ![c] = "bump"] /\ task' = task
    <3>1. used[t] = 0 /\ resets[t] = NoUser
      BY <1>1, <2>1, <2>4 DEF OnlyOnce
    <3>2. used'[t] <= 1
      <4>1. used'[t] = 0 + 1
        BY <1>1, <2>4, <3>1
      <4> QED
        BY <4>1
    <3>3. \A o \in Handlers : task[o].token = t => o = c
      BY <1>1, <2>4 DEF OnlyOnce
    <3>4. stage'[c] = "bump"
      BY <2>4 DEF AccountsTypes, HandlerTypes
    <3> QED
      BY <2>1, <2>4, <3>1, <3>2, <3>3, <3>4 DEF OnlyOnce
  <2> QED
    BY <1>5, <2>2, <2>3, <2>4 DEF SetPassword, Proceed
<1> QED
  BY <1>2, <1>3, <1>4, <1>5 DEF HandlerStep

LEMMA TokenNext ==
  ASSUME AccountsTypes, TokenInv, [AccountsNext]_accountsVars
  PROVE  TokenInv'
<1>1. CASE Restart
  <2>1. /\ \A c \in Handlers : task'[c].token = NoToken
        /\ UNCHANGED <<used, resets, disputed>>
    BY <1>1, NoTaskType DEF Restart, resetTable
  <2>2. \A t \in Tokens : t # NoToken
    BY AccountsAssumption
  <2>3. ASSUME NEW t \in Tokens \ disputed PROVE used'[t] <= 1
    BY <2>1 DEF TokenInv, OnlyOnce
  <2> QED
    BY <2>1, <2>2, <2>3 DEF TokenInv, Held, OnlyOnce
<1>2. ASSUME UNCHANGED <<used, resets, disputed, stage, task>> PROVE TokenInv'
  BY <1>2 DEF TokenInv, Held, OnlyOnce
<1>3. ASSUME NEW u \in Users, SecondFactorChanges(u) PROVE TokenInv'
  BY <1>2, <1>3 DEF SecondFactorChanges, resetTable, observed
<1>4. ASSUME NEW t \in Tokens, HourOver(t) PROVE TokenInv'
  BY <1>2, <1>4 DEF HourOver, observed
<1>5. CASE UNCHANGED accountsVars
  BY <1>2, <1>5 DEF accountsVars
<1> QED
  BY <1>1, <1>3, <1>4, <1>5, TokenAsk, TokenStep DEF AccountsNext

\* A reset token that no two calls worked on at once has set one password at most: it
\* goes before the password comes, so who still finds it comes before.
THEOREM ResetsOnceHolds == AccountsSpec => []ResetsOnce
<1>1. AccountsInit => AccountsTypes /\ TokenInv
  BY AccountsTypesInit, TokenInit
<1>2. AccountsTypes /\ TokenInv /\ [AccountsNext]_accountsVars => (AccountsTypes /\ TokenInv)'
  BY AccountsTypesNext, TokenNext
<1>3. AccountsTypes /\ TokenInv => ResetsOnce
  BY DEF TokenInv, OnlyOnce, ResetsOnce
<1> QED
  BY <1>1, <1>2, <1>3, PTL DEF AccountsSpec

-----------------------------------------------------------------------------
(* The last superadmin.                                                    *)

LEMMA AdminInit == AccountsInit => AdminInv
  BY DEF AccountsInit, AdminInv, RolesKnown, OneStays

LEMMA TwoAdmins ==
  ASSUME ~LastSuperadmin, NEW u
  PROVE  \E a \in Admins : a # u
<1>1. IsFiniteSet(Admins)
  BY AccountsAssumption, FS_Subset DEF Admins
<1>2. CASE Admins \subseteq {u}
  <2>1. IsFiniteSet({u}) /\ Cardinality({u}) = 1
    BY FS_Singleton
  <2>2. Cardinality(Admins) <= Cardinality({u})
    BY <1>2, <2>1, FS_Subset
  <2> QED
    BY <2>1, <2>2 DEF LastSuperadmin
<1> QED
  BY <1>2

\* Users and roles as they are, and nobody who comes to a stage that matters.
LEMMA AdminsKept ==
  ASSUME AccountsTypes, AdminInv, UNCHANGED <<account, role, outcounted>>,
         NEW c \in Handlers, NEW step \in Stages, NEW j \in Tasks, MovesTo(c, step, j),
         step = "set up" => j.role = "superadmin",
         step \in {"count", "owned", "delete"} => role[j.user] = j.role,
         step = "create" => Admins # {},
         ~outcounted /\ step \in {"owned", "delete"} /\ j.role = "superadmin" =>
           \E a \in Admins : a # j.user
  PROVE  AdminInv'
<1>1. /\ stage'[c] = step /\ task'[c] = j
      /\ \A o \in Handlers : o # c => stage'[o] = stage[o] /\ task'[o] = task[o]
  BY MoveFacts DEF AccountsTypes
<1>2. Admins' = Admins /\ \A u \in Users : There(u)' = There(u)
  BY DEF Admins, There
<1>3. RolesKnown'
  BY <1>1 DEF AdminInv, RolesKnown
<1>4. ASSUME ~outcounted PROVE OneStays'
  <2>1. OneStays
    BY <1>4 DEF AdminInv
  <2>2. (\E u \in Users : There(u)') \/ (\E o \in Handlers : stage'[o] = "create") => Admins # {}
    <3>1. ASSUME NEW o \in Handlers, stage'[o] = "create" PROVE Admins # {}
      BY <1>1, <2>1, <3>1 DEF OneStays
    <3> QED
      BY <1>2, <2>1, <3>1 DEF OneStays
  <2>3. ASSUME NEW o \in Handlers, stage'[o] \in {"owned", "delete"}, task'[o].role = "superadmin"
        PROVE  \E a \in Admins : a # task'[o].user
    BY <1>1, <1>4, <2>1, <2>3 DEF OneStays
  <2> QED
    BY <1>2, <2>2, <2>3 DEF OneStays
<1> QED
  BY <1>3, <1>4 DEF AdminInv

LEMMA AdminAsk ==
  ASSUME AccountsTypes, AdminInv, NEW c \in Handlers, AskAccounts(c)
  PROVE  AdminInv'
<1> PICK step, j : /\ Take(c, step, j) /\ AskedFor(step, j)
                   /\ UNCHANGED <<suspensions, used, unraised, outcounted>>
  BY Asks
<1>1. step \in Stages /\ j \in Tasks /\ MovesTo(c, step, j)
  BY StepMoves DEF AskedFor, AccountsTypes
<1>2. UNCHANGED <<account, role, outcounted>>
  BY DEF Take, userTable
<1> QED
  BY <1>1, <1>2, AdminsKept DEF AskedFor

LEMMA AdminCreate ==
  ASSUME AccountsTypes, AdminInv, NEW c \in Handlers, CreateUser(c)
  PROVE  AdminInv'
<1> DEFINE u == task[c].user
<1>1. PICK step \in Stages, j \in Tasks : MovesTo(c, step, j)
  BY StepShape DEF AccountsTypes, HandlerStep
<1>2. /\ stage'[c] = step /\ task'[c] = j
      /\ \A o \in Handlers : o # c => stage'[o] = stage[o] /\ task'[o] = task[o]
  BY <1>1, MoveFacts DEF AccountsTypes
<1>3. step \in {"idle", "issue"} /\ outcounted' = outcounted
  BY <1>2 DEF CreateUser, InsertUser, Finishes, Proceed, observed, AccountsTypes, HandlerTypes
<1>4. CASE UNCHANGED userTable
  BY <1>1, <1>3, <1>4, AdminsKept DEF userTable
<1>5. CASE /\ account[u] = "none"
           /\ account' = [account EXCEPT ![u] = "there"]
           /\ role' = [role EXCEPT ![u] = task[c].role]
  <2>1. /\ u \in Users /\ \A v \in Users : v # u => account'[v] = account[v] /\ role'[v] = role[v]
        /\ account'[u] = "there" /\ role'[u] = task[c].role
    BY <1>5 DEF AccountsTypes, UserTypes, HandlerTypes, Fits, Within, CreateUser
  <2>2. Admins \subseteq Admins'
    BY <1>5, <2>1 DEF Admins, There
  <2>3. RolesKnown'
    <3>1. ASSUME NEW o \in Handlers, stage'[o] \in {"count", "owned", "delete"}
          PROVE  role'[task'[o].user] = task'[o].role
      <4>1. o # c /\ stage'[o] = stage[o] /\ task'[o] = task[o]
        BY <1>2, <1>3, <3>1
      <4>2. account[task[o].user] # "none" /\ task[o].user \in Users
        BY <3>1, <4>1 DEF AccountsTypes, HandlerTypes, Fits, Within
      <4>3. role'[task[o].user] = role[task[o].user]
        BY <1>5, <2>1, <4>2
      <4> QED
        BY <3>1, <4>1, <4>3 DEF AdminInv, RolesKnown
    <3> QED
      BY <1>2, <1>3, <3>1 DEF AdminInv, RolesKnown
  <2>4. ASSUME ~outcounted PROVE OneStays'
    <3>1. Admins' # {}
      <4>1. CASE stage[c] = "set up"
        <5>1. role'[u] = "superadmin"
          BY <2>1, <4>1 DEF AdminInv, RolesKnown
        <5> QED
          BY <2>1, <5>1 DEF Admins, There
      <4>2. CASE stage[c] = "create"
        BY <2>2, <2>4, <4>2 DEF AdminInv, OneStays
      <4> QED
        BY <4>1, <4>2 DEF CreateUser
    <3>2. ASSUME NEW o \in Handlers, stage'[o] \in {"owned", "delete"}, task'[o].role = "superadmin"
          PROVE  \E a \in Admins' : a # task'[o].user
      <4>1. o # c /\ stage'[o] = stage[o] /\ task'[o] = task[o]
        BY <1>2, <1>3, <3>2
      <4> QED
        BY <2>2, <2>4, <3>2, <4>1 DEF AdminInv, OneStays
    <3> QED
      BY <3>1, <3>2 DEF OneStays
  <2> QED
    BY <1>3, <2>3, <2>4 DEF AdminInv
<1> QED
  BY <1>4, <1>5 DEF CreateUser, InsertUser

LEMMA AdminDelete ==
  ASSUME AccountsTypes, AdminInv, NEW c \in Handlers, DeleteUser(c)
  PROVE  AdminInv'
<1> PICK k \in Tasks : k = task[c]
  BY DEF AccountsTypes, HandlerTypes
<1> DEFINE u == k.user
<1>1. CASE /\ stage[c] \in {"count", "owned"} /\ UNCHANGED <<account, role, outcounted>>
           /\ MovesTo(c, "idle", NoTask)
  BY <1>1, NoTaskType, AdminsKept DEF Stages
<1>2. CASE /\ stage[c] = "count" /\ ~LastSuperadmin /\ UNCHANGED <<account, role, outcounted>>
           /\ MovesTo(c, "owned", k)
  <2>1. role[u] = k.role
    BY <1>2 DEF AdminInv, RolesKnown
  <2>2. \E a \in Admins : a # u
    BY <1>2, TwoAdmins
  <2> QED
    BY <1>2, <2>1, <2>2, AdminsKept DEF Stages
<1>3. CASE /\ stage[c] = "owned" /\ UNCHANGED <<account, role, outcounted>>
           /\ MovesTo(c, "delete", k)
  <2>1. role[u] = k.role
    BY <1>3 DEF AdminInv, RolesKnown
  <2>2. ~outcounted /\ k.role = "superadmin" => \E a \in Admins : a # u
    BY <1>3 DEF AdminInv, OneStays
  <2> QED
    BY <1>3, <2>1, <2>2, AdminsKept DEF Stages
<1>4. CASE /\ stage[c] = "delete" /\ MovesTo(c, "idle", NoTask)
           /\ account' = [account EXCEPT ![u] = "gone"] /\ role' = role
           /\ outcounted' = (outcounted \/ (k.role = "superadmin" /\ AnotherToGo(c)))
  <2>1. /\ stage'[c] = "idle" /\ task'[c] = NoTask
        /\ \A o \in Handlers : o # c => stage'[o] = stage[o] /\ task'[o] = task[o]
    BY <1>4, MoveFacts, NoTaskType DEF AccountsTypes, Stages
  <2>2. u \in Users /\ role[u] = k.role
    BY <1>4 DEF AccountsTypes, HandlerTypes, Fits, Within, AdminInv, RolesKnown
  <2>3. Admins' = Admins \ {u} /\ \A v \in Users : There(v)' => There(v)
    BY <1>4, <2>2 DEF Admins, There, AccountsTypes, UserTypes
  <2>4. RolesKnown'
    BY <1>4, <2>1 DEF AdminInv, RolesKnown
  <2>5. ASSUME ~outcounted' PROVE OneStays'
    <3>1. /\ ~outcounted /\ OneStays
          /\ k.role = "superadmin" => ~AnotherToGo(c)
      BY <1>4, <2>5 DEF AdminInv
    <3>2. CASE k.role # "superadmin"
      <4>1. Admins' = Admins
        BY <2>2, <2>3, <3>2 DEF Admins
      <4> QED
        BY <2>1, <2>3, <3>1, <4>1 DEF OneStays
    <3>3. CASE k.role = "superadmin"
      <4>1. Admins' # {}
        BY <1>4, <2>3, <3>1, <3>3 DEF OneStays
      <4>2. \A o \in Handlers : ~(stage'[o] \in {"owned", "delete"} /\ task'[o].role = "superadmin")
        BY <2>1, <3>1, <3>3 DEF AnotherToGo
      <4> QED
        BY <4>1, <4>2 DEF OneStays
    <3> QED
      BY <3>2, <3>3
  <2> QED
    BY <2>4, <2>5 DEF AdminInv
<1>5. /\ Finishes(c) => MovesTo(c, "idle", NoTask)
      /\ \A step : Proceed(c, step) => MovesTo(c, step, k)
  BY StepMoves DEF AccountsTypes
<1> QED
  BY <1>1, <1>2, <1>3, <1>4, <1>5 DEF DeleteUser, userTable, observed

LEMMA AdminStep ==
  ASSUME AccountsTypes, AdminInv, NEW c \in Handlers, HandlerStep(c)
  PROVE  AdminInv'
<1>1. CASE ~CreateUser(c) /\ ~DeleteUser(c)
  <2>1. UNCHANGED <<account, role, outcounted>>
    BY <1>1 DEF HandlerStep, Login, SecondStep, SetupIssues, KeepToken, DropToken, BurnToken,
       SetPassword, SetStatus, RaiseVersion, userTable, observed
  <2>2. stage[c] \notin {"set up", "create", "count", "owned", "delete"}
    BY <1>1 DEF HandlerStep, Login, SecondStep, SetupIssues, KeepToken, DropToken, BurnToken,
       SetPassword, SetStatus, RaiseVersion
  <2>3. PICK step \in {"idle", "set password", "bump"}, j \in Tasks : MovesTo(c, step, j)
    BY <1>1, <2>2, StepShape DEF Onward, AccountsTypes
  <2> QED
    BY <2>1, <2>3, AdminsKept DEF Stages
<1> QED
  BY <1>1, AdminCreate, AdminDelete

LEMMA AdminNext ==
  ASSUME AccountsTypes, AdminInv, [AccountsNext]_accountsVars
  PROVE  AdminInv'
<1>1. CASE Restart
  BY <1>1 DEF Restart, userTable, AdminInv, RolesKnown, OneStays, Admins, There
<1>2. ASSUME UNCHANGED <<account, role, outcounted, stage, task>> PROVE AdminInv'
  <2>1. Admins' = Admins /\ \A u : There(u)' <=> There(u)
    BY <1>2 DEF Admins, There
  <2>2. RolesKnown' <=> RolesKnown
    BY <1>2 DEF RolesKnown
  <2>3. OneStays' <=> OneStays
    BY <1>2, <2>1 DEF OneStays
  <2> QED
    BY <1>2, <2>2, <2>3 DEF AdminInv
<1>3. ASSUME NEW u \in Users, SecondFactorChanges(u) PROVE AdminInv'
  BY <1>2, <1>3 DEF SecondFactorChanges, observed
<1>4. ASSUME NEW t \in Tokens, HourOver(t) PROVE AdminInv'
  BY <1>2, <1>4 DEF HourOver, observed, userTable
<1>5. CASE UNCHANGED accountsVars
  BY <1>2, <1>5 DEF accountsVars
<1> QED
  BY <1>1, <1>3, <1>4, <1>5, AdminAsk, AdminStep DEF AccountsNext

\* Where there are users there is a superadmin, unless two deletions of superadmins were
\* past their count at once: a deletion that is past it leaves the one that it did not
\* mean, and a creation in progress was asked for by one that cannot delete himself.
THEOREM KeepsSuperadminHolds == AccountsSpec => []KeepsSuperadmin
<1>1. AccountsInit => AccountsTypes /\ AdminInv
  BY AccountsTypesInit, AdminInit
<1>2. AccountsTypes /\ AdminInv /\ [AccountsNext]_accountsVars => (AccountsTypes /\ AdminInv)'
  BY AccountsTypesNext, AdminNext
<1>3. AccountsTypes /\ AdminInv => KeepsSuperadmin
  BY DEF AdminInv, OneStays, KeepsSuperadmin
<1> QED
  BY <1>1, <1>2, <1>3, PTL DEF AccountsSpec

-----------------------------------------------------------------------------
(* One handler at a time.                                                  *)

\* What calls are excused for that work at once, a handler that has none beside it is
\* not, whatever restarts come between.
OneHandler == \A c, o \in Handlers : c = o
Unexcused == disputed = {} /\ outcounted = FALSE

LEMMA UnexcusedNext ==
  ASSUME OneHandler, Unexcused, [AccountsNext]_accountsVars
  PROVE  Unexcused'
<1>1. ASSUME NEW c \in Handlers PROVE Handlers \ {c} = {}
  BY DEF OneHandler
<1>2. ASSUME NEW c \in Handlers, AskAccounts(c) PROVE Unexcused'
  BY <1>1, <1>2 DEF AskAccounts, observed, Unexcused
<1>3. ASSUME NEW c \in Handlers, HandlerStep(c) PROVE Unexcused'
  <2>1. CASE DeleteUser(c)
    BY <1>1, <2>1 DEF DeleteUser, AnotherToGo, observed, Unexcused
  <2>2. CASE ~DeleteUser(c)
    BY <1>3, <2>2 DEF HandlerStep, CreateUser, Login, SecondStep, SetupIssues, KeepToken, DropToken,
       BurnToken, SetPassword, SetStatus, RaiseVersion, observed, Unexcused
  <2> QED
    BY <2>1, <2>2
<1>4. CASE Restart \/ UNCHANGED accountsVars
  BY <1>4 DEF Restart, accountsVars, Unexcused
<1>5. ASSUME NEW u \in Users, SecondFactorChanges(u) PROVE Unexcused'
  BY <1>5 DEF SecondFactorChanges, observed, Unexcused
<1>6. ASSUME NEW t \in Tokens, HourOver(t) PROVE Unexcused'
  BY <1>6 DEF HourOver, observed, Unexcused
<1> QED
  BY <1>2, <1>3, <1>4, <1>5, <1>6 DEF AccountsNext

LEMMA UnexcusedAlways == ASSUME OneHandler PROVE AccountsSpec => []Unexcused
<1>1. AccountsInit => Unexcused
  BY DEF AccountsInit, Unexcused
<1>2. Unexcused /\ [AccountsNext]_accountsVars => Unexcused'
  BY UnexcusedNext
<1> QED
  BY <1>1, <1>2, PTL DEF AccountsSpec

\* One after the other, handlers use a reset token once, whichever it is and wherever
\* the panel is restarted: handleReset burns it before it sets the password.
THEOREM OneHandlerResetsOnce ==
  ASSUME OneHandler
  PROVE  AccountsSpec => [](\A t \in Tokens : used[t] <= 1)
<1>1. ResetsOnce /\ Unexcused => \A t \in Tokens : used[t] <= 1
  BY DEF ResetsOnce, Unexcused
<1> QED
  BY <1>1, ResetsOnceHolds, UnexcusedAlways, PTL

\* One after the other, handlers leave a superadmin as long as there are users.
THEOREM OneHandlerKeepsSuperadmin ==
  ASSUME OneHandler
  PROVE  AccountsSpec => []((\E u \in Users : There(u)) => Admins # {})
<1>1. KeepsSuperadmin /\ Unexcused => ((\E u \in Users : There(u)) => Admins # {})
  BY DEF KeepsSuperadmin, Unexcused
<1> QED
  BY <1>1, KeepsSuperadminHolds, UnexcusedAlways, PTL

-----------------------------------------------------------------------------
(* The second factor.                                                      *)

USE SecondFactorAssumption

Steps == {"idle", "generate", "prove", "enable", "issue", "keep", "spend", "redeem", "disable"}

Jobs(m) == [secret : 0 .. m, step : Times, code : Codes \cup {NoCode}]

Occupied(f, steps) == {c \in Callers : f[c] \in steps}

-----------------------------------------------------------------------------
(* Types.                                                                  *)

RowTypes ==
  /\ made \in Nat /\ batches \in Nat
  /\ secret \in 0 .. made /\ lastStep \in Times /\ proven \in 0 .. made
  /\ requests \in 0 .. MaxRequests /\ reboots \in 0 .. MaxReboots /\ now \in 2 .. MaxTime
  /\ uses \in [Times -> Nat] /\ spent \in [Codes -> Nat]

CallerTypes == at \in [Callers -> Steps] /\ job \in [Callers -> Jobs(made)]

CodeTypes ==
  /\ codes \subseteq [batch : 1 .. batches, slot : Slots, used : BOOLEAN]
  /\ \A r, s \in codes : r.batch = s.batch /\ (r.slot = s.slot => r = s)

\* A secret and a batch are paid for by the request that makes them.
CountInv ==
  /\ IsFiniteSet(Occupied(at, {"generate"})) /\ IsFiniteSet(Occupied(at, Verifying))
  /\ made + Cardinality(Occupied(at, {"generate"})) <= requests
  /\ batches + Cardinality(Occupied(at, Verifying)) <= requests

\* A code that is being spent is one that was given out.
SpendInv ==
  /\ \A c \in Callers : at[c] \in {"spend", "redeem"} =>
       job[c].code \in Codes /\ job[c].code.batch <= batches
  /\ \A k \in Codes : k.batch > batches => spent[k] = 0
  /\ \A r \in codes : spent[Code(r)] > 0 => r.used

Flag == enabled \in BOOLEAN

Types == RowTypes /\ CallerTypes /\ CodeTypes /\ CountInv /\ SpendInv /\ Flag

LEMMA CountMoves ==
  ASSUME NEW f \in [Callers -> Steps], NEW g, NEW steps, IsFiniteSet(Occupied(f, steps)),
         NEW c \in Callers, NEW step, g = [f EXCEPT ![c] = step]
  PROVE  /\ IsFiniteSet(Occupied(g, steps))
         /\ Cardinality(Occupied(f, steps)) \in Nat /\ Cardinality(Occupied(g, steps)) \in Nat
         /\ Cardinality(Occupied(g, steps)) <= Cardinality(Occupied(f, steps)) + 1
         /\ step \notin steps => Cardinality(Occupied(g, steps)) <= Cardinality(Occupied(f, steps))
         /\ f[c] \in steps =>
              Cardinality(Occupied(g, steps)) <= Cardinality(Occupied(f, steps))
         /\ f[c] \in steps /\ step \notin steps =>
              Cardinality(Occupied(g, steps)) + 1 <= Cardinality(Occupied(f, steps))
<1> DEFINE before == Occupied(f, steps)
           after == Occupied(g, steps)
<1>1. \A o \in Callers : g[o] = IF o = c THEN step ELSE f[o]
  OBVIOUS
<1>4. IsFiniteSet(before) /\ (f[c] \in steps <=> c \in before)
  BY DEF Occupied
<1>2. CASE step \in steps
  <2>1. after = before \cup {c}
    BY <1>1, <1>2 DEF Occupied
  <2> HIDE DEF before, after
  <2>2. /\ IsFiniteSet(after) /\ Cardinality(before) \in Nat
        /\ Cardinality(after) = IF c \in before THEN Cardinality(before) ELSE Cardinality(before) + 1
    BY <1>4, <2>1, FS_AddElement, FS_CardinalityType
  <2> QED
    BY <1>2, <1>4, <2>1, <2>2 DEF before, after
<1>3. CASE step \notin steps
  <2>1. after = before \ {c}
    BY <1>1, <1>3 DEF Occupied
  <2> HIDE DEF before, after
  <2>2. /\ IsFiniteSet(after) /\ Cardinality(before) \in Nat /\ Cardinality(after) \in Nat
        /\ Cardinality(after) = IF c \in before THEN Cardinality(before) - 1 ELSE Cardinality(before)
    BY <1>4, <2>1, FS_RemoveElement, FS_CardinalityType
  <2> QED
    BY <1>3, <1>4, <2>1, <2>2 DEF before, after
<1> QED
  BY <1>2, <1>3

LEMMA TypesAreTypeOK == Types => TypeOK
<1> SUFFICES ASSUME Types PROVE TypeOK
  OBVIOUS
<1>1. made <= requests /\ batches <= requests
  <2>1. /\ Cardinality(Occupied(at, {"generate"})) \in Nat
        /\ Cardinality(Occupied(at, Verifying)) \in Nat
    BY FS_CardinalityType DEF Types, CountInv
  <2> QED
    BY <2>1 DEF Types, CountInv, RowTypes
<1>2. /\ secret \in 0 .. made /\ lastStep \in Times /\ codes \subseteq Rows
      /\ proven \in 0 .. made /\ now \in 2 .. MaxTime
      /\ requests \in 0 .. MaxRequests /\ reboots \in 0 .. MaxReboots
  BY DEF Types, RowTypes, CodeTypes, Rows
<1>3. /\ \A r, s \in codes : r.batch = s.batch /\ (r.slot = s.slot => r = s)
      /\ \A r \in codes : spent[Code(r)] > 0 => r.used
  BY DEF Types, CodeTypes, SpendInv
<1>4. /\ at \in [Callers -> Steps]
      /\ \A c \in Callers : job[c].secret \in 0 .. made /\ job[c].step \in Times
  BY DEF Types, CallerTypes, Jobs
<1>5. enabled \in BOOLEAN
  BY DEF Types, Flag
<1> QED
  BY <1>1, <1>2, <1>3, <1>4, <1>5, Zenon DEF TypeOK, Steps

-----------------------------------------------------------------------------
(* Steps fit.                                                              *)

LEMMA CountGoes ==
  ASSUME Types, NEW c \in Callers, NEW step, at' = [at EXCEPT ![c] = step],
         made' \in Nat, batches' \in Nat, requests' \in Nat,
         \/ made' = made /\ requests' = requests + 1
         \/ made' = made /\ requests' = requests /\ step # "generate"
         \/ made' = made + 1 /\ requests' = requests /\ step # "generate" /\ at[c] = "generate",
         \/ batches' = batches /\ requests' = requests + 1
         \/ batches' = batches /\ requests' = requests /\ step \notin Verifying
         \/ batches' = batches /\ requests' = requests /\ at[c] \in Verifying
         \/ /\ batches' = batches + 1 /\ requests' = requests
            /\ step \notin Verifying /\ at[c] \in Verifying
  PROVE  CountInv'
<1> DEFINE gen == Occupied(at, {"generate"})
           gen2 == Occupied(at', {"generate"})
           ver == Occupied(at, Verifying)
           ver2 == Occupied(at', Verifying)
<1>1. at \in [Callers -> Steps]
  BY DEF Types, CallerTypes
<1>2. /\ IsFiniteSet(gen) /\ IsFiniteSet(ver)
      /\ made + Cardinality(gen) <= requests /\ batches + Cardinality(ver) <= requests
  BY DEF Types, CountInv
<1>3. made \in Nat /\ batches \in Nat /\ requests \in Nat
  BY DEF Types, RowTypes
<1>4. /\ IsFiniteSet(gen2)
      /\ Cardinality(gen) \in Nat /\ Cardinality(gen2) \in Nat
      /\ Cardinality(gen2) <= Cardinality(gen) + 1
      /\ step # "generate" => Cardinality(gen2) <= Cardinality(gen)
      /\ at[c] = "generate" /\ step # "generate" => Cardinality(gen2) + 1 <= Cardinality(gen)
  BY <1>1, <1>2, CountMoves
<1>5. /\ IsFiniteSet(ver2)
      /\ Cardinality(ver) \in Nat /\ Cardinality(ver2) \in Nat
      /\ Cardinality(ver2) <= Cardinality(ver) + 1
      /\ step \notin Verifying => Cardinality(ver2) <= Cardinality(ver)
      /\ at[c] \in Verifying => Cardinality(ver2) <= Cardinality(ver)
      /\ at[c] \in Verifying /\ step \notin Verifying => Cardinality(ver2) + 1 <= Cardinality(ver)
  BY <1>1, <1>2, CountMoves
<1> HIDE DEF gen, gen2, ver, ver2
<1>6. made' + Cardinality(gen2) <= requests'
  BY <1>2, <1>3, <1>4
<1>7. batches' + Cardinality(ver2) <= requests'
  BY <1>2, <1>3, <1>5
<1> QED
  BY <1>4, <1>5, <1>6, <1>7 DEF CountInv, gen2, ver2

\* A step that leaves the codes alone, makes neither secret nor batch, and may be the
\* beginning of a request.
LEMMA PlainTypes ==
  ASSUME Types, NEW c \in Callers, NEW step \in Steps, NEW j \in Jobs(made),
         at' = [at EXCEPT ![c] = step], job' = [job EXCEPT ![c] = j],
         made' = made, batches' = batches, codes' = codes, spent' = spent,
         \/ requests' = requests + 1 /\ requests < MaxRequests
         \/ /\ requests' = requests /\ step # "generate"
            /\ step \in Verifying => at[c] \in Verifying,
         step \in {"spend", "redeem"} => j.code \in Codes /\ j.code.batch <= batches,
         secret' \in 0 .. made, lastStep' \in Times, proven' \in 0 .. made,
         uses' \in [Times -> Nat], UNCHANGED clock, Flag'
  PROVE  Types'
<1>1. RowTypes'
  BY DEF Types, RowTypes, clock
<1>2. /\ CallerTypes'
      /\ \A o \in Callers : /\ at'[o] = (IF o = c THEN step ELSE at[o])
                           /\ job'[o] = (IF o = c THEN j ELSE job[o])
  <2>1. at \in [Callers -> Steps] /\ job \in [Callers -> Jobs(made)]
    BY DEF Types, CallerTypes
  <2> QED
    BY <2>1 DEF CallerTypes
<1>3. CountInv'
  <2>1. made' \in Nat /\ batches' \in Nat /\ requests' \in Nat
    BY <1>1 DEF RowTypes
  <2>2. requests' = requests + 1 \/ (requests' = requests /\ step # "generate")
    OBVIOUS
  <2>3. \/ requests' = requests + 1
        \/ requests' = requests /\ step \notin Verifying
        \/ requests' = requests /\ at[c] \in Verifying
    OBVIOUS
  <2> QED
    BY <2>1, <2>2, <2>3, CountGoes
<1>4. CodeTypes'
  BY DEF Types, CodeTypes
<1>5. SpendInv'
  BY <1>2 DEF Types, SpendInv, Code
<1> QED
  BY <1>1, <1>2, <1>3, <1>4, <1>5 DEF Types

LEMMA NoJobFits == ASSUME NEW m \in Nat PROVE NoJob \in Jobs(m)
<1>1. 0 \in Times /\ 0 \in 0 .. m
  BY DEF Times
<1> QED
  BY <1>1 DEF NoJob, Jobs

\* What a request begins with.
LEMMA JobsFit ==
  ASSUME Types
  PROVE  /\ NoJob \in Jobs(made)
         /\ \A s \in Shown :
              /\ [NoJob EXCEPT !.secret = secret, !.step = s] \in Jobs(made)
              /\ [NoJob EXCEPT !.secret = secret, !.step = s].secret = secret
              /\ [NoJob EXCEPT !.secret = secret, !.step = s].step = s
              /\ [NoJob EXCEPT !.secret = secret, !.step = s].code = NoCode
         /\ \A r \in codes :
              /\ [NoJob EXCEPT !.code = Code(r)] \in Jobs(made)
              /\ [NoJob EXCEPT !.code = Code(r)].code = Code(r)
              /\ Code(r) \in Codes /\ Code(r).batch <= batches
<1>1. made \in Nat /\ secret \in 0 .. made /\ batches \in Nat /\ batches <= MaxRequests
  <2>1. made \in Nat /\ secret \in 0 .. made /\ batches \in Nat /\ requests \in 0 .. MaxRequests
    BY DEF Types, RowTypes
  <2>2. Cardinality(Occupied(at, Verifying)) \in Nat
    BY FS_CardinalityType DEF Types, CountInv
  <2>3. batches + Cardinality(Occupied(at, Verifying)) <= requests
    BY DEF Types, CountInv
  <2> QED
    BY <2>1, <2>2, <2>3
<1>2. NoJob \in Jobs(made)
  BY <1>1, NoJobFits
<1>3. \A s \in Shown : s \in Times
  BY DEF Shown
<1>4. ASSUME NEW r \in codes PROVE Code(r) \in Codes /\ Code(r).batch <= batches
  BY <1>1 DEF Types, CodeTypes, Code, Codes
<1>5. ASSUME NEW s \in Shown
      PROVE  /\ [NoJob EXCEPT !.secret = secret, !.step = s] \in Jobs(made)
             /\ [NoJob EXCEPT !.secret = secret, !.step = s].secret = secret
             /\ [NoJob EXCEPT !.secret = secret, !.step = s].step = s
             /\ [NoJob EXCEPT !.secret = secret, !.step = s].code = NoCode
  BY <1>1, <1>2, <1>3 DEF Jobs, NoJob
<1>6. ASSUME NEW r \in codes
      PROVE  /\ [NoJob EXCEPT !.code = Code(r)] \in Jobs(made)
             /\ [NoJob EXCEPT !.code = Code(r)].code = Code(r)
  BY <1>2, <1>4 DEF Jobs, NoJob
<1> QED
  BY <1>2, <1>4, <1>5, <1>6

\* What a request is to do, and what was looked at first.
Begun(c, step, j) ==
  /\ Begin(c, step, j)
  /\ step \in {"generate", "prove", "keep", "spend", "redeem", "disable"}
  /\ j \in Jobs(made)
  /\ step = "generate" => ~enabled
  /\ step \in {"prove", "keep"} => j.secret = secret /\ secret # 0
  /\ step = "keep" => lastStep < j.step
  /\ step \in {"spend", "redeem"} =>
       j.code \in Codes /\ j.code.batch <= batches /\ spent[j.code] = 0

LEMMA AskMeans ==
  ASSUME Types, NEW c \in Callers, Ask(c)
  PROVE  \E step \in Steps, j \in Jobs(made) : Begun(c, step, j)
<1>2. CASE AskSetup(c)
  <2>1. Begun(c, "generate", NoJob) /\ NoJob \in Jobs(made) /\ "generate" \in Steps
    BY <1>2, JobsFit DEF AskSetup, Begun, Steps
  <2> QED
    BY <2>1
<1>3. CASE AskVerify(c)
  <2> DEFINE j(s) == [NoJob EXCEPT !.secret = secret, !.step = s]
  <2>1. PICK s \in Shown : Begin(c, "prove", j(s)) /\ secret # 0
    BY <1>3 DEF AskVerify
  <2>2. j(s) \in Jobs(made) /\ j(s).secret = secret /\ "prove" \in Steps
    BY JobsFit DEF Steps
  <2> HIDE DEF j
  <2>3. Begun(c, "prove", j(s))
    BY <2>1, <2>2 DEF Begun
  <2> QED
    BY <2>2, <2>3
<1>4. ASSUME NEW withStep \in {"keep", "disable"}, NEW withCode \in {"spend", "redeem"},
             AskWithCode(c, withStep, withCode)
      PROVE  \E step \in Steps, j \in Jobs(made) : Begun(c, step, j)
  <2> DEFINE j(s) == [NoJob EXCEPT !.secret = secret, !.step = s]
             k(r) == [NoJob EXCEPT !.code = Code(r)]
  <2>1. CASE secret # 0 /\ \E s \in Shown : NewStep(s) /\ Begin(c, withStep, j(s))
    <3>1. PICK s \in Shown : NewStep(s) /\ Begin(c, withStep, j(s))
      BY <2>1
    <3>2. /\ j(s) \in Jobs(made) /\ j(s).secret = secret /\ j(s).step = s
          /\ withStep \in Steps /\ lastStep < s
      <4>1. lastStep \in Nat /\ s \in Nat /\ s > lastStep
        BY <3>1 DEF NewStep, Types, RowTypes, Shown, Times
      <4> QED
        BY <4>1, JobsFit DEF Steps
    <3> HIDE DEF j
    <3>3. Begun(c, withStep, j(s))
      BY <2>1, <3>1, <3>2 DEF Begun
    <3> QED
      BY <3>2, <3>3
  <2>2. CASE \E r \in codes : Unused(r) /\ Begin(c, withCode, k(r))
    <3>1. PICK r \in codes : Unused(r) /\ Begin(c, withCode, k(r))
      BY <2>2
    <3>2. /\ k(r).code = Code(r) /\ k(r) \in Jobs(made) /\ withCode \in Steps
          /\ Code(r) \in Codes /\ Code(r).batch <= batches
      BY JobsFit DEF Steps
    <3>3. spent[Code(r)] = 0
      <4>1. ~r.used
        BY <3>1 DEF Unused
      <4>2. ~(spent[Code(r)] > 0)
        BY <4>1 DEF Types, SpendInv
      <4> QED
        BY <3>2, <4>2 DEF Types, RowTypes
    <3> HIDE DEF k
    <3>4. Begun(c, withCode, k(r))
      BY <3>1, <3>2, <3>3 DEF Begun
    <3> QED
      BY <3>2, <3>4
  <2>3. \/ secret # 0 /\ (\E s \in Shown : NewStep(s) /\ Begin(c, withStep, j(s)))
        \/ \E r \in codes : Unused(r) /\ Begin(c, withCode, k(r))
    BY <1>4 DEF AskWithCode
  <2> QED
    BY <2>1, <2>2, <2>3
<1> QED
  BY <1>2, <1>3, <1>4 DEF Ask

LEMMA AskTypes == ASSUME Types, NEW c \in Callers, Ask(c) PROVE Types'
<1>1. PICK step \in Steps, j \in Jobs(made) : Begun(c, step, j)
  BY AskMeans
<1>2. /\ at' = [at EXCEPT ![c] = step] /\ job' = [job EXCEPT ![c] = j]
      /\ UNCHANGED <<row, codes, made, batches, clock, proven, torn, uses, spent>>
      /\ requests' = requests + 1 /\ requests < MaxRequests
      /\ step \in {"spend", "redeem"} => j.code \in Codes /\ j.code.batch <= batches
  BY <1>1 DEF Begun, Begin
<1>3. /\ secret' \in 0 .. made /\ lastStep' \in Times /\ proven' \in 0 .. made
      /\ uses' \in [Times -> Nat]
  BY <1>2 DEF Types, RowTypes, row
<1>4. Flag'
  BY <1>2 DEF Types, Flag, row
<1> QED
  BY <1>2, <1>3, <1>4, PlainTypes

LEMMA SetMFASecretTypes == ASSUME Types, NEW c \in Callers, SetMFASecret(c) PROVE Types'
<1>1. /\ at[c] = "generate" /\ at' = [at EXCEPT ![c] = "idle"] /\ job' = [job EXCEPT ![c] = NoJob]
      /\ secret' = made + 1 /\ made' = made + 1 /\ requests' = requests
      /\ UNCHANGED <<clock, enabled, lastStep, codes, batches, history>>
  BY DEF SetMFASecret, Answers
<1>2. made \in Nat
  BY DEF Types, RowTypes
<1>3. RowTypes'
  BY <1>1, <1>2 DEF Types, RowTypes, clock, history
<1>4. /\ CallerTypes'
      /\ \A o \in Callers : /\ at'[o] = (IF o = c THEN "idle" ELSE at[o])
                           /\ job'[o] = (IF o = c THEN NoJob ELSE job[o])
  <2>1. NoJob \in Jobs(made') /\ "idle" \in Steps
    BY <1>1, <1>2, NoJobFits DEF Steps
  <2>2. at \in [Callers -> Steps] /\ job \in [Callers -> Jobs(made)]
    BY DEF Types, CallerTypes
  <2>3. Jobs(made) \subseteq Jobs(made')
    BY <1>1, <1>2 DEF Jobs
  <2> HIDE DEF Jobs
  <2> QED
    BY <1>1, <2>1, <2>2, <2>3 DEF CallerTypes
<1>5. CountInv'
  <2>1. made' \in Nat /\ batches' \in Nat /\ requests' \in Nat
    BY <1>3 DEF RowTypes
  <2> QED
    BY <1>1, <2>1, CountGoes DEF Verifying
<1>6. CodeTypes' /\ SpendInv'
  <2>1. UNCHANGED <<codes, batches, spent>>
    BY <1>1 DEF history
  <2> QED
    BY <1>4, <2>1 DEF Types, CodeTypes, SpendInv, Code
<1>7. Flag'
  BY <1>1 DEF Types, Flag
<1> QED
  BY <1>3, <1>4, <1>5, <1>6, <1>7 DEF Types

LEMMA ProveTypes == ASSUME Types, NEW c \in Callers, Prove(c) PROVE Types'
<1>1. /\ at[c] = "prove" /\ at' = [at EXCEPT ![c] = "enable"]
      /\ job' = job /\ requests' = requests /\ UNCHANGED clock
      /\ lastStep' = job[c].step /\ proven' = job[c].secret
      /\ uses' = [s \in Times |-> IF s = job[c].step THEN 1 ELSE 0]
      /\ UNCHANGED <<secret, enabled, codes, made, batches, torn, spent, overlapped, crossed,
                     contested>>
  BY DEF Prove, Goto
<1>2. /\ job[c] \in Jobs(made) /\ job' = [job EXCEPT ![c] = job[c]] /\ "enable" \in Steps
  BY <1>1 DEF Types, CallerTypes, Steps
<1>3. /\ secret' \in 0 .. made /\ lastStep' \in Times /\ proven' \in 0 .. made
      /\ uses' \in [Times -> Nat]
  BY <1>1, <1>2 DEF Types, RowTypes, Jobs
<1>4. Flag'
  BY <1>1 DEF Types, Flag
<1>5. "enable" \in Verifying => at[c] \in Verifying
  BY <1>1 DEF Verifying
<1> QED
  BY <1>1, <1>2, <1>3, <1>4, <1>5, PlainTypes

LEMMA EnableMFATypes == ASSUME Types, NEW c \in Callers, EnableMFA(c) PROVE Types'
<1>1. /\ at[c] = "enable" /\ at' = [at EXCEPT ![c] = "issue"]
      /\ job' = job /\ requests' = requests /\ UNCHANGED clock
      /\ UNCHANGED <<secret, lastStep, codes, made, batches, history>>
  BY DEF EnableMFA, Goto
<1>2. /\ job[c] \in Jobs(made) /\ job' = [job EXCEPT ![c] = job[c]] /\ "issue" \in Steps
  BY <1>1 DEF Types, CallerTypes, Steps
<1>3. /\ secret' \in 0 .. made /\ lastStep' \in Times /\ proven' \in 0 .. made
      /\ uses' \in [Times -> Nat] /\ spent' = spent
  BY <1>1 DEF Types, RowTypes, history
<1>4. Flag'
  BY Zenon DEF EnableMFA, Flag
<1>5. "issue" \in Verifying => at[c] \in Verifying
  BY <1>1 DEF Verifying
<1> QED
  BY <1>1, <1>2, <1>3, <1>4, <1>5, PlainTypes

LEMMA KeepStepTypes == ASSUME Types, NEW c \in Callers, KeepStep(c) PROVE Types'
<1>1. /\ at' = [at EXCEPT ![c] = "idle"] /\ job' = [job EXCEPT ![c] = NoJob]
      /\ requests' = requests /\ UNCHANGED clock
      /\ lastStep' = job[c].step
      /\ uses' = [s \in Times |-> IF s = job[c].step /\ job[c].secret = proven
                                    THEN uses[s] + 1 ELSE uses[s]]
      /\ UNCHANGED <<secret, enabled, codes, made, batches, proven, torn, spent, overlapped,
                     crossed, contested>>
  BY DEF KeepStep, Answers
<1>2. NoJob \in Jobs(made) /\ "idle" \in Steps /\ job[c] \in Jobs(made)
  BY JobsFit DEF Steps, Types, CallerTypes
<1>3. /\ secret' \in 0 .. made /\ lastStep' \in Times /\ proven' \in 0 .. made
      /\ uses' \in [Times -> Nat]
  BY <1>1, <1>2 DEF Types, RowTypes, Jobs
<1>4. Flag'
  BY <1>1 DEF Types, Flag
<1>5. "idle" \notin Verifying
  BY DEF Verifying
<1> QED
  BY <1>1, <1>2, <1>3, <1>4, <1>5, PlainTypes

LEMMA AddRecoveryCodesTypes ==
  ASSUME Types, NEW c \in Callers, AddRecoveryCodes(c) PROVE Types'
<1> DEFINE k == batches + 1
<1>1. /\ at[c] = "issue" /\ at' = [at EXCEPT ![c] = "idle"] /\ job' = [job EXCEPT ![c] = NoJob]
      /\ batches' = k /\ requests' = requests /\ UNCHANGED clock
      /\ codes' = [batch : {k}, slot : Slots, used : {FALSE}]
      /\ UNCHANGED <<row, made, proven, uses, spent, overlapped, crossed, contested>>
  BY DEF AddRecoveryCodes, Answers
<1>2. batches \in Nat /\ made \in Nat
  BY DEF Types, RowTypes
<1>3. RowTypes'
  BY <1>1, <1>2 DEF Types, RowTypes, row, clock
<1>4. /\ CallerTypes'
      /\ \A o \in Callers : /\ at'[o] = (IF o = c THEN "idle" ELSE at[o])
                           /\ job'[o] = (IF o = c THEN NoJob ELSE job[o])
  <2>1. NoJob \in Jobs(made) /\ "idle" \in Steps /\ made' = made
    BY <1>1, JobsFit DEF Steps
  <2>2. at \in [Callers -> Steps] /\ job \in [Callers -> Jobs(made)]
    BY DEF Types, CallerTypes
  <2> QED
    BY <1>1, <2>1, <2>2 DEF CallerTypes
<1>5. CountInv'
  <2>1. made' \in Nat /\ batches' \in Nat /\ requests' \in Nat
    BY <1>3 DEF RowTypes
  <2> QED
    BY <1>1, <2>1, CountGoes DEF Verifying
<1>6. CodeTypes'
  <2>1. {k} \subseteq 1 .. batches' /\ {FALSE} \subseteq BOOLEAN
    BY <1>1, <1>2
  <2>2. codes' \subseteq [batch : 1 .. batches', slot : Slots, used : BOOLEAN]
    <3> HIDE DEF k
    <3> QED
      BY <1>1, <2>1, Zenon
  <2>3. \A r, s \in codes' : r.batch = s.batch /\ (r.slot = s.slot => r = s)
    <3> HIDE DEF k
    <3>1. \A r \in codes' : r.batch = k /\ r.used = FALSE
      BY <1>1, Zenon
    <3> QED
      BY <2>2, <3>1
  <2> QED
    BY <2>2, <2>3 DEF CodeTypes
<1>7. SpendInv'
  <2>1. \A o \in Callers : at'[o] \in {"spend", "redeem"} =>
          job'[o].code \in Codes /\ job'[o].code.batch <= batches'
    <3>1. \A o \in Callers : at[o] \in {"spend", "redeem"} =>
            job[o].code \in Codes /\ job[o].code.batch <= batches
      BY DEF Types, SpendInv
    <3> QED
      BY <1>1, <1>2, <1>4, <3>1 DEF Codes
  <2>2. \A q \in Codes : q.batch > batches => spent[q] = 0
    BY DEF Types, SpendInv
  <2>3. \A q \in Codes : q.batch > batches' => spent'[q] = 0
    BY <1>1, <1>2, <2>2 DEF Codes
  <2>4. ASSUME NEW r \in codes' PROVE spent'[Code(r)] > 0 => r.used
    <3>1. batches' <= MaxRequests
      <4>1. /\ IsFiniteSet(Occupied(at', Verifying))
            /\ batches' + Cardinality(Occupied(at', Verifying)) <= requests'
            /\ requests' \in 0 .. MaxRequests
        BY <1>3, <1>5 DEF CountInv, RowTypes
      <4>2. Cardinality(Occupied(at', Verifying)) \in Nat
        BY <4>1, FS_CardinalityType
      <4> QED
        BY <1>1, <1>2, <4>1, <4>2
    <3>2. Code(r) \in Codes /\ Code(r).batch > batches
      BY <1>1, <1>2, <3>1 DEF Code, Codes
    <3> QED
      BY <1>1, <2>2, <3>2
  <2> QED
    BY <2>1, <2>3, <2>4 DEF SpendInv
<1>8. Flag'
  BY <1>1 DEF Types, Flag, row
<1> QED
  BY <1>3, <1>4, <1>5, <1>6, <1>7, <1>8 DEF Types

\* The rows once a code is used are the same rows, used or still used.
Marked(r, q, code) ==
  /\ r.batch = q.batch /\ r.slot = q.slot /\ Code(r) = Code(q)
  /\ r = [batch |-> q.batch, slot |-> q.slot, used |-> r.used]
  /\ r.used <=> (q.used \/ Code(q) = code)

LEMMA RowsSpent ==
  ASSUME NEW code, NEW n, codes \subseteq [batch : 1 .. n, slot : Slots, used : BOOLEAN]
  PROVE  /\ SpentCodes(code) \subseteq [batch : 1 .. n, slot : Slots, used : BOOLEAN]
         /\ \A r \in SpentCodes(code) : \E q \in codes : Marked(r, q, code)
<1> DEFINE R == [batch : 1 .. n, slot : Slots, used : BOOLEAN]
<1>1. ASSUME NEW q \in codes, NEW r, r = [q EXCEPT !.used = q.used \/ Code(q) = code]
      PROVE  /\ r \in R
             /\ r.batch = q.batch /\ r.slot = q.slot
             /\ r = [batch |-> q.batch, slot |-> q.slot, used |-> r.used]
             /\ r.used <=> (q.used \/ Code(q) = code)
  <2>1. q \in R
    OBVIOUS
  <2>2. (q.used \/ Code(q) = code) \in BOOLEAN
    BY Zenon
  <2> DEFINE u == (q.used \/ Code(q) = code)
  <2>3. u \in BOOLEAN /\ r = [q EXCEPT !.used = u]
    BY <1>1, <2>2
  <2>4. u <=> (q.used \/ Code(q) = code)
    OBVIOUS
  <2> HIDE DEF u
  <2>5. /\ r \in R /\ r.batch = q.batch /\ r.slot = q.slot
        /\ r = [batch |-> q.batch, slot |-> q.slot, used |-> r.used]
        /\ r.used = u
    BY <2>1, <2>3
  <2>6. r.used <=> (q.used \/ Code(q) = code)
    BY <2>4, <2>5, Zenon
  <2> QED
    BY <2>5, <2>6, Zenon
<1>2. ASSUME NEW r \in SpentCodes(code)
      PROVE  /\ r \in R
             /\ \E q \in codes : Marked(r, q, code)
  <2>1. PICK q \in codes : r = [q EXCEPT !.used = q.used \/ Code(q) = code]
    BY Zenon DEF SpentCodes
  <2>2. /\ r \in R
        /\ r.batch = q.batch /\ r.slot = q.slot
        /\ r = [batch |-> q.batch, slot |-> q.slot, used |-> r.used]
        /\ r.used <=> (q.used \/ Code(q) = code)
    BY <1>1, <2>1, Zenon
  <2>3. Code(r) = Code(q)
    BY <2>2, Zenon DEF Code
  <2> QED
    BY <2>2, <2>3, Zenon DEF Marked
<1> QED
  BY <1>2, Zenon

LEMMA SpendTypes == ASSUME Types, NEW c \in Callers, Spend(c) PROVE Types'
<1> DEFINE code == job[c].code
<1>1. /\ at[c] \in {"spend", "redeem"}
      /\ codes' = SpentCodes(code) /\ spent' = [spent EXCEPT ![code] = spent[code] + 1]
      /\ UNCHANGED <<row, made, batches, clock, requests, proven, torn, uses, overlapped,
                     crossed, contested>>
  BY DEF Spend, Answers, Goto, clock
<1>2. PICK step \in {"idle", "disable"}, j \in {NoJob, job[c]} :
        at' = [at EXCEPT ![c] = step] /\ job' = [job EXCEPT ![c] = j]
  <2>1. CASE at[c] = "spend"
    BY <2>1 DEF Spend, Answers, Goto
  <2>2. CASE at[c] = "redeem"
    <3>1. at' = [at EXCEPT ![c] = "disable"] /\ job' = job
      BY <2>2 DEF Spend, Answers, Goto
    <3>2. job = [job EXCEPT ![c] = job[c]]
      BY DEF Types, CallerTypes
    <3> QED
      BY <3>1, <3>2
  <2> QED
    BY <1>1, <2>1, <2>2
<1>3. code \in Codes /\ code.batch <= batches
  BY <1>1 DEF Types, SpendInv
<1> HIDE DEF code
<1>4. RowTypes'
  BY <1>1, <1>3 DEF Types, RowTypes, row, clock
<1>5. /\ CallerTypes'
      /\ \A o \in Callers : at'[o] = (IF o = c THEN step ELSE at[o])
      /\ \A o \in Callers \ {c} : job'[o] = job[o]
  <2>1. j \in Jobs(made) /\ step \in Steps /\ made' = made
    <3>1. NoJob \in Jobs(made) /\ job[c] \in Jobs(made)
      BY JobsFit DEF Types, CallerTypes
    <3> QED
      BY <1>1, <1>2, <3>1 DEF Steps
  <2>2. at \in [Callers -> Steps] /\ job \in [Callers -> Jobs(made)]
    BY DEF Types, CallerTypes
  <2> QED
    BY <1>2, <2>1, <2>2 DEF CallerTypes
<1>6. CountInv'
  <2>1. made' \in Nat /\ batches' \in Nat /\ requests' \in Nat
    BY <1>4 DEF RowTypes
  <2>2. step # "generate" /\ step \notin Verifying
    BY DEF Verifying
  <2> QED
    BY <1>1, <1>2, <2>1, <2>2, CountGoes
<1>7. codes \subseteq [batch : 1 .. batches, slot : Slots, used : BOOLEAN]
  BY DEF Types, CodeTypes
<1>8. /\ codes' \subseteq [batch : 1 .. batches, slot : Slots, used : BOOLEAN]
      /\ \A r \in codes' : \E q \in codes : Marked(r, q, code)
  <2>1. batches' = batches /\ codes' = SpentCodes(code)
    BY <1>1
  <2> QED
    BY <1>7, <2>1, RowsSpent, Zenon
<1>9. CodeTypes'
  <2>1. \A r, s \in codes : r.batch = s.batch /\ (r.slot = s.slot => r = s)
    BY DEF Types, CodeTypes
  <2>2. ASSUME NEW r \in codes', NEW s \in codes'
        PROVE  r.batch = s.batch /\ (r.slot = s.slot => r = s)
    <3>1. PICK q \in codes : Marked(r, q, code)
      BY <1>8, Zenon
    <3>2. PICK p \in codes : Marked(s, p, code)
      BY <1>8, Zenon
    <3>3. r.batch = s.batch
      BY <2>1, <3>1, <3>2 DEF Marked
    <3>4. ASSUME r.slot = s.slot PROVE r = s
      <4>1. q = p
        <5>1. q.slot = p.slot
          BY <3>1, <3>2, <3>4 DEF Marked
        <5> QED
          BY <2>1, <5>1
      <4>2. r.used \in BOOLEAN /\ s.used \in BOOLEAN
        BY <1>8
      <4>3. r.used <=> s.used
        BY <3>1, <3>2, <4>1, Zenon DEF Marked
      <4>4. r.used = s.used
        BY <4>2, <4>3
      <4> QED
        BY <3>1, <3>2, <4>1, <4>4, Zenon DEF Marked
    <3> QED
      BY <3>3, <3>4
  <2> QED
    BY <1>1, <1>8, <2>2 DEF CodeTypes
<1>10. SpendInv'
  <2>1. \A o \in Callers : at'[o] \in {"spend", "redeem"} =>
          job'[o].code \in Codes /\ job'[o].code.batch <= batches'
    BY <1>1, <1>5 DEF Types, SpendInv
  <2>2. spent \in [Codes -> Nat]
    BY DEF Types, RowTypes
  <2>3. \A q \in Codes : q.batch > batches' => spent'[q] = 0
    <3>1. batches \in Nat /\ batches' = batches
      BY <1>1 DEF Types, RowTypes
    <3>2. \A q \in Codes : q.batch > batches => spent[q] = 0 /\ q # code
      BY <1>3, <3>1 DEF Types, SpendInv, Codes
    <3> QED
      BY <1>1, <2>2, <3>1, <3>2
  <2>4. ASSUME NEW r \in codes' PROVE spent'[Code(r)] > 0 => r.used
    <3>0. PICK q \in codes : Marked(r, q, code)
      BY <1>8, Zenon
    <3>1. Code(r) = Code(q) /\ (r.used <=> (q.used \/ Code(q) = code))
      BY <3>0, Zenon DEF Marked
    <3>2. spent[Code(q)] > 0 => q.used
      BY DEF Types, SpendInv
    <3>3. Code(q) # code => spent'[Code(q)] = spent[Code(q)]
      <4>1. Code(q) \in Codes
        BY JobsFit
      <4> QED
        BY <1>1, <2>2, <4>1
    <3>4. CASE Code(q) = code
      BY <3>1, <3>4, Zenon
    <3>5. CASE Code(q) # code
      BY <3>1, <3>2, <3>3, <3>5
    <3> QED
      BY <3>4, <3>5
  <2> QED
    BY <2>1, <2>3, <2>4 DEF SpendInv
<1>11. Flag'
  BY <1>1 DEF Types, Flag, row
<1> QED
  BY <1>4, <1>5, <1>6, <1>9, <1>10, <1>11 DEF Types

LEMMA DisableMFATypes == ASSUME Types, NEW c \in Callers, DisableMFA(c) PROVE Types'
<1>1. /\ at' = [at EXCEPT ![c] = "idle"] /\ job' = [job EXCEPT ![c] = NoJob]
      /\ requests' = requests /\ UNCHANGED clock
      /\ secret' = 0 /\ enabled' = FALSE /\ lastStep' = 0 /\ codes' = {}
      /\ UNCHANGED <<made, batches, history>>
  BY DEF DisableMFA, Answers, TurnOff
<1>2. RowTypes'
  BY <1>1 DEF Types, RowTypes, clock, history, Times
<1>3. /\ CallerTypes'
      /\ \A o \in Callers : /\ at'[o] = (IF o = c THEN "idle" ELSE at[o])
                           /\ job'[o] = (IF o = c THEN NoJob ELSE job[o])
  <2>1. NoJob \in Jobs(made) /\ "idle" \in Steps /\ made' = made
    BY <1>1, JobsFit DEF Steps
  <2>2. at \in [Callers -> Steps] /\ job \in [Callers -> Jobs(made)]
    BY DEF Types, CallerTypes
  <2> QED
    BY <1>1, <2>1, <2>2 DEF CallerTypes
<1>4. CountInv'
  <2>1. made' \in Nat /\ batches' \in Nat /\ requests' \in Nat
    BY <1>2 DEF RowTypes
  <2> QED
    BY <1>1, <2>1, CountGoes DEF Verifying
<1>5. CodeTypes' /\ Flag'
  BY <1>1 DEF CodeTypes, Flag
<1>6. SpendInv'
  <2>1. codes' = {} /\ spent' = spent /\ batches' = batches
    BY <1>1 DEF history
  <2> QED
    BY <1>3, <2>1 DEF Types, SpendInv
<1> QED
  BY <1>2, <1>3, <1>4, <1>5, <1>6 DEF Types

LEMMA AdminMFAResetTypes == ASSUME Types, AdminMFAReset PROVE Types'
<1>1. /\ requests < MaxRequests /\ requests' = requests + 1
      /\ secret' = 0 /\ enabled' = FALSE /\ lastStep' = 0 /\ codes' = {}
      /\ UNCHANGED <<at, job, made, batches, clock, proven, torn, uses, spent, overlapped,
                     contested>>
  BY DEF AdminMFAReset, TurnOff
<1>2. RowTypes'
  BY <1>1 DEF Types, RowTypes, clock, Times
<1>3. CallerTypes' /\ CodeTypes' /\ SpendInv' /\ Flag'
  BY <1>1 DEF Types, CallerTypes, CodeTypes, SpendInv, Flag
<1>4. CountInv'
  <2>1. /\ IsFiniteSet(Occupied(at, {"generate"})) /\ IsFiniteSet(Occupied(at, Verifying))
        /\ made + Cardinality(Occupied(at, {"generate"})) <= requests
        /\ batches + Cardinality(Occupied(at, Verifying)) <= requests
        /\ made \in Nat /\ batches \in Nat /\ requests \in Nat
    BY DEF Types, CountInv, RowTypes
  <2>2. /\ Cardinality(Occupied(at, {"generate"})) \in Nat
        /\ Cardinality(Occupied(at, Verifying)) \in Nat
    BY <2>1, FS_CardinalityType
  <2> QED
    BY <1>1, <2>1, <2>2 DEF CountInv
<1> QED
  BY <1>2, <1>3, <1>4 DEF Types

LEMMA TickTypes == ASSUME Types, Tick PROVE Types'
<1>1. /\ now < MaxTime /\ now' = now + 1
      /\ UNCHANGED <<row, codes, at, job, made, batches, requests, reboots, history>>
  BY DEF Tick
<1>2. RowTypes'
  BY <1>1 DEF Types, RowTypes, row, history
<1>3. CallerTypes' /\ CodeTypes' /\ CountInv' /\ SpendInv' /\ Flag'
  BY <1>1 DEF Types, CallerTypes, CodeTypes, CountInv, SpendInv, Flag, row, history
<1> QED
  BY <1>2, <1>3 DEF Types

LEMMA NobodyAtWork ==
  ASSUME NEW f, f = [c \in Callers |-> "idle"], NEW steps, "idle" \notin steps
  PROVE  IsFiniteSet(Occupied(f, steps)) /\ Cardinality(Occupied(f, steps)) = 0
<1>1. Occupied(f, steps) = {}
  BY DEF Occupied
<1> QED
  BY <1>1, FS_EmptySet

LEMMA RebootTypes == ASSUME Types, Reboot PROVE Types'
<1>1. /\ reboots < MaxReboots /\ reboots' = reboots + 1
      /\ at' = [c \in Callers |-> "idle"] /\ job' = [c \in Callers |-> NoJob]
      /\ UNCHANGED <<row, codes, made, batches, now, requests, proven, uses, spent,
                     overlapped, crossed, contested>>
  BY DEF Reboot
<1>2. RowTypes'
  BY <1>1 DEF Types, RowTypes, row
<1>3. CallerTypes'
  <2>1. NoJob \in Jobs(made) /\ "idle" \in Steps /\ made' = made
    BY <1>1, JobsFit DEF Steps
  <2> QED
    BY <1>1, <2>1 DEF CallerTypes
<1>4. CodeTypes' /\ SpendInv' /\ Flag'
  BY <1>1 DEF Types, CodeTypes, SpendInv, Flag, row
<1>5. CountInv'
  <2>1. made + Cardinality(Occupied(at, {"generate"})) <= requests /\ made \in Nat
    BY DEF Types, CountInv, RowTypes
  <2>2. batches + Cardinality(Occupied(at, Verifying)) <= requests /\ batches \in Nat
    BY DEF Types, CountInv, RowTypes
  <2>3. /\ Cardinality(Occupied(at, {"generate"})) \in Nat
        /\ Cardinality(Occupied(at, Verifying)) \in Nat /\ requests \in Nat
    BY FS_CardinalityType DEF Types, CountInv, RowTypes
  <2>4. /\ IsFiniteSet(Occupied(at', {"generate"}))
        /\ Cardinality(Occupied(at', {"generate"})) = 0
    BY <1>1, NobodyAtWork
  <2>5. /\ IsFiniteSet(Occupied(at', Verifying))
        /\ Cardinality(Occupied(at', Verifying)) = 0
    <3>1. "idle" \notin Verifying
      BY DEF Verifying
    <3> QED
      BY <1>1, <3>1, NobodyAtWork
  <2> QED
    BY <1>1, <2>1, <2>2, <2>3, <2>4, <2>5 DEF CountInv
<1> QED
  BY <1>2, <1>3, <1>4, <1>5 DEF Types

LEMMA InitTypes == Init => Types
<1> SUFFICES ASSUME Init PROVE Types
  OBVIOUS
<1>1. /\ secret = 0 /\ enabled = FALSE /\ lastStep = 0 /\ codes = {}
      /\ at = [c \in Callers |-> "idle"] /\ job = [c \in Callers |-> NoJob]
      /\ made = 0 /\ batches = 0 /\ now = 2
      /\ requests = 0 /\ reboots = 0 /\ proven = 0
      /\ uses = [s \in Times |-> 0] /\ spent = [k \in Codes |-> 0]
  BY DEF Init
<1>2. RowTypes
  BY <1>1 DEF RowTypes, Times
<1>3. CallerTypes
  BY <1>1, NoJobFits DEF CallerTypes, Steps
<1>4. CodeTypes /\ SpendInv /\ Flag
  BY <1>1 DEF CodeTypes, SpendInv, Flag
<1>5. CountInv
  <2>1. /\ IsFiniteSet(Occupied(at, {"generate"})) /\ Cardinality(Occupied(at, {"generate"})) = 0
    BY <1>1, NobodyAtWork
  <2>2. /\ IsFiniteSet(Occupied(at, Verifying)) /\ Cardinality(Occupied(at, Verifying)) = 0
    <3>1. "idle" \notin Verifying
      BY DEF Verifying
    <3> QED
      BY <1>1, <3>1, NobodyAtWork
  <2> QED
    BY <1>1, <2>1, <2>2 DEF CountInv
<1> QED
  BY <1>2, <1>3, <1>4, <1>5 DEF Types

LEMMA StepTypes == Types /\ [Next]_secondFactorVars => Types'
<1> SUFFICES ASSUME Types, [Next]_secondFactorVars PROVE Types'
  OBVIOUS
<1>1. ASSUME NEW c \in Callers, Ask(c) PROVE Types'
  BY <1>1, AskTypes
<1>2. ASSUME NEW c \in Callers, CallerStep(c) PROVE Types'
  BY <1>2, SetMFASecretTypes, ProveTypes, EnableMFATypes, AddRecoveryCodesTypes, KeepStepTypes,
     SpendTypes, DisableMFATypes DEF CallerStep
<1>3. CASE AdminMFAReset
  BY <1>3, AdminMFAResetTypes
<1>4. CASE Tick
  BY <1>4, TickTypes
<1>5. CASE Reboot
  BY <1>5, RebootTypes
<1>6. CASE UNCHANGED secondFactorVars
  BY <1>6 DEF secondFactorVars, Types, RowTypes, CallerTypes, CodeTypes, CountInv, SpendInv, Flag
<1> QED
  BY <1>1, <1>2, <1>3, <1>4, <1>5, <1>6 DEF Next

\* Every variable keeps its type, and the rows are those of one batch, of which the
\* accepted are used: users.mfa_* and mfa_recovery_codes.
THEOREM TypeCorrect == Spec => []TypeOK
<1>1. Spec => []Types
  BY InitTypes, StepTypes, PTL DEF Spec
<1> QED
  BY <1>1, TypesAreTypeOK, PTL

-----------------------------------------------------------------------------
(* Recovery codes.                                                         *)

Spending == {"spend", "redeem"}

\* Two callers about to spend one code have contested it, and a code about to be
\* spent that is not contested is unspent.
RecoveryInv ==
  /\ \A c, o \in Callers : c # o /\ at[c] \in Spending /\ at[o] \in Spending
                             /\ job[c].code = job[o].code => job[c].code \in contested
  /\ \A c \in Callers : at[c] \in Spending => job[c].code \in contested \/ spent[job[c].code] = 0
  /\ RecoveryOnce

\* A step with which nobody comes to spend, and no code is spent.
LEMMA RecoveryRests ==
  ASSUME RecoveryInv, UNCHANGED <<spent, contested>>,
         \A o \in Callers : at'[o] \in Spending => at'[o] = at[o] /\ job'[o] = job[o]
  PROVE  RecoveryInv'
BY DEF RecoveryInv, RecoveryOnce

LEMMA AskRecovery == ASSUME Types, RecoveryInv, NEW c \in Callers, Ask(c) PROVE RecoveryInv'
<1>1. PICK step \in Steps, j \in Jobs(made) : Begun(c, step, j)
  BY AskMeans
<1>2. /\ at' = [at EXCEPT ![c] = step] /\ job' = [job EXCEPT ![c] = j]
      /\ spent' = spent
      /\ contested' = IF \E o \in Callers \ {c} : job[o].code = j.code /\ j.code # NoCode
                        THEN contested \cup {j.code} ELSE contested
      /\ step \in Spending => j.code \in Codes /\ spent[j.code] = 0
  BY <1>1 DEF Begun, Begin, Spending
<1>3. \A o \in Callers : /\ at'[o] = (IF o = c THEN step ELSE at[o])
                         /\ job'[o] = (IF o = c THEN j ELSE job[o])
  BY <1>2 DEF Types, CallerTypes
<1>4. contested \subseteq contested'
  BY <1>2
<1>5. ASSUME NEW o \in Callers \ {c}, step \in Spending, job[o].code = j.code
      PROVE  j.code \in contested'
  <2>1. j.code # NoCode
    BY <1>2, <1>5 DEF Codes, NoCode
  <2> QED
    BY <1>2, <1>5, <2>1
<1>6. ASSUME NEW d \in Callers, NEW o \in Callers, d # o, at'[d] \in Spending,
             at'[o] \in Spending, job'[d].code = job'[o].code
      PROVE  job'[d].code \in contested'
  BY <1>3, <1>4, <1>5, <1>6 DEF RecoveryInv
<1>7. ASSUME NEW d \in Callers, at'[d] \in Spending
      PROVE  job'[d].code \in contested' \/ spent'[job'[d].code] = 0
  BY <1>2, <1>3, <1>4, <1>7 DEF RecoveryInv
<1>8. RecoveryOnce'
  BY <1>2, <1>4 DEF RecoveryInv, RecoveryOnce
<1> QED
  BY <1>6, <1>7, <1>8 DEF RecoveryInv

LEMMA SpendRecovery == ASSUME Types, RecoveryInv, NEW c \in Callers, Spend(c) PROVE RecoveryInv'
<1> DEFINE code == job[c].code
<1>1. /\ at[c] \in Spending /\ contested' = contested
      /\ spent' = [spent EXCEPT ![code] = spent[code] + 1]
      /\ \A o \in Callers \ {c} : at'[o] = at[o] /\ job'[o] = job[o]
      /\ at'[c] \notin Spending
  <2>1. at \in [Callers -> Steps] /\ job \in [Callers -> Jobs(made)]
    BY DEF Types, CallerTypes
  <2> QED
    BY <2>1 DEF Spend, Answers, Goto, Spending
<1>2. code \in Codes /\ spent \in [Codes -> Nat]
  BY <1>1 DEF Types, SpendInv, RowTypes, Spending
<1>3. code \in contested \/ spent[code] = 0
  BY <1>1 DEF RecoveryInv
<1>4. \A o \in Callers \ {c} : at[o] \in Spending /\ job[o].code = code => code \in contested
  BY <1>1 DEF RecoveryInv
<1> HIDE DEF code
<1>5. \A k \in Codes : spent'[k] = IF k = code THEN spent[code] + 1 ELSE spent[k]
  BY <1>1, <1>2
<1>6. \A k \in Codes : k \notin contested => spent[k] <= 1
  BY DEF RecoveryInv, RecoveryOnce
<1>7. RecoveryOnce'
  BY <1>1, <1>2, <1>3, <1>5, <1>6 DEF RecoveryOnce
<1>8. ASSUME NEW o \in Callers, at'[o] \in Spending
      PROVE  job'[o].code \in contested' \/ spent'[job'[o].code] = 0
  <2>1. o # c /\ at[o] \in Spending /\ job'[o] = job[o]
    BY <1>1, <1>8
  <2>2. job[o].code \in Codes
    BY <2>1 DEF Types, SpendInv, Spending
  <2>3. job[o].code \in contested \/ spent[job[o].code] = 0
    BY <2>1 DEF RecoveryInv
  <2> QED
    BY <1>1, <1>4, <1>5, <2>1, <2>2, <2>3
<1>9. \A d, o \in Callers : d # o /\ at'[d] \in Spending /\ at'[o] \in Spending
                            /\ job'[d].code = job'[o].code => job'[d].code \in contested'
  BY <1>1 DEF RecoveryInv
<1> QED
  BY <1>7, <1>8, <1>9 DEF RecoveryInv

LEMMA StepRecovery ==
  ASSUME Types, RecoveryInv, [Next]_secondFactorVars PROVE RecoveryInv'
<1>1. ASSUME NEW c \in Callers, Ask(c) PROVE RecoveryInv'
  BY <1>1, AskRecovery
<1>2. ASSUME NEW c \in Callers, Spend(c) PROVE RecoveryInv'
  BY <1>2, SpendRecovery
<1>3. ASSUME NEW c \in Callers,
             SetMFASecret(c) \/ AddRecoveryCodes(c) \/ KeepStep(c) \/ DisableMFA(c)
      PROVE  RecoveryInv'
  <2>1. at' = [at EXCEPT ![c] = "idle"] /\ job' = [job EXCEPT ![c] = NoJob]
    BY <1>3 DEF SetMFASecret, AddRecoveryCodes, KeepStep, DisableMFA, Answers
  <2>2. UNCHANGED <<spent, contested>>
    BY <1>3 DEF SetMFASecret, AddRecoveryCodes, KeepStep, DisableMFA, history
  <2>3. \A o \in Callers : /\ at'[o] = (IF o = c THEN "idle" ELSE at[o])
                           /\ job'[o] = (IF o = c THEN NoJob ELSE job[o])
    BY <2>1 DEF Types, CallerTypes
  <2> QED
    BY <2>2, <2>3, RecoveryRests DEF Spending
<1>4. ASSUME NEW c \in Callers, Prove(c) \/ EnableMFA(c) PROVE RecoveryInv'
  <2>1. PICK step \in {"enable", "issue"} : at' = [at EXCEPT ![c] = step] /\ job' = job
    BY <1>4 DEF Prove, EnableMFA, Goto
  <2>2. UNCHANGED <<spent, contested>>
    BY <1>4 DEF Prove, EnableMFA, history
  <2>3. at \in [Callers -> Steps]
    BY DEF Types, CallerTypes
  <2>4. \A o \in Callers : at'[o] \in Spending => at'[o] = at[o] /\ job'[o] = job[o]
    BY <2>1, <2>3 DEF Spending
  <2> QED
    BY <2>2, <2>4, RecoveryRests
<1>5. CASE AdminMFAReset \/ Tick
  <2>1. UNCHANGED <<at, job, spent, contested>>
    BY <1>5 DEF AdminMFAReset, Tick, history
  <2> QED
    BY <2>1, RecoveryRests
<1>6. CASE Reboot
  <2>1. UNCHANGED <<spent, contested>> /\ at' = [c \in Callers |-> "idle"]
    BY <1>6 DEF Reboot
  <2> QED
    BY <2>1, RecoveryRests DEF Spending
<1>7. CASE UNCHANGED secondFactorVars
  <2>1. UNCHANGED <<at, job, spent, contested>>
    BY <1>7 DEF secondFactorVars
  <2> QED
    BY <2>1, RecoveryRests
<1> QED
  BY <1>1, <1>2, <1>3, <1>4, <1>5, <1>6, <1>7 DEF Next, CallerStep

\* A recovery code is accepted once unless two requests had it before them at the
\* same time: ConsumeRecoveryCode, mfa.go.
THEOREM RecoversOnce == Spec => []RecoveryOnce
<1>1. Init => RecoveryInv
  BY DEF Init, RecoveryInv, RecoveryOnce, Spending
<1>2. Types /\ RecoveryInv /\ [Next]_secondFactorVars => Types' /\ RecoveryInv'
  BY StepTypes, StepRecovery
<1>3. RecoveryInv => RecoveryOnce
  BY DEF RecoveryInv
<1> QED
  BY <1>1, <1>2, <1>3, InitTypes, PTL DEF Spec

-----------------------------------------------------------------------------
(* Time steps.                                                             *)

WithStep == Verifying \cup {"keep"}

\* While nobody overlapped, one caller at most works with a step; the steps in use are
\* up to the last one, and before the one about to be kept.
Alone == \A c, o \in Callers : at[c] \in WithStep /\ at[o] \in WithStep => c = o

UsedUpTo == secret = proven /\ secret # 0 => \A s \in Times : uses[s] > 0 => s <= lastStep

KeepsNew ==
  \A c \in Callers : at[c] = "keep" =>
    /\ job[c].secret = proven => \A s \in Times : uses[s] > 0 => s < job[c].step
    /\ secret = proven /\ secret # 0 => job[c].secret = secret

UsedOnce == \A s \in Times : uses[s] <= 1

StepInv == ~overlapped => Alone /\ UsedUpTo /\ KeepsNew /\ UsedOnce

\* A step that leaves the steps and their secret alone, and with which nobody comes
\* to work with one.
LEMMA StepsRest ==
  ASSUME StepInv, UNCHANGED <<overlapped, uses, proven, lastStep>>,
         secret' = secret \/ secret' # proven,
         \A o \in Callers : at'[o] \in WithStep => at[o] \in WithStep,
         \A o \in Callers : at'[o] = "keep" => at[o] = "keep" /\ job'[o] = job[o]
  PROVE  StepInv'
<1>1. Alone => Alone'
  BY DEF Alone
<1>2. UsedUpTo => UsedUpTo'
  BY DEF UsedUpTo
<1>3. KeepsNew => KeepsNew'
  BY DEF KeepsNew
<1>4. UsedOnce => UsedOnce'
  BY DEF UsedOnce
<1>5. ~overlapped' => ~overlapped
  OBVIOUS
<1> QED
  BY <1>1, <1>2, <1>3, <1>4, <1>5, Zenon DEF StepInv

LEMMA AskSteps == ASSUME Types, StepInv, NEW c \in Callers, Ask(c) PROVE StepInv'
<1>1. PICK step \in Steps, j \in Jobs(made) : Begun(c, step, j)
  BY AskMeans
<1>2. /\ at' = [at EXCEPT ![c] = step] /\ job' = [job EXCEPT ![c] = j]
      /\ at[c] = "idle"
      /\ UNCHANGED <<row, proven, uses>>
      /\ step \in {"generate", "prove", "keep", "spend", "redeem", "disable"}
      /\ step = "keep" => j.secret = secret /\ lastStep < j.step
  BY <1>1 DEF Begun, Begin
<1>3. \A o \in Callers : /\ at'[o] = (IF o = c THEN step ELSE at[o])
                         /\ job'[o] = (IF o = c THEN j ELSE job[o])
  BY <1>2 DEF Types, CallerTypes
<1>4. ~overlapped' => ~overlapped /\ (step \in {"prove", "keep"} => ~Working(c, WithStep))
  BY <1>1, Zenon DEF Begun, Begin, WithStep
<1> SUFFICES ASSUME ~overlapped' PROVE Alone' /\ UsedUpTo' /\ KeepsNew' /\ UsedOnce'
  BY Zenon DEF StepInv
<1>5. Alone /\ UsedUpTo /\ KeepsNew /\ UsedOnce
  BY <1>4, Zenon DEF StepInv
<1>6. Alone'
  <2>1. step \in WithStep => step \in {"prove", "keep"}
    BY <1>2 DEF WithStep, Verifying
  <2>2. step \in {"prove", "keep"} => \A o \in Callers \ {c} : at[o] \notin WithStep
    BY <1>4, Zenon DEF Working
  <2> HIDE DEF WithStep
  <2> QED
    BY <1>3, <1>5, <2>1, <2>2 DEF Alone
<1>7. UsedUpTo' /\ UsedOnce'
  BY <1>2, <1>5 DEF UsedUpTo, UsedOnce, row
<1>8. KeepsNew'
  <2>1. ASSUME step = "keep", j.secret = proven PROVE \A s \in Times : uses[s] > 0 => s < j.step
    <3>1. secret = proven /\ secret # 0
      BY <1>1, <1>2, <2>1 DEF Begun
    <3>2. \A s \in Times : uses[s] > 0 => s <= lastStep
      BY <1>5, <3>1 DEF UsedUpTo
    <3>3. lastStep \in Nat /\ j.step \in Nat /\ lastStep < j.step
      BY <1>2, <2>1 DEF Types, RowTypes, Times, Jobs
    <3> QED
      BY <3>2, <3>3 DEF Times
  <2>2. secret' = secret /\ proven' = proven /\ uses' = uses
    BY <1>2 DEF row
  <2> QED
    BY <1>2, <1>3, <1>5, <2>1, <2>2 DEF KeepsNew
<1> QED
  BY <1>6, <1>7, <1>8

LEMMA ProveSteps == ASSUME Types, StepInv, NEW c \in Callers, Prove(c) PROVE StepInv'
<1>1. /\ at[c] = "prove" /\ at' = [at EXCEPT ![c] = "enable"] /\ job' = job
      /\ lastStep' = job[c].step
      /\ uses' = [s \in Times |-> IF s = job[c].step THEN 1 ELSE 0]
      /\ overlapped' = overlapped
  BY DEF Prove, Goto
<1>2. \A o \in Callers : at'[o] = IF o = c THEN "enable" ELSE at[o]
  BY <1>1 DEF Types, CallerTypes
<1> SUFFICES ASSUME ~overlapped' PROVE Alone' /\ UsedUpTo' /\ KeepsNew' /\ UsedOnce'
  BY Zenon DEF StepInv
<1>3. Alone
  BY <1>1, Zenon DEF StepInv
<1>4. at[c] \in WithStep
  BY <1>1 DEF WithStep, Verifying
<1>5. Alone'
  BY <1>2, <1>3, <1>4 DEF Alone
<1>6. KeepsNew'
  <2>1. \A o \in Callers : at'[o] # "keep"
    BY <1>2, <1>3, <1>4 DEF Alone, WithStep
  <2> QED
    BY <2>1 DEF KeepsNew
<1>7. UsedUpTo' /\ UsedOnce'
  BY <1>1 DEF UsedUpTo, UsedOnce, Times
<1> QED
  BY <1>5, <1>6, <1>7

LEMMA KeepSteps == ASSUME Types, StepInv, NEW c \in Callers, KeepStep(c) PROVE StepInv'
<1>1. /\ at[c] = "keep" /\ at' = [at EXCEPT ![c] = "idle"] /\ job' = [job EXCEPT ![c] = NoJob]
      /\ lastStep' = job[c].step
      /\ uses' = [s \in Times |-> IF s = job[c].step /\ job[c].secret = proven
                                    THEN uses[s] + 1 ELSE uses[s]]
      /\ UNCHANGED <<secret, proven, overlapped>>
  BY DEF KeepStep, Answers
<1>2. \A o \in Callers : at'[o] = IF o = c THEN "idle" ELSE at[o]
  BY <1>1 DEF Types, CallerTypes
<1> SUFFICES ASSUME ~overlapped' PROVE Alone' /\ UsedUpTo' /\ KeepsNew' /\ UsedOnce'
  BY Zenon DEF StepInv
<1>3. Alone /\ UsedUpTo /\ KeepsNew /\ UsedOnce
  BY <1>1, Zenon DEF StepInv
<1>4. at[c] \in WithStep /\ "idle" \notin WithStep
  BY <1>1 DEF WithStep, Verifying
<1>5. Alone'
  BY <1>2, <1>3, <1>4 DEF Alone
<1>6. KeepsNew'
  <2>1. \A o \in Callers : at'[o] # "keep"
    BY <1>2, <1>3, <1>4 DEF Alone, WithStep
  <2> QED
    BY <2>1 DEF KeepsNew
<1> DEFINE step == job[c].step
           own == job[c].secret = proven
<1>7. uses \in [Times -> Nat] /\ step \in Times
  BY DEF Types, RowTypes, CallerTypes, Jobs
<1>8. own => \A s \in Times : uses[s] > 0 => s < step
  BY <1>1, <1>3 DEF KeepsNew
<1>9. secret = proven /\ secret # 0 => own
  BY <1>1, <1>3 DEF KeepsNew
<1>10. /\ lastStep' = step
       /\ uses' = [s \in Times |-> IF s = step /\ own THEN uses[s] + 1 ELSE uses[s]]
  BY <1>1
<1> HIDE DEF step, own
<1>11. \A s \in Times : s \in Nat
  BY DEF Times
<1>12. UsedOnce'
  BY <1>3, <1>7, <1>8, <1>10, <1>11 DEF UsedOnce
<1>13. own => \A s \in Times : uses'[s] > 0 => s <= step
  BY <1>7, <1>8, <1>10, <1>11
<1>14. UsedUpTo'
  BY <1>1, <1>9, <1>10, <1>13 DEF UsedUpTo
<1> QED
  BY <1>5, <1>6, <1>12, <1>14

\* A setup, the codes of a verification, a spent code and a disabling.
LEMMA OtherSteps ==
  ASSUME Types, StepInv, NEW c \in Callers,
         \/ SetMFASecret(c) \/ EnableMFA(c) \/ AddRecoveryCodes(c)
         \/ Spend(c)
  PROVE  StepInv'
<1>1. PICK step \in {"idle", "issue", "disable"} :
        at' = [at EXCEPT ![c] = step] /\ (step = "issue" => at[c] = "enable")
  BY DEF SetMFASecret, EnableMFA, AddRecoveryCodes, Spend, Answers, Goto
<1>2. job' = [job EXCEPT ![c] = NoJob] \/ job' = job
  BY DEF SetMFASecret, EnableMFA, AddRecoveryCodes, Spend, Answers, Goto
<1>3. at \in [Callers -> Steps] /\ job \in [Callers -> Jobs(made)]
  BY DEF Types, CallerTypes
<1>4. \A o \in Callers : at'[o] \in WithStep => at[o] \in WithStep
  BY <1>1, <1>3 DEF WithStep, Verifying
<1>5. \A o \in Callers : at'[o] = "keep" => at[o] = "keep" /\ job'[o] = job[o]
  BY <1>1, <1>2, <1>3
<1>6. UNCHANGED <<overlapped, uses, proven, lastStep>>
  BY DEF SetMFASecret, EnableMFA, AddRecoveryCodes, Spend, history, row
<1>7. secret' = secret \/ secret' # proven
  <2>1. CASE SetMFASecret(c)
    BY <2>1 DEF SetMFASecret, Types, RowTypes
  <2>2. CASE EnableMFA(c) \/ AddRecoveryCodes(c) \/ Spend(c)
    BY <2>2 DEF EnableMFA, AddRecoveryCodes, Spend, row
  <2> QED
    BY <2>1, <2>2
<1> QED
  BY <1>4, <1>5, <1>6, <1>7, StepsRest

\* Turning off takes the secret, so its steps are of no account.
LEMMA OffSteps ==
  ASSUME StepInv, TurnOff, UNCHANGED <<overlapped, uses, proven>>,
         \A o \in Callers : at'[o] \in WithStep => at[o] \in WithStep,
         \A o \in Callers : at'[o] = "keep" => at[o] = "keep" /\ job'[o] = job[o]
  PROVE  StepInv'
<1>1. secret' = 0
  BY DEF TurnOff
<1>2. Alone => Alone'
  BY DEF Alone
<1>3. UsedUpTo'
  BY <1>1 DEF UsedUpTo
<1>4. KeepsNew => KeepsNew'
  BY <1>1 DEF KeepsNew
<1>5. UsedOnce => UsedOnce'
  BY DEF UsedOnce
<1>6. ~overlapped' => ~overlapped
  OBVIOUS
<1> QED
  BY <1>2, <1>3, <1>4, <1>5, <1>6, Zenon DEF StepInv

LEMMA StepSteps == ASSUME Types, StepInv, [Next]_secondFactorVars PROVE StepInv'
<1>1. ASSUME NEW c \in Callers, Ask(c) PROVE StepInv'
  BY <1>1, AskSteps
<1>2. ASSUME NEW c \in Callers, Prove(c) \/ KeepStep(c) PROVE StepInv'
  BY <1>2, ProveSteps, KeepSteps
<1>3. ASSUME NEW c \in Callers,
             \/ SetMFASecret(c) \/ EnableMFA(c) \/ AddRecoveryCodes(c)
             \/ Spend(c)
      PROVE  StepInv'
  BY <1>3, OtherSteps
<1>4. ASSUME NEW c \in Callers, DisableMFA(c) PROVE StepInv'
  <2>1. /\ at' = [at EXCEPT ![c] = "idle"] /\ job' = [job EXCEPT ![c] = NoJob] /\ TurnOff
        /\ UNCHANGED <<overlapped, uses, proven>>
    BY <1>4 DEF DisableMFA, Answers, history
  <2>2. \A o \in Callers : /\ at'[o] = (IF o = c THEN "idle" ELSE at[o])
                           /\ job'[o] = (IF o = c THEN NoJob ELSE job[o])
    BY <2>1 DEF Types, CallerTypes
  <2>3. "idle" \notin WithStep
    BY DEF WithStep, Verifying
  <2>4. \A o \in Callers : at'[o] \in WithStep => at[o] \in WithStep
    BY <2>2, <2>3
  <2>5. \A o \in Callers : at'[o] = "keep" => at[o] = "keep" /\ job'[o] = job[o]
    BY <2>2
  <2> QED
    BY <2>1, <2>4, <2>5, OffSteps
<1>5. CASE AdminMFAReset
  <2>1. TurnOff /\ UNCHANGED <<at, job, overlapped, uses, proven>>
    BY <1>5 DEF AdminMFAReset
  <2> QED
    BY <2>1, OffSteps
<1>6. CASE Reboot
  <2>1. /\ UNCHANGED <<overlapped, uses, proven, lastStep, secret>>
        /\ \A o \in Callers : at'[o] = "idle"
    BY <1>6 DEF Reboot, row
  <2>2. "idle" \notin WithStep
    BY DEF WithStep, Verifying
  <2> QED
    BY <2>1, <2>2, StepsRest
<1>7. CASE Tick \/ UNCHANGED secondFactorVars
  <2>1. UNCHANGED <<at, job, overlapped, uses, proven, lastStep, secret>>
    BY <1>7 DEF Tick, secondFactorVars, history, row
  <2> QED
    BY <2>1, StepsRest
<1> QED
  BY <1>1, <1>2, <1>3, <1>4, <1>5, <1>6, <1>7 DEF Next, CallerStep

\* A time step lets one call in, unless calls overlapped: SetMFALastStep before the
\* answer of handleLoginMFA, and the comparison with it.
THEOREM StepsCountOnce == Spec => []StepOnce
<1>1. Init => StepInv
  <2> SUFFICES ASSUME Init PROVE Alone /\ UsedUpTo /\ KeepsNew /\ UsedOnce
    BY Zenon DEF StepInv
  <2>1. /\ secret = 0 /\ \A c \in Callers : at[c] = "idle"
        /\ \A s \in Times : uses[s] = 0
    BY DEF Init
  <2> QED
    BY <2>1 DEF Alone, UsedUpTo, KeepsNew, UsedOnce, WithStep, Verifying
<1>2. Types /\ StepInv /\ [Next]_secondFactorVars => Types' /\ StepInv'
  BY StepTypes, StepSteps
<1>3. StepInv => StepOnce
  BY Zenon DEF StepInv, StepOnce, UsedOnce
<1> QED
  BY <1>1, <1>2, <1>3, InitTypes, PTL DEF Spec

-----------------------------------------------------------------------------
(* What is on has been proven.                                             *)

Against == {"generate", "redeem", "disable"}

\* While nobody crossed: no verification goes on beside a setup or a disabling; it is
\* of the stored secret; a setup finds it off; and what is on is proven, with its codes.
Apart == \A c, o \in Callers : ~(at[c] \in Verifying /\ at[o] \in Against)

Verifies ==
  \A c \in Callers :
    /\ at[c] \in Verifying => job[c].secret = secret /\ secret # 0
    /\ at[c] \in {"enable", "issue"} => secret = proven

SetsUp == \A c \in Callers : at[c] = "generate" => ~enabled

HasCodes == \/ {r.slot : r \in codes} = Slots
            \/ secret \in torn
            \/ \E c \in Callers : at[c] = "issue"

OnIsProven == enabled => secret # 0 /\ secret = proven /\ HasCodes

ProvenInv == ~crossed => Apart /\ Verifies /\ SetsUp /\ OnIsProven

\* A step with which nobody comes to verify, to set up or to disable and nobody stops
\* issuing codes, and which leaves the row and the slots alone.
LEMMA ProvenRests ==
  ASSUME ProvenInv, ~crossed' => ~crossed, UNCHANGED <<secret, enabled, proven>>,
         HasCodes => HasCodes',
         \A o \in Callers : /\ at'[o] \in Verifying => at'[o] = at[o] /\ job'[o] = job[o]
                            /\ at'[o] \in Against => at[o] \in Against
                            /\ at'[o] = "generate" => at[o] = "generate"
  PROVE  ProvenInv'
<1>1. Apart => Apart'
  BY DEF Apart
<1>2. Verifies => Verifies'
  BY DEF Verifies, Verifying
<1>3. SetsUp => SetsUp'
  BY DEF SetsUp
<1>4. OnIsProven => OnIsProven'
  BY DEF OnIsProven
<1> QED
  BY <1>1, <1>2, <1>3, <1>4, Zenon DEF ProvenInv

LEMMA AskProven == ASSUME Types, ProvenInv, NEW c \in Callers, Ask(c) PROVE ProvenInv'
<1>1. PICK step \in Steps, j \in Jobs(made) : Begun(c, step, j)
  BY AskMeans
<1>2. /\ at' = [at EXCEPT ![c] = step] /\ job' = [job EXCEPT ![c] = j]
      /\ at[c] = "idle"
      /\ UNCHANGED <<row, codes, proven, torn>>
      /\ step \in {"generate", "prove", "keep", "spend", "redeem", "disable"}
      /\ step = "prove" => j.secret = secret /\ secret # 0
      /\ step = "generate" => ~enabled
  BY <1>1 DEF Begun, Begin
<1>3. \A o \in Callers : /\ at'[o] = (IF o = c THEN step ELSE at[o])
                         /\ job'[o] = (IF o = c THEN j ELSE job[o])
  BY <1>2 DEF Types, CallerTypes
<1>4. ~crossed' => /\ ~crossed
                   /\ step \in Against => ~Working(c, Verifying)
                   /\ step = "prove" => ~Working(c, Against)
  BY <1>1, Zenon DEF Begun, Begin, Against
<1> SUFFICES ASSUME ~crossed' PROVE Apart' /\ Verifies' /\ SetsUp' /\ OnIsProven'
  BY Zenon DEF ProvenInv
<1>5. Apart /\ Verifies /\ SetsUp /\ OnIsProven
  BY <1>4, Zenon DEF ProvenInv
<1>6. Apart'
  <2>1. step \in Against => \A o \in Callers \ {c} : at[o] \notin Verifying
    BY <1>4, Zenon DEF Working
  <2>2. step = "prove" => \A o \in Callers \ {c} : at[o] \notin Against
    BY <1>4, Zenon DEF Working
  <2>3. ~(step \in Verifying /\ step \in Against) /\ (step \in Verifying => step = "prove")
    BY <1>2 DEF Verifying, Against
  <2> HIDE DEF Verifying, Against
  <2> QED
    BY <1>3, <1>5, <2>1, <2>2, <2>3 DEF Apart
<1>7. UNCHANGED <<secret, enabled, proven, codes, torn>>
  BY <1>2 DEF row
<1>8. Verifies' /\ SetsUp'
  BY <1>2, <1>3, <1>5, <1>7 DEF Verifies, SetsUp, Verifying
<1>9. OnIsProven'
  BY <1>2, <1>3, <1>5, <1>7 DEF OnIsProven, HasCodes
<1> QED
  BY <1>6, <1>8, <1>9

LEMMA SetMFASecretProven ==
  ASSUME Types, ProvenInv, NEW c \in Callers, SetMFASecret(c) PROVE ProvenInv'
<1>1. /\ at[c] = "generate" /\ at' = [at EXCEPT ![c] = "idle"] /\ job' = [job EXCEPT ![c] = NoJob]
      /\ UNCHANGED <<enabled, crossed>>
  BY DEF SetMFASecret, Answers, history
<1>2. \A o \in Callers : at'[o] = (IF o = c THEN "idle" ELSE at[o])
  BY <1>1 DEF Types, CallerTypes
<1> SUFFICES ASSUME ~crossed' PROVE Apart' /\ Verifies' /\ SetsUp' /\ OnIsProven'
  BY Zenon DEF ProvenInv
<1>3. Apart /\ SetsUp
  BY <1>1, Zenon DEF ProvenInv
<1>4. ~enabled'
  BY <1>1, <1>3 DEF SetsUp
<1>5. \A o \in Callers : at'[o] \notin Verifying
  BY <1>1, <1>2, <1>3 DEF Apart, Against, Verifying
<1>6. Apart' /\ Verifies'
  BY <1>5 DEF Apart, Verifies, Verifying
<1>7. SetsUp' /\ OnIsProven'
  BY <1>4 DEF SetsUp, OnIsProven
<1> QED
  BY <1>6, <1>7

LEMMA ProveProven == ASSUME Types, ProvenInv, NEW c \in Callers, Prove(c) PROVE ProvenInv'
<1>1. /\ at[c] = "prove" /\ at' = [at EXCEPT ![c] = "enable"] /\ job' = job
      /\ proven' = job[c].secret
      /\ UNCHANGED <<secret, enabled, codes, torn, crossed>>
  BY DEF Prove, Goto
<1>2. \A o \in Callers : at'[o] = (IF o = c THEN "enable" ELSE at[o])
  BY <1>1 DEF Types, CallerTypes
<1> SUFFICES ASSUME ~crossed' PROVE Apart' /\ Verifies' /\ SetsUp' /\ OnIsProven'
  BY Zenon DEF ProvenInv
<1>3. Apart /\ Verifies /\ SetsUp /\ OnIsProven
  BY <1>1, Zenon DEF ProvenInv
<1>4. proven' = secret
  BY <1>1, <1>3 DEF Verifies, Verifying
<1>5. Apart'
  BY <1>1, <1>2, <1>3 DEF Apart, Verifying, Against
<1>6. Verifies' /\ SetsUp'
  BY <1>1, <1>2, <1>3, <1>4 DEF Verifies, SetsUp, Verifying
<1>7. HasCodes => HasCodes'
  BY <1>1, <1>2 DEF HasCodes
<1>8. OnIsProven'
  BY <1>1, <1>3, <1>4, <1>7 DEF OnIsProven
<1> QED
  BY <1>5, <1>6, <1>8

LEMMA EnableMFAProven == ASSUME Types, ProvenInv, NEW c \in Callers, EnableMFA(c) PROVE ProvenInv'
<1>1. /\ at[c] = "enable" /\ at' = [at EXCEPT ![c] = "issue"] /\ job' = job
      /\ UNCHANGED <<secret, proven, crossed>>
  BY DEF EnableMFA, Goto, history
<1>2. \A o \in Callers : at'[o] = (IF o = c THEN "issue" ELSE at[o])
  BY <1>1 DEF Types, CallerTypes
<1> SUFFICES ASSUME ~crossed' PROVE Apart' /\ Verifies' /\ SetsUp' /\ OnIsProven'
  BY Zenon DEF ProvenInv
<1>3. Apart /\ Verifies
  BY <1>1, Zenon DEF ProvenInv
<1>4. Apart'
  BY <1>1, <1>2, <1>3 DEF Apart, Verifying, Against
<1>5. Verifies'
  BY <1>1, <1>2, <1>3 DEF Verifies, Verifying
<1>6. SetsUp'
  BY <1>1, <1>2, <1>3 DEF SetsUp, Apart, Verifying, Against
<1>7. OnIsProven'
  BY <1>1, <1>2, <1>3 DEF OnIsProven, Verifies, Verifying, HasCodes
<1> QED
  BY <1>4, <1>5, <1>6, <1>7

\* A caller answers or goes on to disable, and the row stays as it is.
LEMMA GoesOn ==
  ASSUME Types, ProvenInv, NEW c \in Callers, NEW step, NEW j, at[c] \notin {"generate"},
         step = "idle" \/ (step = "disable" /\ at[c] = "redeem"),
         at' = [at EXCEPT ![c] = step], job' = [job EXCEPT ![c] = j],
         UNCHANGED <<secret, enabled, proven, crossed>>, HasCodes => HasCodes'
  PROVE  ProvenInv'
<1>1. \A o \in Callers : /\ at'[o] = (IF o = c THEN step ELSE at[o])
                         /\ job'[o] = (IF o = c THEN j ELSE job[o])
  BY DEF Types, CallerTypes
<1>2. \A o \in Callers : /\ at'[o] \in Verifying => at'[o] = at[o] /\ job'[o] = job[o]
                         /\ at'[o] \in Against => at[o] \in Against
                         /\ at'[o] = "generate" => at[o] = "generate"
  BY <1>1 DEF Verifying, Against
<1>3. ~crossed' => ~crossed
  OBVIOUS
<1> QED
  BY <1>2, <1>3, ProvenRests

LEMMA AddRecoveryCodesProven ==
  ASSUME Types, ProvenInv, NEW c \in Callers, AddRecoveryCodes(c) PROVE ProvenInv'
<1>1. /\ at[c] = "issue" /\ at' = [at EXCEPT ![c] = "idle"] /\ job' = [job EXCEPT ![c] = NoJob]
      /\ codes' = [batch : {batches + 1}, slot : Slots, used : {FALSE}]
      /\ UNCHANGED <<secret, enabled, proven, crossed>>
  BY DEF AddRecoveryCodes, Answers, row
<1>2. {r.slot : r \in codes'} = Slots
  <2> DEFINE k == batches + 1
  <2>1. codes' = [batch : {k}, slot : Slots, used : {FALSE}]
    BY <1>1
  <2> HIDE DEF k
  <2>2. ASSUME NEW s \in Slots PROVE \E r \in codes' : r.slot = s
    <3> DEFINE r == [batch |-> k, slot |-> s, used |-> FALSE]
    <3>1. r \in codes' /\ r.slot = s
      BY <2>1
    <3> QED
      BY <3>1
  <2>3. \A r \in codes' : r.slot \in Slots
    BY <2>1, Zenon
  <2> QED
    BY <2>2, <2>3
<1>3. HasCodes'
  BY <1>2 DEF HasCodes
<1> QED
  BY <1>1, <1>3, GoesOn

LEMMA SpendProven == ASSUME Types, ProvenInv, NEW c \in Callers, Spend(c) PROVE ProvenInv'
<1> DEFINE code == job[c].code
<1>1. /\ at[c] \in Spending /\ codes' = SpentCodes(code)
      /\ UNCHANGED <<secret, enabled, proven, torn, crossed>>
  BY DEF Spend, row, Spending
<1>2. PICK step \in {"idle", "disable"}, j \in {NoJob, job[c]} :
        /\ at' = [at EXCEPT ![c] = step] /\ job' = [job EXCEPT ![c] = j]
        /\ step = "disable" => at[c] = "redeem"
  <2>1. CASE at[c] = "spend"
    BY <2>1 DEF Spend, Answers, Goto
  <2>2. CASE at[c] = "redeem"
    <3>1. at' = [at EXCEPT ![c] = "disable"] /\ job' = job
      BY <2>2 DEF Spend, Answers, Goto
    <3>2. job = [job EXCEPT ![c] = job[c]]
      BY DEF Types, CallerTypes
    <3> QED
      BY <2>2, <3>1, <3>2
  <2> QED
    BY <1>1, <2>1, <2>2 DEF Spending
<1> HIDE DEF code
<1>3. {r.slot : r \in codes} = {r.slot : r \in codes'}
  <2>1. \A r \in codes' : \E q \in codes : Marked(r, q, code)
    BY <1>1, RowsSpent DEF Types, CodeTypes
  <2>2. \A r \in codes' : \E q \in codes : r.slot = q.slot
    BY <2>1 DEF Marked
  <2>3. ASSUME NEW q \in codes PROVE \E r \in codes' : r.slot = q.slot
    <3> DEFINE u == (q.used \/ Code(q) = code)
               r == [q EXCEPT !.used = u]
    <3>1. r \in codes'
      BY <1>1, Zenon DEF SpentCodes
    <3> HIDE DEF u
    <3>2. q \in [batch : 1 .. batches, slot : Slots, used : BOOLEAN]
      BY DEF Types, CodeTypes
    <3>3. r.slot = q.slot
      BY <3>2
    <3> QED
      BY <3>1, <3>3
  <2> QED
    BY <2>2, <2>3
<1>4. \A o \in Callers : at[o] = "issue" => at'[o] = "issue"
  BY <1>1, <1>2 DEF Types, CallerTypes, Spending
<1>5. HasCodes => HasCodes'
  BY <1>1, <1>3, <1>4 DEF HasCodes
<1>6. at[c] \notin {"generate"} /\ (step = "idle" \/ (step = "disable" /\ at[c] = "redeem"))
  BY <1>1, <1>2 DEF Spending
<1> QED
  BY <1>1, <1>2, <1>5, <1>6, GoesOn

LEMMA KeepStepProven == ASSUME Types, ProvenInv, NEW c \in Callers, KeepStep(c) PROVE ProvenInv'
<1>1. /\ at[c] = "keep" /\ at' = [at EXCEPT ![c] = "idle"] /\ job' = [job EXCEPT ![c] = NoJob]
      /\ UNCHANGED <<secret, enabled, codes, torn, proven, crossed>>
  BY DEF KeepStep, Answers
<1>2. \A o \in Callers : at[o] = "issue" => at'[o] = "issue"
  BY <1>1 DEF Types, CallerTypes
<1>3. HasCodes => HasCodes'
  BY <1>1, <1>2 DEF HasCodes
<1> QED
  BY <1>1, <1>3, GoesOn

LEMMA DisableMFAProven == ASSUME Types, ProvenInv, NEW c \in Callers, DisableMFA(c) PROVE ProvenInv'
<1>1. /\ at[c] = "disable" /\ at' = [at EXCEPT ![c] = "idle"]
      /\ enabled' = FALSE /\ crossed' = crossed
  BY DEF DisableMFA, Answers, TurnOff, history
<1>2. \A o \in Callers : at'[o] = (IF o = c THEN "idle" ELSE at[o])
  BY <1>1 DEF Types, CallerTypes
<1> SUFFICES ASSUME ~crossed' PROVE Apart' /\ Verifies' /\ SetsUp' /\ OnIsProven'
  BY Zenon DEF ProvenInv
<1>3. Apart
  BY <1>1, Zenon DEF ProvenInv
<1>4. \A o \in Callers : at'[o] \notin Verifying
  BY <1>1, <1>2, <1>3 DEF Apart, Against, Verifying
<1>5. Apart' /\ Verifies'
  BY <1>4 DEF Apart, Verifies, Verifying
<1>6. SetsUp' /\ OnIsProven'
  BY <1>1 DEF SetsUp, OnIsProven
<1> QED
  BY <1>5, <1>6

LEMMA AdminMFAResetProven == ASSUME ProvenInv, AdminMFAReset PROVE ProvenInv'
<1>1. at' = at /\ enabled' = FALSE
  BY DEF AdminMFAReset, TurnOff
<1>2. ~crossed' => ~crossed /\ (\A c \in Callers : at[c] \notin Verifying)
  BY Zenon DEF AdminMFAReset
<1> SUFFICES ASSUME ~crossed' PROVE Apart' /\ Verifies' /\ SetsUp' /\ OnIsProven'
  BY Zenon DEF ProvenInv
<1>3. Apart' /\ Verifies'
  BY <1>1, <1>2 DEF Apart, Verifies, Verifying
<1>4. SetsUp' /\ OnIsProven'
  BY <1>1 DEF SetsUp, OnIsProven
<1> QED
  BY <1>3, <1>4

LEMMA RebootProven == ASSUME Types, ProvenInv, Reboot PROVE ProvenInv'
<1>1. /\ torn' = torn \cup {job[c].secret : c \in {d \in Callers : at[d] = "issue"}}
      /\ at' = [c \in Callers |-> "idle"]
      /\ UNCHANGED <<secret, enabled, codes, proven, crossed>>
  BY DEF Reboot, row
<1> SUFFICES ASSUME ~crossed' PROVE Apart' /\ Verifies' /\ SetsUp' /\ OnIsProven'
  BY Zenon DEF ProvenInv
<1>2. Verifies /\ OnIsProven
  BY <1>1, Zenon DEF ProvenInv
<1>3. Apart' /\ Verifies' /\ SetsUp'
  BY <1>1 DEF Apart, Verifies, SetsUp, Verifying
<1>4. HasCodes => HasCodes'
  <2>1. ASSUME NEW c \in Callers, at[c] = "issue" PROVE secret \in torn'
    <3>1. job[c].secret = secret
      BY <1>2, <2>1 DEF Verifies, Verifying
    <3> QED
      BY <1>1, <2>1, <3>1
  <2> QED
    BY <1>1, <2>1 DEF HasCodes
<1>5. OnIsProven'
  BY <1>1, <1>2, <1>4 DEF OnIsProven
<1> QED
  BY <1>3, <1>5

LEMMA StepProven == ASSUME Types, ProvenInv, [Next]_secondFactorVars PROVE ProvenInv'
<1>1. ASSUME NEW c \in Callers, Ask(c) PROVE ProvenInv'
  BY <1>1, AskProven
<1>2. ASSUME NEW c \in Callers, CallerStep(c) PROVE ProvenInv'
  BY <1>2, SetMFASecretProven, ProveProven, EnableMFAProven, AddRecoveryCodesProven,
     KeepStepProven, SpendProven, DisableMFAProven DEF CallerStep
<1>3. CASE AdminMFAReset
  BY <1>3, AdminMFAResetProven
<1>4. CASE Reboot
  BY <1>4, RebootProven
<1>5. CASE Tick \/ UNCHANGED secondFactorVars
  <2>1. UNCHANGED <<at, job, secret, enabled, codes, proven, torn, crossed>>
    BY <1>5 DEF Tick, secondFactorVars, history, row
  <2>2. (~crossed' => ~crossed) /\ (HasCodes => HasCodes')
    BY <2>1 DEF HasCodes
  <2> QED
    BY <2>1, <2>2, ProvenRests
<1> QED
  BY <1>1, <1>2, <1>3, <1>4, <1>5 DEF Next

\* What is on has been proven and has its codes: handleMFAVerify after any setups,
\* disablings and restarts that did not run alongside it.
THEOREM OnAfterProof == Spec => []EnabledIsProven
<1>1. Init => ProvenInv
  <2> SUFFICES ASSUME Init PROVE Apart /\ Verifies /\ SetsUp /\ OnIsProven
    BY Zenon DEF ProvenInv
  <2>1. enabled = FALSE /\ \A c \in Callers : at[c] = "idle"
    BY DEF Init
  <2> QED
    BY <2>1 DEF Apart, Verifies, SetsUp, OnIsProven, Verifying
<1>2. Types /\ ProvenInv /\ [Next]_secondFactorVars => Types' /\ ProvenInv'
  BY StepTypes, StepProven
<1>3. ProvenInv => EnabledIsProven
  BY Zenon DEF ProvenInv, OnIsProven, HasCodes, EnabledIsProven
<1> QED
  BY <1>1, <1>2, <1>3, InitTypes, PTL DEF Spec

-----------------------------------------------------------------------------
(* One call at a time.                                                     *)

OneCaller == \A c, o \in Callers : c = o
Serial == contested = {} /\ overlapped = FALSE

LEMMA SerialNext ==
  ASSUME OneCaller, Serial, [Next]_secondFactorVars
  PROVE  Serial'
<1>1. ASSUME NEW c \in Callers, NEW step, NEW j, Begin(c, step, j) PROVE Serial'
  <2>1. Callers \ {c} = {}
    BY DEF OneCaller
  <2> QED
    BY <1>1, <2>1 DEF Begin, Working, Serial
<1>2. ASSUME NEW c \in Callers, Ask(c) PROVE Serial'
  BY <1>1, <1>2 DEF Ask, AskSetup, AskVerify, AskWithCode
<1>3. ASSUME NEW c \in Callers, CallerStep(c) PROVE Serial'
  BY <1>3 DEF CallerStep, SetMFASecret, Prove, EnableMFA, AddRecoveryCodes, KeepStep, Spend,
     DisableMFA, history, Serial
<1>4. CASE AdminMFAReset \/ Tick \/ Reboot \/ UNCHANGED secondFactorVars
  BY <1>4 DEF AdminMFAReset, Tick, Reboot, secondFactorVars, history, Serial
<1> QED
  BY <1>2, <1>3, <1>4 DEF Next

\* One after the other, calls are let in once by every recovery code and, since the
\* verification, by every time step, whatever resets and restarts come between.
THEOREM OneCallerCountsOnce ==
  ASSUME OneCaller
  PROVE  Spec => []((\A k \in Codes : spent[k] <= 1) /\ (\A s \in Times : uses[s] <= 1))
<1>1. Init => Serial
  BY DEF Init, Serial
<1>2. Serial /\ [Next]_secondFactorVars => Serial'
  BY SerialNext
<1>3. Serial /\ RecoveryOnce /\ StepOnce =>
        (\A k \in Codes : spent[k] <= 1) /\ (\A s \in Times : uses[s] <= 1)
  BY DEF Serial, RecoveryOnce, StepOnce
<1> QED
  BY <1>1, <1>2, <1>3, RecoversOnce, StepsCountOnce, PTL DEF Spec

===============================================================================
