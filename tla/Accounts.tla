-------------------------------- MODULE Accounts --------------------------------
(***************************************************************************)
(* The users of the panel and what they hold: sessions, which name the     *)
(* token version they were issued under and stay with their holder, tokens *)
(* of a first login step, and tokens that reset a password.  A handler is  *)
(* several statements: the password and the version, the status and the    *)
(* version, the look at a reset token and its end are written one after    *)
(* another, and the panel can be restarted between any two.                *)
(*                                                                         *)
(* A password is the number of the change that set it.  Requests that the  *)
(* code refuses at once (a wrong password, no rights) change nothing and   *)
(* are left out; whoever exists and is not disabled can be authenticated.  *)
(***************************************************************************)
EXTENDS Naturals, FiniteSets

CONSTANTS
  Users,         \* ids: AUTOINCREMENT does not use one again
  Handlers,      \* API goroutines
  Tokens,        \* random tokens of password resets
  MaxAsked,      \* bound: requests in all
  MaxRestarts,   \* bound: restarts of the panel
  NoUser, NoToken

ASSUME AccountsAssumption ==
  /\ NoUser \notin Users /\ NoToken \notin Tokens
  /\ IsFiniteSet(Users)
  /\ MaxAsked \in Nat /\ MaxRestarts \in Nat

Roles == {"superadmin", "member"}

VARIABLES
  account,       \* users: whether the row is still to come, there or gone,
  role, disabled,
  password,      \*   password_hash,
  version,       \*   token_version,
  twoStep,       \*   mfa_enabled
  resets,        \* password_resets: the user of each token, and
  expired,       \*   the tokens whose hour is over
  stage, task,   \* the handlers: where they stand and what they have read
  sessions,      \* the session tokens issued,
  firsts,        \*   and the tokens of a first step
  lastPassword,
  asked, restarts,
  suspensions,   \* history: how often each user has been disabled,
  used,          \* history: how many passwords each reset token has set,
  disputed,      \* history: reset tokens that two calls worked on at once,
  unraised,      \* history: users whose version a restart kept from being raised,
  outcounted     \* history: two deletions of superadmins were past their count

userTable == <<account, role, disabled, password, version, twoStep, lastPassword>>
resetTable == <<resets, expired>>
issued == <<sessions, firsts>>
observed == <<suspensions, used, disputed, unraised, outcounted>>
accountsVars == <<account, role, disabled, password, version, twoStep, resets, expired,
                  stage, task, sessions, firsts, lastPassword, asked, restarts,
                  suspensions, used, disputed, unraised, outcounted>>

There(u) == account[u] = "there"
Admins == {u \in Users : There(u) /\ role[u] = "superadmin"}

NoTask == [user |-> NoUser, role |-> "member", version |-> 0, password |-> 0,
          suspensions |-> 0, second |-> FALSE, token |-> NoToken, off |-> FALSE]

\* What a login reads of the row, in one query.
Read(u) == [user |-> u, role |-> role[u], version |-> version[u], password |-> password[u],
            suspensions |-> suspensions[u], second |-> FALSE, token |-> NoToken, off |-> FALSE]

\* A new instance, or one with a superadmin.
AccountsInit ==
  /\ account \in [Users -> {"none", "there"}]
  /\ role \in [Users -> Roles]
  /\ \A u \in Users : account[u] = "none" => role[u] = "member"
  /\ (\E u \in Users : There(u)) => Admins # {}
  /\ disabled = [u \in Users |-> FALSE]
  /\ password = [u \in Users |-> 0] /\ lastPassword = 0
  /\ version = [u \in Users |-> 0]
  /\ twoStep = [u \in Users |-> FALSE]
  /\ resets = [t \in Tokens |-> NoUser] /\ expired = {}
  /\ stage = [c \in Handlers |-> "idle"] /\ task = [c \in Handlers |-> NoTask]
  /\ sessions = {} /\ firsts = {}
  /\ asked = 0 /\ restarts = 0
  /\ suspensions = [u \in Users |-> 0]
  /\ used = [t \in Tokens |-> 0]
  /\ disputed = {} /\ unraised = {} /\ outcounted = FALSE

-----------------------------------------------------------------------------
(* Requests.  The first read of each belongs to its beginning.             *)

Take(c, step, j) ==
  /\ stage[c] = "idle"
  /\ asked < MaxAsked /\ asked' = asked + 1
  /\ stage' = [stage EXCEPT ![c] = step]
  /\ task' = [task EXCEPT ![c] = j]
  /\ UNCHANGED <<userTable, resetTable, issued, restarts>>

Proceed(c, step) ==
  stage' = [stage EXCEPT ![c] = step] /\ UNCHANGED <<task, asked, restarts>>

Finishes(c) ==
  /\ stage' = [stage EXCEPT ![c] = "idle"]
  /\ task' = [task EXCEPT ![c] = NoTask]
  /\ UNCHANGED <<asked, restarts>>

\* requireAuth, requireAdmin
Active(u) == There(u) /\ ~disabled[u]
AskedByAdmin == \E a \in Admins : Active(a)

\* handleSetup: while there is no user at all.
AskFirstUser(c, u) ==
  /\ \A v \in Users : ~There(v)
  /\ account[u] = "none"
  /\ Take(c, "set up", [NoTask EXCEPT !.user = u, !.role = "superadmin"])

AskCreate(c, u, r) ==
  /\ AskedByAdmin /\ account[u] = "none"
  /\ Take(c, "create", [NoTask EXCEPT !.user = u, !.role = r])

\* handleLogin with the right password; handleLoginMFA with the token of the
\* first step.
AskLogin(c, u) == Active(u) /\ Take(c, "login", Read(u))
AskSecondStep(c, f) ==
  /\ Active(f.user)
  /\ Take(c, "code", [Read(f.user) EXCEPT !.password = f.password, !.second = TRUE])

AskChangePassword(c, u) == Active(u) /\ Take(c, "set password", Read(u))
AskForgot(c, u) == There(u) /\ Take(c, "keep token", Read(u))

\* handleReset: GetPasswordReset, and the look at the hour.
AskReset(c, t) ==
  /\ resets[t] # NoUser
  /\ Take(c, IF t \in expired THEN "drop token" ELSE "burn token",
           [NoTask EXCEPT !.user = resets[t], !.token = t])

AskStatus(c, u, off) ==
  AskedByAdmin /\ Take(c, "status", [NoTask EXCEPT !.user = u, !.off = off])

\* handleDeleteUser: not oneself; a superadmin is counted first.
AskDelete(c, a, u) ==
  /\ a \in Admins /\ Active(a) /\ a # u /\ There(u)
  /\ Take(c, IF role[u] = "superadmin" THEN "count" ELSE "owned", Read(u))

AskAccounts(c) ==
  \/ /\ \/ \E u \in Users : AskFirstUser(c, u) \/ AskLogin(c, u) \/ AskChangePassword(c, u)
                              \/ AskForgot(c, u)
        \/ \E u \in Users, r \in Roles : AskCreate(c, u, r)
        \/ \E f \in firsts : AskSecondStep(c, f)
        \/ \E u \in Users, off \in BOOLEAN : AskStatus(c, u, off)
        \/ \E a, u \in Users : AskDelete(c, a, u)
     /\ UNCHANGED observed
  \/ \E t \in Tokens :
       /\ AskReset(c, t)
       /\ disputed' = IF \E o \in Handlers \ {c} : task[o].token = t /\ stage[o] # "keep token"
                         THEN disputed \cup {t} ELSE disputed
       /\ UNCHANGED <<suspensions, used, unraised, outcounted>>

-----------------------------------------------------------------------------
(* Users.                                                                  *)

InsertUser(c, then) ==
  LET u == task[c].user IN
  \/ /\ account[u] = "none"
     /\ account' = [account EXCEPT ![u] = "there"]
     /\ role' = [role EXCEPT ![u] = task[c].role]
     /\ UNCHANGED <<disabled, password, version, twoStep, lastPassword>>
     /\ IF then = "idle" THEN Finishes(c) ELSE Proceed(c, then)
  \/ account[u] # "none" /\ Finishes(c) /\ UNCHANGED userTable

\* handleSetup and handleCreateUser, lamund user create.
CreateUser(c) ==
  /\ \/ stage[c] = "set up" /\ InsertUser(c, "issue")
     \/ stage[c] = "create" /\ InsertUser(c, "idle")
  /\ UNCHANGED <<resetTable, issued, observed>>

\* A superadmin may go as long as one is left to count.
LastSuperadminLoosely == Cardinality(Admins) < 1

LastSuperadmin == Cardinality(Admins) <= 1

\* Another deletion of a superadmin is past its count.
AnotherToGo(c) ==
  \E o \in Handlers \ {c} : stage[o] \in {"owned", "delete"} /\ task[o].role = "superadmin"

\* CountOwnedResources may find something; DeleteUser is a transaction.
DeleteUser(c) ==
  LET u == task[c].user IN
  \/ /\ stage[c] = "count"
     /\ IF LastSuperadmin THEN Finishes(c) ELSE Proceed(c, "owned")
     /\ UNCHANGED <<userTable, resetTable, issued, observed>>
  \/ /\ stage[c] = "owned" /\ (Finishes(c) \/ Proceed(c, "delete"))
     /\ UNCHANGED <<userTable, resetTable, issued, observed>>
  \/ /\ stage[c] = "delete" /\ Finishes(c)
     /\ account' = [account EXCEPT ![u] = "gone"]
     /\ outcounted' = (outcounted \/ (task[c].role = "superadmin" /\ AnotherToGo(c)))
     /\ UNCHANGED <<role, disabled, password, version, twoStep, lastPassword>>
     /\ UNCHANGED <<resetTable, issued, suspensions, used, disputed, unraised>>

-----------------------------------------------------------------------------
(* Sessions.                                                               *)

Session(j) == [user |-> j.user, version |-> j.version, password |-> j.password,
               suspensions |-> j.suspensions, second |-> j.second]

Issue(c) == sessions' = sessions \cup {Session(task[c])} /\ UNCHANGED firsts

\* handleLogin's second query; a row that is gone has no second factor.
Login(c) ==
  LET u == task[c].user IN
  /\ stage[c] = "login" /\ Finishes(c)
  /\ IF There(u) /\ twoStep[u]
       THEN /\ firsts' = firsts \cup {[user |-> u, password |-> task[c].password]}
            /\ UNCHANGED sessions
       ELSE Issue(c)
  /\ UNCHANGED <<userTable, resetTable, observed>>

\* handleLoginMFA from its second query on: SecondFactor has the codes.
SecondStep(c) ==
  /\ stage[c] = "code" /\ Finishes(c)
  /\ UNCHANGED issued \/ (There(task[c].user) /\ twoStep[task[c].user] /\ Issue(c))
  /\ UNCHANGED <<userTable, resetTable, observed>>

\* The end of handleSetup: the version of a new user is zero.
SetupIssues(c) ==
  /\ stage[c] = "issue" /\ Finishes(c) /\ Issue(c)
  /\ UNCHANGED <<userTable, resetTable, observed>>

\* The second factor of a user is turned on or off.
SecondFactorChanges(u) ==
  /\ There(u)
  /\ twoStep' = [twoStep EXCEPT ![u] = ~@]
  /\ UNCHANGED <<account, role, disabled, password, version, lastPassword>>
  /\ UNCHANGED <<resetTable, stage, task, issued, asked, restarts, observed>>

\* resolveCredential
Live(s) == Active(s.user) /\ s.version = version[s.user]

-----------------------------------------------------------------------------
(* Passwords.                                                              *)

\* tryForgot
KeepToken(c) ==
  /\ stage[c] = "keep token" /\ Finishes(c)
  /\ \E t \in Tokens :
       /\ used[t] = 0 /\ t \notin expired /\ resets[t] = NoUser
       /\ \A o \in Handlers : task[o].token # t
       /\ resets' = [resets EXCEPT ![t] = task[c].user]
  /\ UNCHANGED <<userTable, expired, issued, observed>>

HourOver(t) ==
  /\ resets[t] # NoUser /\ t \notin expired
  /\ expired' = expired \cup {t}
  /\ UNCHANGED <<userTable, resets, stage, task, issued, asked, restarts, observed>>

DropToken(c) ==
  /\ stage[c] = "drop token" /\ Finishes(c)
  /\ resets' = [resets EXCEPT ![task[c].token] = NoUser]
  /\ UNCHANGED <<userTable, expired, issued, observed>>

\* A reset that removes the token when all is done.
BurnTokenLate(c) ==
  /\ stage[c] = "burn token" /\ Proceed(c, "set password")
  /\ UNCHANGED <<userTable, resetTable, issued, observed>>

BurnToken(c) ==
  /\ stage[c] = "burn token" /\ Proceed(c, "set password")
  /\ resets' = [resets EXCEPT ![task[c].token] = NoUser]
  /\ UNCHANGED <<userTable, expired, issued, observed>>

\* SetUserPassword, of handleChangePassword and of handleReset.
SetPassword(c) ==
  LET u == task[c].user IN
  /\ stage[c] = "set password"
  /\ \/ /\ There(u)
        /\ password' = [password EXCEPT ![u] = lastPassword + 1]
        /\ lastPassword' = lastPassword + 1
        /\ used' = IF task[c].token = NoToken THEN used
                   ELSE [used EXCEPT ![task[c].token] = @ + 1]
        /\ Proceed(c, "bump")
        /\ UNCHANGED <<account, role, disabled, version, twoStep>>
     \/ ~There(u) /\ Finishes(c) /\ UNCHANGED <<userTable, used>>
  /\ UNCHANGED <<resetTable, issued, suspensions, disputed, unraised, outcounted>>

\* handleSetUserStatus, which raises the version only when it disables.
SetStatus(c) ==
  LET u == task[c].user IN
  /\ stage[c] = "status"
  /\ \/ /\ There(u)
        /\ disabled' = [disabled EXCEPT ![u] = task[c].off]
        /\ suspensions' = IF task[c].off THEN [suspensions EXCEPT ![u] = @ + 1]
                                         ELSE suspensions
        /\ IF task[c].off THEN Proceed(c, "bump") ELSE Finishes(c)
        /\ UNCHANGED <<account, role, password, version, twoStep, lastPassword>>
     \/ ~There(u) /\ Finishes(c) /\ UNCHANGED <<userTable, suspensions>>
  /\ UNCHANGED <<resetTable, issued, used, disputed, unraised, outcounted>>

\* A version that is written back as it was read.
RaiseReadVersion(c) ==
  /\ stage[c] = "bump" /\ Finishes(c)
  /\ version' = [version EXCEPT ![task[c].user] = task[c].version + 1]
  /\ UNCHANGED <<account, role, disabled, password, twoStep, lastPassword>>
  /\ UNCHANGED <<resetTable, issued, observed>>

\* BumpTokenVersion
RaiseVersion(c) ==
  /\ stage[c] = "bump" /\ Finishes(c)
  /\ version' = [version EXCEPT ![task[c].user] = @ + 1]
  /\ UNCHANGED <<account, role, disabled, password, twoStep, lastPassword>>
  /\ UNCHANGED <<resetTable, issued, observed>>

-----------------------------------------------------------------------------

\* The panel is restarted.  Its secret is kept, so tokens stay good.
Restart ==
  /\ restarts < MaxRestarts /\ restarts' = restarts + 1
  /\ stage' = [c \in Handlers |-> "idle"] /\ task' = [c \in Handlers |-> NoTask]
  /\ unraised' = unraised \cup {task[c].user : c \in {d \in Handlers : stage[d] = "bump"}}
  /\ UNCHANGED <<userTable, resetTable, issued, asked>>
  /\ UNCHANGED <<suspensions, used, disputed, outcounted>>

HandlerStep(c) ==
  \/ CreateUser(c) \/ DeleteUser(c)
  \/ Login(c) \/ SecondStep(c) \/ SetupIssues(c)
  \/ KeepToken(c) \/ DropToken(c) \/ BurnToken(c)
  \/ SetPassword(c) \/ SetStatus(c) \/ RaiseVersion(c)

AccountsNext ==
  \/ \E c \in Handlers : AskAccounts(c) \/ HandlerStep(c)
  \/ \E u \in Users : SecondFactorChanges(u)
  \/ \E t \in Tokens : HourOver(t)
  \/ Restart

AccountsSpec == AccountsInit /\ [][AccountsNext]_accountsVars

-----------------------------------------------------------------------------
(* Properties.                                                             *)

Stages == {"idle", "set up", "create", "issue", "login", "code", "count", "owned", "delete",
          "keep token", "drop token", "burn token", "set password", "status", "bump"}

\* Every variable stays in its type, nobody works for a user that never was, and
\* no password or version read is ahead of the store's.
AccountsTypeOK ==
  /\ account \in [Users -> {"none", "there", "gone"}] /\ role \in [Users -> Roles]
  /\ disabled \in [Users -> BOOLEAN] /\ twoStep \in [Users -> BOOLEAN]
  /\ password \in [Users -> 0 .. lastPassword] /\ version \in [Users -> Nat]
  /\ resets \in [Tokens -> Users \cup {NoUser}] /\ expired \subseteq Tokens
  /\ stage \in [Handlers -> Stages]
  /\ \A c \in Handlers : stage[c] # "idle" => task[c].user \in Users
  /\ \A c \in Handlers : stage[c] \notin {"idle", "set up", "create", "status"} =>
       /\ account[task[c].user] # "none"
       /\ task[c].version <= version[task[c].user]
       /\ task[c].password <= lastPassword
  /\ \A s \in sessions : account[s.user] # "none" /\ s.version <= version[s.user]
  /\ asked \in 0 .. MaxAsked /\ restarts \in 0 .. MaxRestarts

\* Whoever is still to raise the version of a user, or died before.
VersionDue(u) == u \in unraised \/ \E c \in Handlers : stage[c] = "bump" /\ task[c].user = u

\* A session that is accepted was issued for the password the user has now, and
\* after the last time the user was disabled: no change, reset, suspension and
\* reinstatement lets a session from before come back, however they interleave
\* with logins, unless the version is still to be raised.  (A session of a second
\* step takes the version that this step reads, so only the suspension counts.)
SessionsEnd ==
  \A s \in sessions :
    Live(s) /\ ~VersionDue(s.user) =>
      /\ s.suspensions = suspensions[s.user]
      /\ s.second \/ s.password = password[s.user]

\* A reset token sets one password at most, also when the panel is restarted in
\* the middle of the reset: the token goes first.  (Two calls with the same token
\* at once both find it.)
ResetsOnce == \A t \in Tokens \ disputed : used[t] <= 1

\* There is a superadmin as long as there are users: whoever deletes one is
\* another, and counts them, after which only a deletion that has been counted as
\* well can come between.
KeepsSuperadmin == (\E u \in Users : There(u)) /\ ~outcounted => Admins # {}

===============================================================================
