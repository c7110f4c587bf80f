--------------------------------- MODULE Teams ---------------------------------
(***************************************************************************)
(* Teams, the roles of their members and the invites to them.  A handler   *)
(* asks for one role after another, counts the owners, and then writes, a  *)
(* statement each and no transaction; the panel can be restarted between   *)
(* any two.  Memberships have no foreign key: they can outlive, and come   *)
(* after, the team and the user they name.                                 *)
(*                                                                         *)
(* Requests the code refuses at the first look change nothing and are left *)
(* out, and so are the names, slugs and mails.                             *)
(***************************************************************************)
EXTENDS Naturals, FiniteSets

CONSTANTS
  TeamIds,       \* AUTOINCREMENT does not use an id again
  Users,
  Superadmins,   \* those of them with that role
  Tokens,        \* random tokens of invites
  Addressees,    \* whom invites may be for, None: whoever has it
  Callers,       \* API goroutines
  MaxTeams,      \* quota of teams a user may own
  MaxRequests,   \* bound: requests in all
  MaxReboots,    \* bound: restarts of the panel
  None           \* nobody, no team, no token, no address on the invite

ASSUME TeamsAssumption ==
  /\ Superadmins \subseteq Users /\ None \notin Users \cup TeamIds \cup Tokens
  /\ IsFiniteSet(TeamIds) /\ IsFiniteSet(Users)
  /\ Addressees \subseteq Users \cup {None}
  /\ MaxTeams \in Nat /\ MaxRequests \in Nat /\ MaxReboots \in Nat

Roles == {"owner", "admin", "member"}

VARIABLES
  team,          \* the row of each team: still to come, there, gone
  role,          \* team_members: the role of a user in a team, or "none"
  gone,          \* users that have been deleted
  invite,        \* the invites there are: [token, team, role, for]
  issued,        \* tokens that have been given out
  expired,       \* tokens whose 72 hours are over
  at, job,       \* the handlers
  requests, reboots,
  joins,         \* history: how many users each token has let in
  contested,     \* history: tokens that were found by two calls at once,
  torn,          \*   or whose call a restart ended between joining and burning
  overtaken      \* history: calls that another one has taken the ground from

tables == <<team, role, gone>>
inviteTable == <<invite, issued, expired>>
history == <<joins, contested, torn, overtaken>>
teamsVars == <<team, role, gone, invite, issued, expired, at, job, requests, reboots,
               joins, contested, torn, overtaken>>

\* What a handler keeps: who asks, the team, whom it is about, the role to give,
\* the role the asker was found to have, and the token.
Jobs == [by : Users, team : TeamIds \cup {None}, user : Users \cup {None}, role : Roles,
         found : Roles \cup {"none"}, token : Tokens \cup {None}]
NoJob == [by |-> None, team |-> None, user |-> None, role |-> "member", found |-> "none",
          token |-> None]

Invites == [token : Tokens, team : TeamIds, role : Roles \ {"owner"}, for : Addressees]

\* No team yet, or one with an owner.
Init ==
  /\ team \in [TeamIds -> {"none", "there"}]
  /\ role \in [TeamIds -> [Users -> Roles \cup {"none"}]]
  /\ \A t \in TeamIds :
       IF team[t] = "there" THEN \E u \in Users : role[t][u] = "owner"
                            ELSE role[t] = [u \in Users |-> "none"]
  /\ gone = {}
  /\ invite = {} /\ issued = {} /\ expired = {}
  /\ at = [c \in Callers |-> "idle"] /\ job = [c \in Callers |-> NoJob]
  /\ requests = 0 /\ reboots = 0
  /\ joins = [k \in Tokens |-> 0]
  /\ contested = {} /\ torn = {} /\ overtaken = {}

-----------------------------------------------------------------------------
(* Rights.                                                                 *)

Owners(t) == {u \in Users : role[t][u] = "owner"}

\* countTeamOwners joins the users.
OwnersCounted(t) == Cardinality(Owners(t) \ gone)

\* canManageTeam
CanManage(u, t) == u \in Superadmins \/ role[t][u] \in {"owner", "admin"}

\* A rule that team admins are trusted with all roles.
PrivilegedLoosely(j) == j.by \in Superadmins \/ j.found \in {"owner", "admin"}

Privileged(j) == j.by \in Superadmins \/ j.found = "owner"

\* CanCreateTeam
MayOwnMore(u) ==
  u \in Superadmins \/ Cardinality({t \in TeamIds : role[t][u] = "owner"}) < MaxTeams

-----------------------------------------------------------------------------
(* Requests, with the first look of each.                                  *)

Begin(c, step, j) ==
  /\ at[c] = "idle" /\ requests < MaxRequests /\ requests' = requests + 1
  /\ j.by \notin gone
  /\ at' = [at EXCEPT ![c] = step] /\ job' = [job EXCEPT ![c] = j]
  /\ overtaken' = overtaken \ {c}
  /\ UNCHANGED <<tables, inviteTable, reboots, joins, torn>>

\* handleCreateTeam
AskCreate(c, u) == MayOwnMore(u) /\ Begin(c, "insert team", [NoJob EXCEPT !.by = u, !.user = u])

\* handleAddMember: canManageTeam, and the user must exist.
AskAdd(c, u, t, x, r) ==
  CanManage(u, t) /\ x \notin gone /\
  Begin(c, "caller's role", [NoJob EXCEPT !.by = u, !.team = t, !.user = x, !.role = r])

\* handleRemoveMember
AskRemove(c, u, t, x) ==
  CanManage(u, t) /\ Begin(c, "target's role", [NoJob EXCEPT !.by = u, !.team = t, !.user = x])

\* handleDeleteTeam
AskDelete(c, u, t) ==
  (u \in Superadmins \/ role[t][u] = "owner")
    /\ Begin(c, "delete members", [NoJob EXCEPT !.by = u, !.team = t])

\* handleCreateInviteLink, handleInviteEmail: the mail itself may fail later.
AskInvite(c, u, t, r, x) ==
  /\ CanManage(u, t) /\ r # "owner"
  /\ Begin(c, "invite", [NoJob EXCEPT !.by = u, !.team = t, !.user = x, !.role = r])

\* handleAcceptInvite: GetInvite, the 72 hours, the address.
AskAccept(c, u, i) ==
  /\ i.token \in expired \/ i.for \in {u, None}
  /\ Begin(c, IF i.token \in expired THEN "drop invite" ELSE "join",
           [NoJob EXCEPT !.by = u, !.team = i.team, !.user = u, !.role = i.role,
                         !.token = i.token])

Ask(c) ==
  \/ /\ \E u \in Users :
          \/ AskCreate(c, u)
          \/ \E t \in TeamIds : AskDelete(c, u, t)
          \/ \E t \in TeamIds, x \in Users : AskRemove(c, u, t, x)
          \/ \E t \in TeamIds, x \in Users, r \in Roles : AskAdd(c, u, t, x, r)
          \/ \E t \in TeamIds, x \in Addressees, r \in Roles : AskInvite(c, u, t, r, x)
     /\ UNCHANGED contested
  \/ \E u \in Users, i \in invite :
       /\ AskAccept(c, u, i)
       /\ contested' = IF \E o \in Callers : at[o] \in {"join", "burn"} /\ job[o].token = i.token
                         THEN contested \cup {i.token} ELSE contested

-----------------------------------------------------------------------------
(* Looks and statements.                                                   *)

Goto(c, step) ==
  /\ at' = [at EXCEPT ![c] = step]
  /\ UNCHANGED <<job, requests, reboots>>
Answers(c) ==
  /\ at' = [at EXCEPT ![c] = "idle"] /\ job' = [job EXCEPT ![c] = NoJob]
  /\ UNCHANGED <<requests, reboots>>
Notes(c, r, step) ==
  /\ at' = [at EXCEPT ![c] = step]
  /\ job' = [job EXCEPT ![c] = [job[c] EXCEPT !.found = r]]
  /\ UNCHANGED <<requests, reboots>>

Looks(c) == UNCHANGED <<tables, inviteTable, history>>

\* Whoever works on team t when user u goes from owner to another role or back.
Overtakes(c, t, u, r) ==
  overtaken' = IF (role[t][u] = "owner") = (r = "owner") THEN overtaken
               ELSE overtaken \cup {o \in Callers \ {c} : at[o] # "idle" /\ job[o].team = t}

Write(c, t, u, r) ==
  /\ role' = [role EXCEPT ![t] = [role[t] EXCEPT ![u] = r]]
  /\ Overtakes(c, t, u, r)
  /\ UNCHANGED <<team, gone>>

\* CreateTeam, whose slug may be taken, and the first member.
InsertTeam(c) ==
  /\ at[c] = "insert team"
  /\ \/ \E t \in TeamIds :
          /\ team[t] = "none" /\ team' = [team EXCEPT ![t] = "there"]
          /\ at' = [at EXCEPT ![c] = "make owner"]
          /\ job' = [job EXCEPT ![c] = [job[c] EXCEPT !.team = t, !.role = "owner"]]
          /\ UNCHANGED <<requests, reboots>>
     \/ Answers(c) /\ UNCHANGED team
  /\ UNCHANGED <<role, gone, inviteTable, history>>

\* AddTeamMember inserts the row or changes its role.
AddTeamMember(c) ==
  /\ at[c] \in {"make owner", "upsert"} /\ Answers(c)
  /\ Write(c, job[c].team, job[c].user, job[c].role)
  /\ UNCHANGED <<inviteTable, joins, contested, torn>>

\* handleAddMember asks for the caller's role, then for the target's.
CallersRole(c) ==
  /\ at[c] = "caller's role" /\ Looks(c)
  /\ Notes(c, role[job[c].team][job[c].by], "may give")
MayGive(c) ==
  LET j == job[c] IN
  /\ at[c] = "may give" /\ Looks(c)
  /\ IF Privileged(j) \/ "owner" \notin {j.role, role[j.team][j.user]}
       THEN Goto(c, "upsert") ELSE Answers(c)

\* handleRemoveMember asks for the target's role, then for the caller's, and
\* counts, if the target is an owner.
TargetsRole(c) ==
  LET r == role[job[c].team][job[c].user] IN
  /\ at[c] = "target's role" /\ Looks(c)
  /\ CASE r = "none" -> Answers(c)
       [] r = "owner" -> Goto(c, "may remove")
       [] OTHER -> Goto(c, "remove")
MayRemove(c) ==
  LET r == role[job[c].team][job[c].by] IN
  /\ at[c] = "may remove" /\ Looks(c)
  /\ IF Privileged([job[c] EXCEPT !.found = r]) THEN Goto(c, "count") ELSE Answers(c)

\* A count that is content with the owner who is to go.
CountLoosely(c) ==
  /\ at[c] = "count" /\ Looks(c)
  /\ IF OwnersCounted(job[c].team) <= 0 THEN Answers(c) ELSE Goto(c, "remove")

Count(c) ==
  /\ at[c] = "count" /\ Looks(c)
  /\ IF OwnersCounted(job[c].team) <= 1 THEN Answers(c) ELSE Goto(c, "remove")

RemoveTeamMember(c) ==
  /\ at[c] = "remove" /\ Answers(c)
  /\ Write(c, job[c].team, job[c].user, "none")
  /\ UNCHANGED <<inviteTable, joins, contested, torn>>

\* DeleteTeam: the memberships, then the team; invites stay.
DeleteTeam(c) ==
  LET t == job[c].team IN
  /\ UNCHANGED <<gone, inviteTable, joins, contested, torn>>
  /\ \/ /\ at[c] = "delete members" /\ Goto(c, "delete team")
        /\ role' = [role EXCEPT ![t] = [u \in Users |-> "none"]]
        /\ overtaken' = overtaken \cup {o \in Callers \ {c} : at[o] # "idle" /\ job[o].team = t}
        /\ UNCHANGED team
     \/ /\ at[c] = "delete team" /\ Answers(c)
        /\ team' = [team EXCEPT ![t] = IF @ = "there" THEN "gone" ELSE @]
        /\ UNCHANGED <<role, overtaken>>

CreateInvite(c) ==
  /\ at[c] = "invite" /\ Answers(c)
  /\ \E k \in Tokens \ issued :
       /\ issued' = issued \cup {k}
       /\ invite' = invite \cup {[token |-> k, team |-> job[c].team, role |-> job[c].role,
                                  for |-> job[c].user]}
  /\ UNCHANGED <<tables, expired, history>>

\* handleAcceptInvite: the upsert, then the token.
Join(c) ==
  LET k == job[c].token IN
  /\ at[c] = "join" /\ Goto(c, "burn")
  /\ Write(c, job[c].team, job[c].user, job[c].role)
  /\ joins' = [joins EXCEPT ![k] = @ + 1]
  /\ UNCHANGED <<inviteTable, contested, torn>>

\* An invite that stays after it was used.
BurnNothing(c) ==
  /\ at[c] \in {"burn", "drop invite"} /\ Answers(c)
  /\ UNCHANGED <<tables, inviteTable, history>>

\* DeleteInvite, of a token that was used or is over.
Burn(c) ==
  /\ at[c] \in {"burn", "drop invite"} /\ Answers(c)
  /\ invite' = {i \in invite : i.token # job[c].token}
  /\ UNCHANGED <<tables, issued, expired, history>>

HoursOver(k) ==
  /\ k \in issued \ expired /\ expired' = expired \cup {k}
  /\ UNCHANGED <<tables, invite, issued, at, job, requests, reboots, history>>

\* The last statement of handleDeleteUser: Accounts has the others.
DeleteUser(u) ==
  /\ u \notin gone \cup Superadmins
  /\ requests < MaxRequests /\ requests' = requests + 1
  /\ gone' = gone \cup {u}
  /\ role' = [t \in TeamIds |-> [role[t] EXCEPT ![u] = "none"]]
  /\ overtaken' = overtaken \cup {c \in Callers :
                     \E t \in TeamIds : job[c].team = t /\ u \in Owners(t)}
  /\ UNCHANGED <<team, inviteTable, at, job, reboots, joins, contested, torn>>

Reboot ==
  /\ reboots < MaxReboots /\ reboots' = reboots + 1
  /\ at' = [c \in Callers |-> "idle"] /\ job' = [c \in Callers |-> NoJob]
  /\ torn' = torn \cup {job[c].token : c \in {d \in Callers : at[d] = "burn"}}
  /\ UNCHANGED <<tables, inviteTable, requests, joins, contested, overtaken>>

CallerStep(c) ==
  \/ InsertTeam(c) \/ AddTeamMember(c)
  \/ CallersRole(c) \/ MayGive(c)
  \/ TargetsRole(c) \/ MayRemove(c) \/ Count(c) \/ RemoveTeamMember(c)
  \/ DeleteTeam(c)
  \/ CreateInvite(c) \/ Join(c) \/ Burn(c)

Next ==
  \/ \E c \in Callers : Ask(c) \/ CallerStep(c)
  \/ \E k \in Tokens : HoursOver(k)
  \/ \E u \in Users : DeleteUser(u)
  \/ Reboot

Spec == Init /\ [][Next]_teamsVars

-----------------------------------------------------------------------------
(* Properties.                                                             *)

Steps == {"idle", "insert team", "make owner", "caller's role", "may give", "upsert",
          "target's role", "may remove", "count", "remove", "delete members", "delete team",
          "invite", "join", "burn", "drop invite"}

\* Every variable stays in its type, and a team that is still to come has no
\* members and no invites.
TypeOK ==
  /\ team \in [TeamIds -> {"none", "there", "gone"}]
  /\ role \in [TeamIds -> [Users -> Roles \cup {"none"}]]
  /\ gone \subseteq Users
  /\ invite \subseteq Invites
  /\ {i.token : i \in invite} \cup expired \subseteq issued /\ issued \subseteq Tokens
  /\ at \in [Callers -> Steps]
  /\ \A c \in Callers : IF at[c] = "idle" THEN job[c] = NoJob ELSE job[c] \in Jobs
  /\ requests \in 0 .. MaxRequests /\ reboots \in 0 .. MaxReboots

\* A removal leaves the team an owner if it had one, as long as no other call took
\* an owner from the team, or made one of the user who goes, since this one began.
\* (Roles changed by AddTeamMember, invites that an owner accepts and accounts that
\* are deleted may take the last owner: only removals look.)
LeavesAnOwner ==
  [][\A c \in Callers :
       at[c] = "remove" /\ at'[c] = "idle" /\ c \notin overtaken /\ Owners(job[c].team) # {}
         => \E u \in Users : role'[job[c].team][u] = "owner"]_teamsVars

\* An invite lets one user in, unless two calls found it before either had removed
\* it, or a restart came between the joining and the removal.
InviteOnce == \A k \in Tokens \ (contested \cup torn) : joins[k] <= 1

\* Ownership is the owners' business: in a step of a request, a user becomes an
\* owner, or an owner is taken the role, by the founder of the team, by a superadmin
\* or by an owner of that moment, unless owners changed since the request began.
\* Only an owner who accepts an invite gives the role away.
OwnersDecide ==
  [][\A t \in TeamIds, u \in Users :
       u \notin gone' /\ (role[t][u] = "owner") # (role'[t][u] = "owner") =>
         \E c \in Callers :
           /\ at[c] # at'[c] /\ job[c].team = t
           /\ \/ at[c] = "make owner"
              \/ job[c].by \in Superadmins \cup Owners(t)
              \/ c \in overtaken]_teamsVars

===============================================================================
