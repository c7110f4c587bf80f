------------------------------ MODULE TeamsProofs ------------------------------
(***************************************************************************)
(* Theorems about teams, for any number of teams, users, invites, calls at *)
(* a time and restarts: types, that an invite lets one user in, that a     *)
(* removal leaves an owner, and that owners decide who is one.             *)
(***************************************************************************)
EXTENDS Teams, FiniteSetTheorems, TLAPS

USE TeamsAssumption

-----------------------------------------------------------------------------
(* Types, with what a handler knows at each of its steps.                  *)

\* A job of a handler that stands at a step.
Fits(step, j) ==
  IF step = "idle" THEN j = NoJob
  ELSE /\ j \in Jobs
       /\ step # "insert team" => j.team \in TeamIds
       /\ step \notin {"delete members", "delete team", "invite", "burn", "drop invite"} =>
            j.user \in Users
       /\ step = "invite" => j.user \in Addressees /\ j.role # "owner"
       /\ step \in {"join", "burn"} => j.token \in Tokens
       /\ step = "join" => j.role # "owner" /\ j.user = j.by

TableTypes ==
  /\ team \in [TeamIds -> {"none", "there", "gone"}]
  /\ role \in [TeamIds -> [Users -> Roles \cup {"none"}]]
  /\ gone \subseteq Users

InviteTypes ==
  /\ invite \subseteq Invites
  /\ {i.token : i \in invite} \cup expired \subseteq issued /\ issued \subseteq Tokens
  /\ joins \in [Tokens -> Nat]

HandlerTypes ==
  /\ at \in [Callers -> Steps] /\ job = [c \in Callers |-> job[c]]
  /\ \A c \in Callers : Fits(at[c], job[c])

CountTypes == requests \in 0 .. MaxRequests /\ reboots \in 0 .. MaxReboots

Types == TableTypes /\ InviteTypes /\ HandlerTypes /\ CountTypes

LEMMA TypesAreTypeOK == Types => TypeOK
BY DEF Types, TableTypes, InviteTypes, HandlerTypes, CountTypes, TypeOK, Fits

\* A handler goes to a step, the others stay where they are.
LEMMA HandlerGoes ==
  ASSUME HandlerTypes, NEW c \in Callers, NEW step \in Steps, NEW j, Fits(step, j),
         at' = [at EXCEPT ![c] = step], job' = [job EXCEPT ![c] = j]
  PROVE  HandlerTypes'
<1>1. at' \in [Callers -> Steps] /\ job' = [o \in Callers |-> job'[o]]
  BY DEF HandlerTypes
<1>2. \A o \in Callers : at'[o] = (IF o = c THEN step ELSE at[o])
                         /\ job'[o] = (IF o = c THEN j ELSE job[o])
  BY DEF HandlerTypes
<1>3. ASSUME NEW o \in Callers PROVE Fits(at'[o], job'[o])
  <2>1. CASE o = c
    BY <1>2, <2>1
  <2>2. CASE o # c
    BY <1>2, <2>2 DEF HandlerTypes
  <2> QED
    BY <2>1, <2>2
<1> QED
  BY <1>1, <1>3 DEF HandlerTypes

LEMMA GotoTypes ==
  ASSUME Types, NEW c \in Callers, NEW step \in Steps, Goto(c, step), Fits(step, job[c])
  PROVE  HandlerTypes' /\ CountTypes'
<1>1. job' = [job EXCEPT ![c] = job[c]]
  BY DEF Goto, Types, HandlerTypes
<1> QED
  BY <1>1, HandlerGoes DEF Goto, Types, CountTypes

LEMMA AnswersTypes ==
  ASSUME Types, NEW c \in Callers, Answers(c)
  PROVE  HandlerTypes' /\ CountTypes'
<1>1. "idle" \in Steps /\ Fits("idle", NoJob)
  BY DEF Steps, Fits
<1> QED
  BY <1>1, HandlerGoes DEF Answers, Types, CountTypes

\* What Fits says of the job of a caller that is at work.
LEMMA JobAtWork ==
  ASSUME HandlerTypes, NEW c \in Callers, at[c] # "idle"
  PROVE  /\ job[c] \in Jobs /\ Fits(at[c], job[c])
         /\ job[c].by \in Users
BY DEF HandlerTypes, Fits, Jobs

-----------------------------------------------------------------------------
(* A role is written.                                                      *)

LEMMA Written ==
  ASSUME TableTypes, NEW c, NEW t \in TeamIds, NEW u \in Users, NEW r \in Roles \cup {"none"},
         Write(c, t, u, r)
  PROVE  /\ TableTypes'
         /\ \A s \in TeamIds, x \in Users :
              role'[s][x] = IF s = t /\ x = u THEN r ELSE role[s][x]
<1> DEFINE row == [role[t] EXCEPT ![u] = r]
<1>1. role[t] \in [Users -> Roles \cup {"none"}]
  BY DEF TableTypes
<1>2. row \in [Users -> Roles \cup {"none"}] /\ \A x \in Users : row[x] = IF x = u THEN r ELSE role[t][x]
  BY <1>1
<1>3. role' = [role EXCEPT ![t] = row] /\ team' = team /\ gone' = gone
  BY DEF Write
<1> HIDE DEF row
<1>4. role' \in [TeamIds -> [Users -> Roles \cup {"none"}]]
  BY <1>2, <1>3 DEF TableTypes
<1>5. \A s \in TeamIds : role'[s] = IF s = t THEN row ELSE role[s]
  BY <1>3 DEF TableTypes
<1> QED
  BY <1>2, <1>3, <1>4, <1>5 DEF TableTypes

LEMMA WrittenAt ==
  \A c \in Callers, t \in TeamIds, u \in Users, r \in Roles \cup {"none"} :
    TableTypes /\ Write(c, t, u, r) =>
      /\ role'[t][u] = r
      /\ \A s \in TeamIds, x \in Users : s # t \/ x # u => role'[s][x] = role[s][x]
BY Written

-----------------------------------------------------------------------------
(* Requests keep the types.                                                *)

LEMMA BeginTypes ==
  ASSUME Types, NEW c \in Callers, NEW step \in Steps, NEW j, Fits(step, j), Begin(c, step, j)
  PROVE  Types'
<1>1. HandlerTypes'
  BY HandlerGoes DEF Begin, Types
<1>2. TableTypes' /\ InviteTypes'
  BY DEF Begin, tables, inviteTable, Types, TableTypes, InviteTypes
<1>3. CountTypes'
  BY DEF Begin, Types, CountTypes
<1> QED
  BY <1>1, <1>2, <1>3 DEF Types

LEMMA AskTypes ==
  ASSUME Types, NEW c \in Callers, Ask(c)
  PROVE  Types'
<1>1. ASSUME NEW u \in Users, AskCreate(c, u) PROVE Types'
  <2> DEFINE j == [NoJob EXCEPT !.by = u, !.user = u]
  <2>1. Fits("insert team", j) /\ "insert team" \in Steps
    BY DEF NoJob, Fits, Jobs, Roles, Steps
  <2> QED
    BY <1>1, <2>1, BeginTypes DEF AskCreate
<1>2. ASSUME NEW u \in Users, NEW t \in TeamIds, AskDelete(c, u, t) PROVE Types'
  <2> DEFINE j == [NoJob EXCEPT !.by = u, !.team = t]
  <2>1. Fits("delete members", j) /\ "delete members" \in Steps
    BY DEF NoJob, Fits, Jobs, Roles, Steps
  <2> QED
    BY <1>2, <2>1, BeginTypes DEF AskDelete
<1>3. ASSUME NEW u \in Users, NEW t \in TeamIds, NEW x \in Users, AskRemove(c, u, t, x)
      PROVE  Types'
  <2> DEFINE j == [NoJob EXCEPT !.by = u, !.team = t, !.user = x]
  <2>1. Fits("target's role", j) /\ "target's role" \in Steps
    BY DEF NoJob, Fits, Jobs, Roles, Steps
  <2> QED
    BY <1>3, <2>1, BeginTypes DEF AskRemove
<1>4. ASSUME NEW u \in Users, NEW t \in TeamIds, NEW x \in Users, NEW r \in Roles,
             AskAdd(c, u, t, x, r)
      PROVE  Types'
  <2> DEFINE j == [NoJob EXCEPT !.by = u, !.team = t, !.user = x, !.role = r]
  <2>1. Fits("caller's role", j) /\ "caller's role" \in Steps
    BY DEF NoJob, Fits, Jobs, Roles, Steps
  <2> QED
    BY <1>4, <2>1, BeginTypes DEF AskAdd
<1>5. ASSUME NEW u \in Users, NEW t \in TeamIds, NEW x \in Addressees, NEW r \in Roles,
             AskInvite(c, u, t, r, x)
      PROVE  Types'
  <2> DEFINE j == [NoJob EXCEPT !.by = u, !.team = t, !.user = x, !.role = r]
  <2>1. r # "owner"
    BY <1>5 DEF AskInvite
  <2>2. Fits("invite", j) /\ "invite" \in Steps
    BY <2>1 DEF NoJob, Fits, Jobs, Roles, Steps
  <2> QED
    BY <1>5, <2>2, BeginTypes DEF AskInvite
<1>6. ASSUME NEW u \in Users, NEW i \in invite, AskAccept(c, u, i) PROVE Types'
  <2> DEFINE j == [NoJob EXCEPT !.by = u, !.team = i.team, !.user = u, !.role = i.role,
                                !.token = i.token]
  <2>1. /\ i.team \in TeamIds /\ i.token \in Tokens /\ i.role \in Roles /\ i.role # "owner"
    BY DEF Types, InviteTypes, Invites
  <2>2. Fits("join", j) /\ Fits("drop invite", j) /\ "join" \in Steps /\ "drop invite" \in Steps
    BY <2>1 DEF NoJob, Fits, Jobs, Roles, Steps
  <2> HIDE DEF j
  <2>3. Begin(c, IF i.token \in expired THEN "drop invite" ELSE "join", j)
    BY <1>6 DEF AskAccept, j
  <2>4. CASE i.token \in expired
    BY <2>2, <2>3, <2>4, BeginTypes
  <2>5. CASE i.token \notin expired
    BY <2>2, <2>3, <2>5, BeginTypes
  <2> QED
    BY <2>4, <2>5
<1> QED
  BY <1>1, <1>2, <1>3, <1>4, <1>5, <1>6 DEF Ask

-----------------------------------------------------------------------------
(* Statements keep them.                                                   *)

LEMMA InsertTeamTypes ==
  ASSUME Types, NEW c \in Callers, InsertTeam(c)
  PROVE  Types'
<1>1. InviteTypes'
  BY DEF InsertTeam, inviteTable, history, Types, InviteTypes
<1>2. ASSUME NEW t \in TeamIds, team' = [team EXCEPT ![t] = "there"],
             at' = [at EXCEPT ![c] = "make owner"],
             job' = [job EXCEPT ![c] = [job[c] EXCEPT !.team = t, !.role = "owner"]],
             UNCHANGED <<requests, reboots>>
      PROVE  Types'
  <2>1. job[c] \in Jobs /\ Fits("insert team", job[c]) /\ job[c].user \in Users
    BY JobAtWork DEF InsertTeam, Types, Fits
  <2> DEFINE j == [job[c] EXCEPT !.team = t, !.role = "owner"]
  <2>2. j \in Jobs /\ j.team = t /\ j.user = job[c].user
    BY <2>1 DEF Jobs, Roles
  <2>3. Fits("make owner", j) /\ "make owner" \in Steps
    BY <2>1, <2>2 DEF Fits, Steps
  <2>4. HandlerTypes'
    BY <1>2, <2>3, HandlerGoes DEF Types
  <2>5. TableTypes' /\ CountTypes'
    BY <1>2 DEF InsertTeam, Types, TableTypes, CountTypes
  <2> QED
    BY <1>1, <2>4, <2>5 DEF Types
<1>3. CASE Answers(c) /\ UNCHANGED team
  <2>1. TableTypes'
    BY <1>3 DEF InsertTeam, Types, TableTypes
  <2> QED
    BY <1>1, <1>3, <2>1, AnswersTypes DEF Types
<1> QED
  BY <1>2, <1>3 DEF InsertTeam

\* The statements that write a role: who, where and what it is.
LEMMA WritesFit ==
  ASSUME Types, NEW c \in Callers, at[c] \in {"make owner", "upsert", "remove", "join"}
  PROVE  /\ job[c].team \in TeamIds /\ job[c].user \in Users /\ job[c].by \in Users
         /\ job[c].role \in Roles
BY JobAtWork DEF Types, Fits, Jobs

LEMMA AddTypes ==
  ASSUME Types, NEW c \in Callers, AddTeamMember(c)
  PROVE  Types'
<1>1. TableTypes'
  BY WritesFit, Written DEF AddTeamMember, Types
<1>2. InviteTypes'
  BY DEF AddTeamMember, inviteTable, Types, InviteTypes
<1> QED
  BY <1>1, <1>2, AnswersTypes DEF AddTeamMember, Types

LEMMA RemoveTypes ==
  ASSUME Types, NEW c \in Callers, RemoveTeamMember(c)
  PROVE  Types'
<1>1. TableTypes'
  BY WritesFit, Written DEF RemoveTeamMember, Types
<1>2. InviteTypes'
  BY DEF RemoveTeamMember, inviteTable, Types, InviteTypes
<1> QED
  BY <1>1, <1>2, AnswersTypes DEF RemoveTeamMember, Types

LEMMA JoinTypes ==
  ASSUME Types, NEW c \in Callers, Join(c)
  PROVE  Types'
<1>1. TableTypes'
  BY WritesFit, Written DEF Join, Types
<1>2. job[c] \in Jobs /\ Fits("join", job[c])
  BY JobAtWork DEF Join, Types
<1>3. Fits("burn", job[c]) /\ "burn" \in Steps
  BY <1>2 DEF Fits, Steps
<1>4. joins' \in [Tokens -> Nat]
  <2>1. job[c].token \in Tokens
    BY <1>2 DEF Fits
  <2>2. joins' = [joins EXCEPT ![job[c].token] = joins[job[c].token] + 1]
    BY DEF Join
  <2> QED
    BY <2>1, <2>2 DEF Types, InviteTypes
<1>5. InviteTypes'
  BY <1>4 DEF Join, inviteTable, Types, InviteTypes
<1> QED
  BY <1>1, <1>3, <1>5, GotoTypes DEF Join, Types

\* Looks change nothing but where the handler stands and what it knows.
LEMMA LooksTypes ==
  ASSUME Types, NEW c \in Callers,
         CallersRole(c) \/ MayGive(c) \/ TargetsRole(c) \/ MayRemove(c) \/ Count(c)
  PROVE  Types'
<1>1. TableTypes' /\ InviteTypes'
  BY DEF CallersRole, MayGive, TargetsRole, MayRemove, Count, Looks, tables, inviteTable,
         history, Types, TableTypes, InviteTypes
<1>2. /\ at[c] \in {"caller's role", "may give", "target's role", "may remove", "count"}
      /\ job[c] \in Jobs /\ Fits(at[c], job[c])
  BY JobAtWork DEF CallersRole, MayGive, TargetsRole, MayRemove, Count, Types
<1>3. job[c].team \in TeamIds /\ job[c].user \in Users /\ job[c].by \in Users
  BY <1>2 DEF Fits, Jobs
<1>4. \A step \in {"upsert", "may remove", "count", "remove"} :
        step \in Steps /\ Fits(step, job[c])
  BY <1>2, <1>3 DEF Fits, Steps
<1>5. CASE CallersRole(c)
  <2> DEFINE j == [job[c] EXCEPT !.found = role[job[c].team][job[c].by]]
  <2>1. role[job[c].team][job[c].by] \in Roles \cup {"none"}
    BY <1>3 DEF Types, TableTypes
  <2>2. j \in Jobs /\ j.team = job[c].team /\ j.user = job[c].user
    BY <1>2, <2>1 DEF Jobs
  <2>3. Fits("may give", j) /\ "may give" \in Steps
    BY <1>3, <2>2 DEF Fits, Steps
  <2>4. HandlerTypes' /\ CountTypes'
    BY <1>5, <2>3, HandlerGoes DEF CallersRole, Notes, Types, CountTypes
  <2> QED
    BY <1>1, <2>4 DEF Types
<1>6. CASE MayGive(c)
  BY <1>1, <1>4, <1>6, GotoTypes, AnswersTypes DEF MayGive, Types
<1>7. CASE TargetsRole(c)
  BY <1>1, <1>4, <1>7, GotoTypes, AnswersTypes DEF TargetsRole, Types
<1>8. CASE MayRemove(c)
  BY <1>1, <1>4, <1>8, GotoTypes, AnswersTypes DEF MayRemove, Types
<1>9. CASE Count(c)
  BY <1>1, <1>4, <1>9, GotoTypes, AnswersTypes DEF Count, Types
<1> QED
  BY <1>5, <1>6, <1>7, <1>8, <1>9

LEMMA DeleteTeamTypes ==
  ASSUME Types, NEW c \in Callers, DeleteTeam(c)
  PROVE  Types'
<1>1. InviteTypes'
  BY DEF DeleteTeam, inviteTable, Types, InviteTypes
<1>2. job[c] \in Jobs /\ Fits(at[c], job[c]) /\ job[c].team \in TeamIds
  BY JobAtWork DEF DeleteTeam, Types, Fits
<1>3. CASE at[c] = "delete members"
  <2>1. Fits("delete team", job[c]) /\ "delete team" \in Steps
    BY <1>2, <1>3 DEF Fits, Steps
  <2>2. /\ Goto(c, "delete team") /\ team' = team /\ gone' = gone
        /\ role' = [role EXCEPT ![job[c].team] = [u \in Users |-> "none"]]
    BY <1>3 DEF DeleteTeam
  <2>3. TableTypes'
    BY <1>2, <2>2 DEF Types, TableTypes
  <2> QED
    BY <1>1, <2>1, <2>2, <2>3, GotoTypes DEF Types
<1>4. CASE at[c] = "delete team"
  <2>1. TableTypes'
    BY <1>4 DEF DeleteTeam, Types, TableTypes
  <2>2. Answers(c)
    BY <1>4 DEF DeleteTeam
  <2> QED
    BY <1>1, <2>1, <2>2, AnswersTypes DEF Types
<1> QED
  BY <1>3, <1>4 DEF DeleteTeam

LEMMA InviteStepTypes ==
  ASSUME Types, NEW c \in Callers, CreateInvite(c) \/ Burn(c)
  PROVE  Types'
<1>1. TableTypes'
  BY DEF CreateInvite, Burn, tables, Types, TableTypes
<1>2. Answers(c) /\ joins' = joins
  BY DEF CreateInvite, Burn, history
<1>3. CASE CreateInvite(c)
  <2>1. /\ job[c].team \in TeamIds /\ job[c].user \in Addressees
        /\ job[c].role \in Roles \ {"owner"}
    BY <1>3, JobAtWork DEF CreateInvite, Types, Fits, Jobs
  <2>2. PICK k \in Tokens \ issued :
          /\ issued' = issued \cup {k}
          /\ invite' = invite \cup {[token |-> k, team |-> job[c].team, role |-> job[c].role,
                                     for |-> job[c].user]}
    BY <1>3 DEF CreateInvite
  <2>3. expired' = expired
    BY <1>3 DEF CreateInvite
  <2>4. InviteTypes'
    BY <1>2, <2>1, <2>2, <2>3 DEF Types, InviteTypes, Invites
  <2> QED
    BY <1>1, <1>2, <2>4, AnswersTypes DEF Types
<1>4. CASE Burn(c)
  <2>1. InviteTypes'
    BY <1>2, <1>4 DEF Burn, Types, InviteTypes
  <2> QED
    BY <1>1, <1>2, <2>1, AnswersTypes DEF Types
<1> QED
  BY <1>3, <1>4

LEMMA OtherTypes ==
  ASSUME Types, (\E k \in Tokens : HoursOver(k)) \/ (\E u \in Users : DeleteUser(u)) \/ Reboot
  PROVE  Types'
<1>1. ASSUME NEW k \in Tokens, HoursOver(k) PROVE Types'
  <2>1. TableTypes' /\ HandlerTypes' /\ CountTypes'
    BY <1>1 DEF HoursOver, tables, Types, TableTypes, HandlerTypes, CountTypes
  <2>2. InviteTypes'
    BY <1>1 DEF HoursOver, history, Types, InviteTypes
  <2> QED
    BY <2>1, <2>2 DEF Types
<1>2. ASSUME NEW u \in Users, DeleteUser(u) PROVE Types'
  <2>1. InviteTypes' /\ HandlerTypes' /\ CountTypes'
    BY <1>2 DEF DeleteUser, inviteTable, Types, InviteTypes, HandlerTypes, CountTypes
  <2>2. \A t \in TeamIds : [role[t] EXCEPT ![u] = "none"] \in [Users -> Roles \cup {"none"}]
    BY DEF Types, TableTypes
  <2>3. TableTypes'
    BY <1>2, <2>2 DEF DeleteUser, Types, TableTypes
  <2> QED
    BY <2>1, <2>3 DEF Types
<1>3. CASE Reboot
  <2>1. TableTypes' /\ InviteTypes' /\ CountTypes'
    BY <1>3 DEF Reboot, tables, inviteTable, Types, TableTypes, InviteTypes, CountTypes
  <2>2. HandlerTypes'
    BY <1>3 DEF Reboot, HandlerTypes, Fits, Steps
  <2> QED
    BY <2>1, <2>2 DEF Types
<1> QED
  BY <1>1, <1>2, <1>3

LEMMA NextTypes == Types /\ [Next]_teamsVars => Types'
<1> SUFFICES ASSUME Types, [Next]_teamsVars PROVE Types'
  OBVIOUS
<1>1. ASSUME NEW c \in Callers, CallerStep(c) PROVE Types'
  BY <1>1, InsertTeamTypes, AddTypes, LooksTypes, RemoveTypes, DeleteTeamTypes,
     InviteStepTypes, JoinTypes DEF CallerStep
<1>2. CASE UNCHANGED teamsVars
  BY <1>2 DEF teamsVars, Types, TableTypes, InviteTypes, HandlerTypes, CountTypes
<1> QED
  BY <1>1, <1>2, AskTypes, OtherTypes DEF Next

LEMMA InitTypes == Init => Types
BY DEF Init, Types, TableTypes, InviteTypes, HandlerTypes, CountTypes, Fits, Steps

\* Whatever calls overlap and wherever a restart cuts them off, the tables, the
\* invites and what the handlers of teams.go keep are of their types.
THEOREM TypeCorrect == Spec => []TypeOK
<1> QED
  BY InitTypes, NextTypes, TypesAreTypeOK, PTL DEF Spec

-----------------------------------------------------------------------------
(* An invite lets one user in.  While nobody else has found it, it is with *)
(* at most one call; its user has joined when that call is to remove it,   *)
(* and it is no longer there when the call is over.                        *)

Using(c, k) == at[c] \in {"join", "burn"} /\ job[c].token = k

InviteInv ==
  \A k \in Tokens :
    /\ k \notin issued => joins[k] = 0 /\ \A c \in Callers : ~Using(c, k)
    /\ k \notin contested \cup torn =>
         /\ \A c, d \in Callers : Using(c, k) /\ Using(d, k) => c = d
         /\ \A c \in Callers : Using(c, k) => joins[k] = (IF at[c] = "join" THEN 0 ELSE 1)
         /\ \A i \in invite :
              i.token = k /\ (\A c \in Callers : ~Using(c, k)) => joins[k] = 0
         /\ joins[k] <= 1

\* Steps that use no invite.
LEMMA InviteStill ==
  ASSUME Types, InviteInv, joins' = joins, contested \subseteq contested', torn \subseteq torn',
         issued \subseteq issued', invite' \subseteq invite,
         \A c \in Callers, k \in Tokens : Using(c, k)' <=> Using(c, k),
         \A c \in Callers, k \in Tokens : Using(c, k) => at'[c] = at[c]
  PROVE  InviteInv'
<1> SUFFICES ASSUME NEW k \in Tokens
             PROVE  /\ k \notin issued' => joins'[k] = 0 /\ \A c \in Callers : ~Using(c, k)'
                    /\ k \notin contested' \cup torn' =>
                         /\ \A c, d \in Callers : Using(c, k)' /\ Using(d, k)' => c = d
                         /\ \A c \in Callers :
                              Using(c, k)' => joins'[k] = (IF at'[c] = "join" THEN 0 ELSE 1)
                         /\ \A i \in invite' :
                              i.token = k /\ (\A c \in Callers : ~Using(c, k)') => joins'[k] = 0
                         /\ joins'[k] <= 1
  BY DEF InviteInv
<1>1. k \notin issued => joins[k] = 0 /\ \A c \in Callers : ~Using(c, k)
  BY DEF InviteInv
<1>2. k \notin contested \cup torn =>
        /\ \A c, d \in Callers : Using(c, k) /\ Using(d, k) => c = d
        /\ \A c \in Callers : Using(c, k) => joins[k] = (IF at[c] = "join" THEN 0 ELSE 1)
        /\ \A i \in invite : i.token = k /\ (\A c \in Callers : ~Using(c, k)) => joins[k] = 0
        /\ joins[k] <= 1
  BY DEF InviteInv
<1> QED
  BY <1>1, <1>2

\* A call of its own leaves no trace in what the others use.
LEMMA OthersUse ==
  ASSUME Types, NEW c \in Callers, NEW step \in Steps, NEW j,
         at' = [at EXCEPT ![c] = step], job' = [job EXCEPT ![c] = j]
  PROVE  /\ at'[c] = step /\ job'[c] = j
         /\ \A o \in Callers \ {c} : at'[o] = at[o] /\ job'[o] = job[o]
         /\ \A o \in Callers \ {c}, k \in Tokens : Using(o, k)' <=> Using(o, k)
BY DEF Types, HandlerTypes, Using

LEMMA AskInvites ==
  ASSUME Types, InviteInv, NEW c \in Callers, Ask(c)
  PROVE  InviteInv'
<1>1. ASSUME NEW step \in Steps \ {"join", "burn"}, NEW j, Begin(c, step, j),
             contested \subseteq contested'
      PROVE  InviteInv'
  <2>1. ~(at[c] \in {"join", "burn"}) /\ at'[c] = step
    BY <1>1, OthersUse DEF Begin
  <2>2. \A o \in Callers, k \in Tokens : Using(o, k)' <=> Using(o, k)
    BY <1>1, <2>1, OthersUse DEF Begin, Using
  <2>3. \A o \in Callers, k \in Tokens : Using(o, k) => at'[o] = at[o]
    BY <1>1, <2>1, OthersUse DEF Begin, Using
  <2> QED
    BY <1>1, <2>2, <2>3, InviteStill DEF Begin, inviteTable
<1>2. ASSUME NEW u \in Users, NEW i \in invite, AskAccept(c, u, i),
             contested' = IF \E o \in Callers : at[o] \in {"join", "burn"} /\ job[o].token = i.token
                            THEN contested \cup {i.token} ELSE contested
      PROVE  InviteInv'
  <2> DEFINE j == [NoJob EXCEPT !.by = u, !.team = i.team, !.user = u, !.role = i.role,
                                !.token = i.token]
  <2>1. j.token = i.token
    BY DEF NoJob
  <2> HIDE DEF j
  <2>2. Begin(c, IF i.token \in expired THEN "drop invite" ELSE "join", j)
    BY <1>2 DEF AskAccept, j
  <2>3. CASE i.token \in expired
    <3>1. "drop invite" \in Steps \ {"join", "burn"} /\ contested \subseteq contested'
      BY <1>2 DEF Steps
    <3> QED
      BY <1>1, <2>2, <2>3, <3>1
  <2>4. CASE i.token \notin expired
    <3>1. /\ at' = [at EXCEPT ![c] = "join"] /\ job' = [job EXCEPT ![c] = j] /\ "join" \in Steps
          /\ at[c] = "idle" /\ joins' = joins /\ torn' = torn /\ issued' = issued
          /\ invite' = invite
      BY <2>2, <2>4 DEF Begin, inviteTable, Steps
    <3>0. /\ at'[c] = "join" /\ job'[c] = j /\ \A o \in Callers \ {c} : at'[o] = at[o]
          /\ \A o \in Callers \ {c}, k \in Tokens : Using(o, k)' <=> Using(o, k)
      BY <3>1, OthersUse
    <3>2. /\ at'[c] = "join" /\ \A o \in Callers \ {c} : at'[o] = at[o]
          /\ \A o \in Callers \ {c}, k \in Tokens : Using(o, k)' <=> Using(o, k)
          /\ \A k \in Tokens : Using(c, k)' <=> k = i.token
          /\ \A k \in Tokens : ~Using(c, k)
      BY <2>1, <3>0, <3>1 DEF Using
    <3>3. i.token \in issued
      BY DEF Types, InviteTypes
    <3> SUFFICES ASSUME NEW k \in Tokens
                 PROVE  /\ k \notin issued' => joins'[k] = 0 /\ \A o \in Callers : ~Using(o, k)'
                        /\ k \notin contested' \cup torn' =>
                             /\ \A o, d \in Callers : Using(o, k)' /\ Using(d, k)' => o = d
                             /\ \A o \in Callers :
                                  Using(o, k)' => joins'[k] = (IF at'[o] = "join" THEN 0 ELSE 1)
                             /\ \A x \in invite' :
                                  x.token = k /\ (\A o \in Callers : ~Using(o, k)') => joins'[k] = 0
                             /\ joins'[k] <= 1
      BY DEF InviteInv
    <3>4. /\ k \notin issued => joins[k] = 0 /\ \A o \in Callers : ~Using(o, k)
          /\ k \notin contested \cup torn =>
               /\ \A o, d \in Callers : Using(o, k) /\ Using(d, k) => o = d
               /\ \A o \in Callers : Using(o, k) => joins[k] = (IF at[o] = "join" THEN 0 ELSE 1)
               /\ \A x \in invite : x.token = k /\ (\A o \in Callers : ~Using(o, k)) => joins[k] = 0
               /\ joins[k] <= 1
      BY DEF InviteInv
    <3>5. CASE k # i.token
      <4>1. \A o \in Callers : Using(o, k)' <=> Using(o, k)
        BY <3>2, <3>5
      <4>2. k \notin contested' \cup torn' => k \notin contested \cup torn
        BY <1>2, <3>1
      <4>3. \A o \in Callers : Using(o, k) => at'[o] = at[o]
        BY <3>2
      <4> QED
        BY <3>1, <3>4, <4>1, <4>2, <4>3
    <3>6. CASE k = i.token /\ \E o \in Callers : Using(o, k)
      <4>1. k \in contested'
        BY <1>2, <3>6 DEF Using
      <4> QED
        BY <3>1, <3>3, <3>6, <4>1
    <3>7. CASE k = i.token /\ \A o \in Callers : ~Using(o, k)
      <4>1. \A o \in Callers : Using(o, k)' <=> o = c
        BY <3>2, <3>7
      <4>2. k \notin contested' \cup torn' => k \notin contested \cup torn
        BY <1>2, <3>1
      <4>3. k \notin contested \cup torn => joins[k] = 0
        BY <3>4, <3>7
      <4> QED
        BY <3>1, <3>2, <3>3, <3>7, <4>1, <4>2, <4>3
    <3> QED
      BY <3>5, <3>6, <3>7
  <2> QED
    BY <2>3, <2>4
<1>3. CASE contested' = contested /\ \E u \in Users :
             \/ AskCreate(c, u)
             \/ \E t \in TeamIds : AskDelete(c, u, t)
             \/ \E t \in TeamIds, x \in Users : AskRemove(c, u, t, x)
             \/ \E t \in TeamIds, x \in Users, r \in Roles : AskAdd(c, u, t, x, r)
             \/ \E t \in TeamIds, x \in Addressees, r \in Roles : AskInvite(c, u, t, r, x)
  <2>1. \E step \in {"insert team", "delete members", "target's role", "caller's role", "invite"} :
          \E j : Begin(c, step, j)
    BY <1>3 DEF AskCreate, AskDelete, AskRemove, AskAdd, AskInvite
  <2> QED
    BY <1>1, <1>3, <2>1 DEF Steps
<1> QED
  BY <1>2, <1>3 DEF Ask

\* Answers and steps that have no invite at hand.
LEMMA IdleInvites ==
  ASSUME Types, InviteInv, NEW c \in Callers, at[c] \notin {"join", "burn"},
         NEW step \in Steps \ {"join", "burn"}, NEW j,
         at' = [at EXCEPT ![c] = step], job' = [job EXCEPT ![c] = j],
         joins' = joins, contested' = contested, torn' = torn,
         issued' = issued, invite' \subseteq invite
  PROVE  InviteInv'
<1>1. /\ at'[c] = step /\ \A o \in Callers \ {c} : at'[o] = at[o]
      /\ \A o \in Callers \ {c}, k \in Tokens : Using(o, k)' <=> Using(o, k)
  BY OthersUse
<1>2. \A o \in Callers, k \in Tokens : Using(o, k)' <=> Using(o, k)
  BY <1>1 DEF Using
<1>3. \A o \in Callers, k \in Tokens : Using(o, k) => at'[o] = at[o]
  BY <1>1 DEF Using
<1> QED
  BY <1>2, <1>3, InviteStill

LEMMA CreateInvites ==
  ASSUME Types, InviteInv, NEW c \in Callers, CreateInvite(c)
  PROVE  InviteInv'
<1>1. PICK n \in Tokens \ issued :
        /\ issued' = issued \cup {n}
        /\ invite' = invite \cup {[token |-> n, team |-> job[c].team, role |-> job[c].role,
                                   for |-> job[c].user]}
  BY DEF CreateInvite
<1>2. /\ at' = [at EXCEPT ![c] = "idle"] /\ job' = [job EXCEPT ![c] = NoJob]
      /\ at[c] = "invite" /\ "idle" \in Steps
      /\ joins' = joins /\ contested' = contested /\ torn' = torn
  BY DEF CreateInvite, Answers, history, Steps
<1>3. /\ at'[c] = "idle" /\ \A o \in Callers \ {c} : at'[o] = at[o]
      /\ \A o \in Callers \ {c}, k \in Tokens : Using(o, k)' <=> Using(o, k)
  BY <1>2, OthersUse
<1>4. \A o \in Callers, k \in Tokens : Using(o, k)' <=> Using(o, k)
  BY <1>2, <1>3 DEF Using
<1>5. \A o \in Callers, k \in Tokens : Using(o, k) => at'[o] = at[o]
  BY <1>2, <1>3 DEF Using
<1> SUFFICES ASSUME NEW k \in Tokens
             PROVE  /\ k \notin issued' => joins'[k] = 0 /\ \A o \in Callers : ~Using(o, k)'
                    /\ k \notin contested' \cup torn' =>
                         /\ \A o, d \in Callers : Using(o, k)' /\ Using(d, k)' => o = d
                         /\ \A o \in Callers :
                              Using(o, k)' => joins'[k] = (IF at'[o] = "join" THEN 0 ELSE 1)
                         /\ \A x \in invite' :
                              x.token = k /\ (\A o \in Callers : ~Using(o, k)') => joins'[k] = 0
                         /\ joins'[k] <= 1
  BY DEF InviteInv
<1>6. /\ k \notin issued => joins[k] = 0 /\ \A o \in Callers : ~Using(o, k)
      /\ k \notin contested \cup torn =>
           /\ \A o, d \in Callers : Using(o, k) /\ Using(d, k) => o = d
           /\ \A o \in Callers : Using(o, k) => joins[k] = (IF at[o] = "join" THEN 0 ELSE 1)
           /\ \A x \in invite : x.token = k /\ (\A o \in Callers : ~Using(o, k)) => joins[k] = 0
           /\ joins[k] <= 1
  BY DEF InviteInv
<1>7. \A x \in invite' : x.token = k => x \in invite \/ k \notin issued
  BY <1>1
<1> QED
  BY <1>1, <1>2, <1>4, <1>5, <1>6, <1>7

LEMMA JoinInvites ==
  ASSUME Types, InviteInv, NEW c \in Callers, Join(c)
  PROVE  InviteInv'
<1> DEFINE t == job[c].token
<1>1. t \in Tokens /\ at[c] = "join" /\ Using(c, t)
  BY JobAtWork DEF Join, Types, Fits, Using
<1>2. /\ at' = [at EXCEPT ![c] = "burn"] /\ job' = job
      /\ joins' = [joins EXCEPT ![t] = joins[t] + 1]
      /\ invite' = invite /\ issued' = issued /\ contested' = contested /\ torn' = torn
  BY DEF Join, Goto, inviteTable
<1>3. at'[c] = "burn" /\ \A o \in Callers \ {c} : at'[o] = at[o]
  BY <1>2 DEF Types, HandlerTypes
<1>4. \A o \in Callers, k \in Tokens : Using(o, k)' <=> Using(o, k)
  BY <1>1, <1>2, <1>3 DEF Using
<1>5. \A k \in Tokens : Using(c, k) <=> k = t
  BY <1>1 DEF Using
<1>6. \A k \in Tokens : joins'[k] = (IF k = t THEN joins[t] + 1 ELSE joins[k]) /\ joins[k] \in Nat
  BY <1>1, <1>2 DEF Types, InviteTypes
<1> HIDE DEF t
<1> SUFFICES ASSUME NEW k \in Tokens
             PROVE  /\ k \notin issued' => joins'[k] = 0 /\ \A o \in Callers : ~Using(o, k)'
                    /\ k \notin contested' \cup torn' =>
                         /\ \A o, d \in Callers : Using(o, k)' /\ Using(d, k)' => o = d
                         /\ \A o \in Callers :
                              Using(o, k)' => joins'[k] = (IF at'[o] = "join" THEN 0 ELSE 1)
                         /\ \A x \in invite' :
                              x.token = k /\ (\A o \in Callers : ~Using(o, k)') => joins'[k] = 0
                         /\ joins'[k] <= 1
  BY DEF InviteInv
<1>7. /\ k \notin issued => joins[k] = 0 /\ \A o \in Callers : ~Using(o, k)
      /\ k \notin contested \cup torn =>
           /\ \A o, d \in Callers : Using(o, k) /\ Using(d, k) => o = d
           /\ \A o \in Callers : Using(o, k) => joins[k] = (IF at[o] = "join" THEN 0 ELSE 1)
           /\ \A x \in invite : x.token = k /\ (\A o \in Callers : ~Using(o, k)) => joins[k] = 0
           /\ joins[k] <= 1
  BY DEF InviteInv
<1>8. CASE k # t
  BY <1>2, <1>3, <1>4, <1>5, <1>6, <1>7, <1>8
<1>9. CASE k = t
  <2>1. k \in issued
    BY <1>5, <1>7, <1>9
  <2>2. k \notin contested \cup torn => joins'[k] = 1 /\ \A o \in Callers : Using(o, k) => o = c
    BY <1>1, <1>5, <1>6, <1>7, <1>9
  <2> QED
    BY <1>2, <1>3, <1>4, <1>5, <1>9, <2>1, <2>2
<1> QED
  BY <1>8, <1>9

LEMMA BurnInvites ==
  ASSUME Types, InviteInv, NEW c \in Callers, Burn(c)
  PROVE  InviteInv'
<1>1. /\ at' = [at EXCEPT ![c] = "idle"] /\ job' = [job EXCEPT ![c] = NoJob]
      /\ "idle" \in Steps \ {"join", "burn"}
      /\ invite' = {i \in invite : i.token # job[c].token}
      /\ joins' = joins /\ issued' = issued /\ contested' = contested /\ torn' = torn
  BY DEF Burn, Answers, history, Steps
<1>2. CASE at[c] = "drop invite"
  BY <1>1, <1>2, IdleInvites
<1>3. CASE at[c] = "burn"
  <2>1. /\ at'[c] = "idle" /\ \A o \in Callers \ {c} : at'[o] = at[o]
        /\ \A o \in Callers \ {c}, k \in Tokens : Using(o, k)' <=> Using(o, k)
    BY <1>1, OthersUse
  <2>2. \A k \in Tokens : ~Using(c, k)' /\ (Using(c, k) <=> k = job[c].token)
    BY <1>3, <2>1 DEF Using
  <2> SUFFICES ASSUME NEW k \in Tokens
               PROVE  /\ k \notin issued' => joins'[k] = 0 /\ \A o \in Callers : ~Using(o, k)'
                      /\ k \notin contested' \cup torn' =>
                           /\ \A o, d \in Callers : Using(o, k)' /\ Using(d, k)' => o = d
                           /\ \A o \in Callers :
                                Using(o, k)' => joins'[k] = (IF at'[o] = "join" THEN 0 ELSE 1)
                           /\ \A x \in invite' :
                                x.token = k /\ (\A o \in Callers : ~Using(o, k)') => joins'[k] = 0
                           /\ joins'[k] <= 1
    BY DEF InviteInv
  <2>3. /\ k \notin issued => joins[k] = 0 /\ \A o \in Callers : ~Using(o, k)
        /\ k \notin contested \cup torn =>
             /\ \A o, d \in Callers : Using(o, k) /\ Using(d, k) => o = d
             /\ \A o \in Callers : Using(o, k) => joins[k] = (IF at[o] = "join" THEN 0 ELSE 1)
             /\ \A x \in invite : x.token = k /\ (\A o \in Callers : ~Using(o, k)) => joins[k] = 0
             /\ joins[k] <= 1
    BY DEF InviteInv
  <2>4. \A x \in invite' : x \in invite /\ (x.token = k => k # job[c].token)
    BY <1>1
  <2>5. \A o \in Callers : Using(o, k)' => o # c /\ Using(o, k) /\ at'[o] = at[o]
    BY <2>1, <2>2
  <2>6. k # job[c].token => \A o \in Callers : Using(o, k)' <=> Using(o, k)
    BY <2>1, <2>2
  <2> QED
    BY <1>1, <2>3, <2>4, <2>5, <2>6
<1> QED
  BY <1>2, <1>3 DEF Burn

LEMMA OtherInvites ==
  ASSUME Types, InviteInv,
         (\E k \in Tokens : HoursOver(k)) \/ (\E u \in Users : DeleteUser(u)) \/ UNCHANGED teamsVars
  PROVE  InviteInv'
<1>1. /\ at' = at /\ job' = job /\ invite' = invite /\ issued' = issued
      /\ joins' = joins /\ contested' = contested /\ torn' = torn
  BY DEF HoursOver, DeleteUser, inviteTable, history, teamsVars
<1>2. \A c \in Callers, k \in Tokens : Using(c, k)' <=> Using(c, k)
  BY <1>1 DEF Using
<1> QED
  BY <1>1, <1>2, InviteStill

LEMMA RebootInvites ==
  ASSUME Types, InviteInv, Reboot
  PROVE  InviteInv'
<1>1. /\ \A c \in Callers : at'[c] = "idle"
      /\ torn' = torn \cup {job[c].token : c \in {d \in Callers : at[d] = "burn"}}
      /\ invite' = invite /\ issued' = issued /\ joins' = joins /\ contested' = contested
  BY DEF Reboot, inviteTable
<1>2. \A c \in Callers, k \in Tokens : ~Using(c, k)'
  BY <1>1 DEF Using
<1>3. \A c \in Callers, k \in Tokens : Using(c, k) /\ k \notin torn' => at[c] = "join"
  BY <1>1 DEF Using
<1> QED
  BY <1>1, <1>2, <1>3 DEF InviteInv

LEMMA NextInvites == Types /\ InviteInv /\ [Next]_teamsVars => InviteInv'
<1> SUFFICES ASSUME Types, InviteInv, [Next]_teamsVars PROVE InviteInv'
  OBVIOUS
<1>1. ASSUME NEW c \in Callers, CallerStep(c), ~Join(c), ~Burn(c), ~CreateInvite(c)
      PROVE  InviteInv'
  <2>1. /\ joins' = joins /\ contested' = contested /\ torn' = torn
        /\ issued' = issued /\ invite' = invite /\ at[c] \notin {"join", "burn"}
    BY <1>1 DEF CallerStep, InsertTeam, AddTeamMember, CallersRole, MayGive, TargetsRole,
       MayRemove, Count, RemoveTeamMember, DeleteTeam, Looks, inviteTable, history
  <2>2. \E step \in Steps \ {"join", "burn"} : \E j :
          at' = [at EXCEPT ![c] = step] /\ job' = [job EXCEPT ![c] = j]
    <3>1. job = [job EXCEPT ![c] = job[c]]
      BY DEF Types, HandlerTypes
    <3>2. ASSUME NEW step \in Steps \ {"join", "burn"}, Goto(c, step)
          PROVE  \E to \in Steps \ {"join", "burn"} : \E j :
                   at' = [at EXCEPT ![c] = to] /\ job' = [job EXCEPT ![c] = j]
      BY <3>1, <3>2 DEF Goto
    <3>3. ASSUME Answers(c)
          PROVE  \E to \in Steps \ {"join", "burn"} : \E j :
                   at' = [at EXCEPT ![c] = to] /\ job' = [job EXCEPT ![c] = j]
      BY <3>3 DEF Answers, Steps
    <3>4. /\ {"idle", "make owner", "may give", "upsert", "may remove", "count", "remove",
               "delete team"} \subseteq Steps \ {"join", "burn"}
      BY DEF Steps
    <3>5. CASE InsertTeam(c)
      BY <3>3, <3>4, <3>5 DEF InsertTeam
    <3>6. CASE AddTeamMember(c) \/ RemoveTeamMember(c)
      BY <3>3, <3>6 DEF AddTeamMember, RemoveTeamMember
    <3>7. CASE CallersRole(c)
      BY <3>4, <3>7 DEF CallersRole, Notes
    <3>8. CASE MayGive(c)
      BY <3>2, <3>3, <3>4, <3>8 DEF MayGive
    <3>9. CASE TargetsRole(c)
      BY <3>2, <3>3, <3>4, <3>9 DEF TargetsRole
    <3>10. CASE MayRemove(c)
      BY <3>2, <3>3, <3>4, <3>10 DEF MayRemove
    <3>11. CASE Count(c)
      BY <3>2, <3>3, <3>4, <3>11 DEF Count
    <3>12. CASE DeleteTeam(c)
      BY <3>2, <3>3, <3>4, <3>12 DEF DeleteTeam
    <3> QED
      BY <1>1, <3>5, <3>6, <3>7, <3>8, <3>9, <3>10, <3>11, <3>12 DEF CallerStep
  <2> QED
    BY <2>1, <2>2, IdleInvites
<1>2. ASSUME NEW c \in Callers, CallerStep(c) PROVE InviteInv'
  BY <1>1, <1>2, JoinInvites, BurnInvites, CreateInvites
<1> QED
  BY <1>2, AskInvites, OtherInvites, RebootInvites DEF Next

\* However calls overlap, an invite (GetInvite, AddTeamMember, DeleteInvite) lets
\* nobody in a second time, unless two calls found it before it was removed or a
\* restart came between the second statement and the third.
THEOREM InvitesOnce == Spec => []InviteOnce
<1>1. Init => InviteInv
  BY DEF Init, InviteInv, Using
<1>2. InviteInv => InviteOnce
  BY DEF InviteInv, InviteOnce
<1> QED
  BY <1>1, <1>2, InitTypes, NextTypes, NextInvites, PTL DEF Spec

-----------------------------------------------------------------------------
(* What a call has found of the owners stays true as long as nobody has    *)
(* taken the ground from it.                                               *)

Entitled(c) == job[c].by \in Superadmins \cup Owners(job[c].team)

GroundHolds(c) ==
  LET j == job[c] IN
  /\ at[c] = "may give" => (j.found = "owner" <=> j.by \in Owners(j.team))
  /\ at[c] = "upsert" /\ (j.role = "owner" \/ j.user \in Owners(j.team)) => Entitled(c)
  /\ at[c] = "count" => Entitled(c)
  /\ at[c] = "remove" /\ j.user \in Owners(j.team) => Entitled(c)
  /\ at[c] = "remove" /\ Owners(j.team) # {} => \E u \in Owners(j.team) : u # j.user
  /\ at[c] = "delete members" => Entitled(c)

OwnerInv == \A c \in Callers \ overtaken : GroundHolds(c)

\* A count of more than one owner leaves another than the user who is to go.
LEMMA AnotherOwner ==
  ASSUME NEW t \in TeamIds, NEW x, ~(OwnersCounted(t) <= 1)
  PROVE  \E u \in Owners(t) : u # x
<1> SUFFICES ASSUME \A u \in Owners(t) : u = x PROVE FALSE
  OBVIOUS
<1>1. Owners(t) \ gone \in SUBSET {x}
  OBVIOUS
<1>2. IsFiniteSet({x}) /\ Cardinality({x}) = 1
  BY FS_Singleton
<1>3. Cardinality(Owners(t) \ gone) <= 1
  BY <1>1, <1>2, FS_Subset
<1> QED
  BY <1>3 DEF OwnersCounted

\* The ground of a call holds on while it waits and the owners of its team stay.
LEMMA GroundStays ==
  ASSUME NEW c \in Callers, GroundHolds(c), at'[c] = at[c], job'[c] = job[c],
         at[c] \notin {"idle", "insert team"} => Owners(job[c].team)' = Owners(job[c].team)
  PROVE  GroundHolds(c)'
<1>1. CASE at[c] \in {"idle", "insert team"}
  BY <1>1 DEF GroundHolds
<1>2. CASE at[c] \notin {"idle", "insert team"}
  <2>1. Owners(job[c].team)' = Owners(job[c].team)
    BY <1>2
  <2>2. Entitled(c)' <=> Entitled(c)
    BY <2>1 DEF Entitled
  <2> QED
    BY <2>1, <2>2 DEF GroundHolds
<1> QED
  BY <1>1, <1>2

\* If a role is written, the owners of a team stay or its calls are overtaken.
LEMMA WriteOvertakes ==
  ASSUME TableTypes, NEW c \in Callers, NEW t \in TeamIds, NEW u \in Users,
         NEW r \in Roles \cup {"none"}, Write(c, t, u, r),
         NEW o \in Callers \ {c}, o \notin overtaken', at[o] # "idle", job'[o] = job[o],
         job[o].team \in TeamIds
  PROVE  o \notin overtaken /\ Owners(job[o].team)' = Owners(job[o].team)
<1>1. \A s \in TeamIds, x \in Users : role'[s][x] = IF s = t /\ x = u THEN r ELSE role[s][x]
  BY Written
<1>2. job[o].team = t => ((role[t][u] = "owner") = (r = "owner"))
  BY DEF Write, Overtakes
<1>3. \A x \in Users : role'[job[o].team][x] = "owner" <=> role[job[o].team][x] = "owner"
  BY <1>1, <1>2
<1>4. o \notin overtaken
  BY DEF Write, Overtakes
<1> QED
  BY <1>3, <1>4 DEF Owners

\* A step of one handler: the others keep their ground, so it is about its own.
LEMMA OwnersStep ==
  ASSUME OwnerInv, NEW c \in Callers,
         \A o \in Callers \ {c} : at'[o] = at[o] /\ job'[o] = job[o],
         \A o \in Callers \ {c} : o \notin overtaken' => o \notin overtaken,
         \A o \in Callers \ {c} : o \notin overtaken' /\ at[o] \notin {"idle", "insert team"} =>
           Owners(job[o].team)' = Owners(job[o].team),
         c \notin overtaken' => GroundHolds(c)'
  PROVE  OwnerInv'
<1> SUFFICES ASSUME NEW o \in Callers, o \notin overtaken' PROVE GroundHolds(o)'
  BY DEF OwnerInv
<1>1. CASE o # c
  BY <1>1, GroundStays DEF OwnerInv
<1> QED
  BY <1>1

\* A step that writes no role, and leads where nothing is to be shown or it is.
LEMMA OwnersSame ==
  ASSUME Types, OwnerInv, NEW c \in Callers, NEW step \in Steps, NEW j,
         at' = [at EXCEPT ![c] = step], job' = [job EXCEPT ![c] = j], role' = role,
         \A o \in Callers \ {c} : o \notin overtaken' => o \notin overtaken,
         \/ step \notin {"may give", "upsert", "count", "remove", "delete members"}
         \/ c \notin overtaken' => GroundHolds(c)'
  PROVE  OwnerInv'
<1>1. /\ at'[c] = step
      /\ \A o \in Callers \ {c} : at'[o] = at[o] /\ job'[o] = job[o]
  BY OthersUse
<1>2. \A o \in Callers \ {c} : Owners(job[o].team)' = Owners(job[o].team)
  BY <1>1 DEF Owners
<1>3. step \notin {"may give", "upsert", "count", "remove", "delete members"} => GroundHolds(c)'
  BY <1>1 DEF GroundHolds
<1> QED
  BY <1>1, <1>2, <1>3, OwnersStep

LEMMA AskOwners ==
  ASSUME Types, OwnerInv, NEW c \in Callers, Ask(c)
  PROVE  OwnerInv'
<1>1. ASSUME NEW step \in Steps \ {"may give", "upsert", "count", "remove", "delete members"},
             NEW j, Begin(c, step, j)
      PROVE  OwnerInv'
  BY <1>1, OwnersSame DEF Begin, tables
<1>2. ASSUME NEW u \in Users, NEW t \in TeamIds, AskDelete(c, u, t) PROVE OwnerInv'
  <2> DEFINE j == [NoJob EXCEPT !.by = u, !.team = t]
  <2>1. j.by = u /\ j.team = t
    BY DEF NoJob
  <2>2. u \in Superadmins \cup Owners(t)
    BY <1>2 DEF AskDelete, Owners
  <2>3. Begin(c, "delete members", j) /\ "delete members" \in Steps
    BY <1>2 DEF AskDelete, Steps
  <2> HIDE DEF j
  <2>4. /\ at' = [at EXCEPT ![c] = "delete members"] /\ job' = [job EXCEPT ![c] = j]
        /\ role' = role /\ overtaken' = overtaken \ {c}
    BY <2>3 DEF Begin, tables
  <2>5. at'[c] = "delete members" /\ job'[c] = j
    BY <2>3, <2>4, OthersUse
  <2>6. job'[c].by \in Superadmins \cup Owners(job[c].team)'
    BY <2>1, <2>2, <2>4, <2>5 DEF Owners
  <2>7. GroundHolds(c)'
    BY <2>5, <2>6 DEF GroundHolds, Entitled
  <2> QED
    BY <2>3, <2>4, <2>7, OwnersSame
<1>3. CASE \/ \E u \in Users : AskCreate(c, u)
           \/ \E u \in Users, t \in TeamIds, x \in Users : AskRemove(c, u, t, x)
           \/ \E u \in Users, t \in TeamIds, x \in Users, r \in Roles : AskAdd(c, u, t, x, r)
           \/ \E u \in Users, t \in TeamIds, x \in Addressees, r \in Roles :
                AskInvite(c, u, t, r, x)
           \/ \E u \in Users, i \in invite : AskAccept(c, u, i)
  <2>1. \E step \in {"insert team", "target's role", "caller's role", "invite", "drop invite", "join"} :
           \E j : Begin(c, step, j)
    BY <1>3 DEF AskCreate, AskRemove, AskAdd, AskInvite, AskAccept
  <2> QED
    BY <1>1, <2>1 DEF Steps
<1> QED
  BY <1>2, <1>3 DEF Ask

LEMMA LooksOwners ==
  ASSUME Types, OwnerInv, NEW c \in Callers,
         CallersRole(c) \/ MayGive(c) \/ TargetsRole(c) \/ MayRemove(c) \/ Count(c)
  PROVE  OwnerInv'
<1>1. role' = role /\ overtaken' = overtaken
  BY DEF CallersRole, MayGive, TargetsRole, MayRemove, Count, Looks, tables, history
<1>2. /\ at[c] \in {"caller's role", "may give", "target's role", "may remove", "count"}
      /\ job[c] \in Jobs /\ Fits(at[c], job[c])
  BY JobAtWork DEF CallersRole, MayGive, TargetsRole, MayRemove, Count, Types
<1>3. job[c].team \in TeamIds /\ job[c].user \in Users /\ job[c].by \in Users
  BY <1>2 DEF Fits, Jobs
<1>4. ASSUME Answers(c) PROVE OwnerInv'
  BY <1>1, <1>4, OwnersSame DEF Answers, Steps
<1>5. ASSUME NEW step \in {"upsert", "may remove", "count", "remove"}, Goto(c, step),
             c \notin overtaken =>
               /\ step = "upsert" /\ (job[c].role = "owner" \/ job[c].user \in Owners(job[c].team)) =>
                    Entitled(c)
               /\ step = "count" => Entitled(c)
               /\ step = "remove" /\ job[c].user \in Owners(job[c].team) => Entitled(c)
               /\ step = "remove" /\ Owners(job[c].team) # {} =>
                    \E u \in Owners(job[c].team) : u # job[c].user
      PROVE  OwnerInv'
  <2>1. job' = [job EXCEPT ![c] = job[c]] /\ at' = [at EXCEPT ![c] = step] /\ step \in Steps
    BY <1>5 DEF Goto, Types, HandlerTypes, Steps
  <2>2. at'[c] = step /\ job'[c] = job[c]
    BY <2>1, OthersUse
  <2>3. Owners(job[c].team)' = Owners(job[c].team)
    BY <1>1, <2>2 DEF Owners
  <2>4. Entitled(c)' <=> Entitled(c)
    BY <2>2, <2>3 DEF Entitled
  <2>5. c \notin overtaken' => GroundHolds(c)'
    BY <1>1, <1>5, <2>2, <2>3, <2>4 DEF GroundHolds
  <2> QED
    BY <1>1, <2>1, <2>5, OwnersSame
<1>6. \A u \in Users : role[job[c].team][u] = "owner" <=> u \in Owners(job[c].team)
  BY DEF Owners
<1>7. CASE CallersRole(c)
  <2> DEFINE r == role[job[c].team][job[c].by]
  <2> DEFINE j == [job[c] EXCEPT !.found = r]
  <2>1. j.found = r /\ j.by = job[c].by /\ j.team = job[c].team
    BY <1>2 DEF Jobs
  <2>2. /\ at' = [at EXCEPT ![c] = "may give"] /\ job' = [job EXCEPT ![c] = j]
        /\ "may give" \in Steps
    BY <1>7 DEF CallersRole, Notes, Steps
  <2> HIDE DEF j
  <2>3. at'[c] = "may give" /\ job'[c] = j
    BY <2>2, OthersUse
  <2>4. job'[c].found = "owner" <=> job'[c].by \in Owners(job[c].team)'
    BY <1>1, <1>3, <2>1, <2>3 DEF Owners
  <2>5. GroundHolds(c)'
    BY <2>3, <2>4 DEF GroundHolds
  <2> QED
    BY <1>1, <2>2, <2>5, OwnersSame
<1>8. CASE MayGive(c)
  <2>1. c \notin overtaken => (job[c].found = "owner" <=> job[c].by \in Owners(job[c].team))
    BY <1>8 DEF MayGive, OwnerInv, GroundHolds
  <2>2. CASE Privileged(job[c]) \/ "owner" \notin {job[c].role, role[job[c].team][job[c].user]}
    <3>1. Goto(c, "upsert")
      BY <1>8, <2>2 DEF MayGive
    <3>2. c \notin overtaken /\ (job[c].role = "owner" \/ job[c].user \in Owners(job[c].team)) =>
            Entitled(c)
      BY <1>3, <1>6, <2>1, <2>2 DEF Privileged, Entitled
    <3> QED
      BY <1>5, <3>1, <3>2
  <2>3. CASE ~(Privileged(job[c]) \/ "owner" \notin {job[c].role, role[job[c].team][job[c].user]})
    BY <1>4, <1>8, <2>3 DEF MayGive
  <2> QED
    BY <2>2, <2>3
<1>9. CASE TargetsRole(c)
  <2>1. CASE role[job[c].team][job[c].user] = "none"
    BY <1>4, <1>9, <2>1 DEF TargetsRole
  <2>2. CASE role[job[c].team][job[c].user] = "owner"
    BY <1>5, <1>9, <2>2 DEF TargetsRole
  <2>3. CASE role[job[c].team][job[c].user] \notin {"none", "owner"}
    <3>1. Goto(c, "remove")
      BY <1>9, <2>3 DEF TargetsRole
    <3>2. job[c].user \notin Owners(job[c].team)
      BY <2>3 DEF Owners
    <3> QED
      BY <1>5, <3>1, <3>2
  <2> QED
    BY <2>1, <2>2, <2>3
<1>10. CASE MayRemove(c)
  <2> DEFINE r == role[job[c].team][job[c].by]
  <2>1. [job[c] EXCEPT !.found = r].found = r /\ [job[c] EXCEPT !.found = r].by = job[c].by
    BY <1>2 DEF Jobs
  <2>2. CASE Privileged([job[c] EXCEPT !.found = r])
    <3>1. Goto(c, "count")
      BY <1>10, <2>2 DEF MayRemove
    <3>2. Entitled(c)
      BY <1>3, <1>6, <2>1, <2>2 DEF Privileged, Entitled
    <3> QED
      BY <1>5, <3>1, <3>2
  <2>3. CASE ~Privileged([job[c] EXCEPT !.found = r])
    BY <1>4, <1>10, <2>3 DEF MayRemove
  <2> QED
    BY <2>2, <2>3
<1>11. CASE Count(c)
  <2>1. CASE OwnersCounted(job[c].team) <= 1
    BY <1>4, <1>11, <2>1 DEF Count
  <2>2. CASE ~(OwnersCounted(job[c].team) <= 1)
    <3>1. Goto(c, "remove")
      BY <1>11, <2>2 DEF Count
    <3>2. c \notin overtaken => Entitled(c)
      BY <1>11 DEF Count, OwnerInv, GroundHolds
    <3>3. \E u \in Owners(job[c].team) : u # job[c].user
      BY <1>3, <2>2, AnotherOwner
    <3> QED
      BY <1>5, <3>1, <3>2, <3>3
  <2> QED
    BY <2>1, <2>2
<1> QED
  BY <1>7, <1>8, <1>9, <1>10, <1>11

LEMMA WritesOwners ==
  ASSUME Types, OwnerInv, NEW c \in Callers, AddTeamMember(c) \/ RemoveTeamMember(c) \/ Join(c)
  PROVE  OwnerInv'
<1>1. \E r \in Roles \cup {"none"} : Write(c, job[c].team, job[c].user, r)
  BY WritesFit DEF AddTeamMember, RemoveTeamMember, Join
<1>2. job[c].team \in TeamIds /\ job[c].user \in Users
  BY WritesFit DEF AddTeamMember, RemoveTeamMember, Join
<1>3. \E step \in {"idle", "burn"} : \E j : at' = [at EXCEPT ![c] = step] /\ job' = [job EXCEPT ![c] = j]
  <2>1. job = [job EXCEPT ![c] = job[c]]
    BY DEF Types, HandlerTypes
  <2> QED
    BY <2>1 DEF AddTeamMember, RemoveTeamMember, Join, Answers, Goto
<1>4. /\ at'[c] \in {"idle", "burn"}
      /\ \A o \in Callers \ {c} : at'[o] = at[o] /\ job'[o] = job[o]
  BY <1>3, OthersUse DEF Steps
<1>5. GroundHolds(c)'
  BY <1>4 DEF GroundHolds
<1>6. ASSUME NEW o \in Callers \ {c}, at[o] \notin {"idle", "insert team"}
      PROVE  job[o].team \in TeamIds
  BY <1>6, JobAtWork DEF Types, Fits
<1>7. \A o \in Callers \ {c} : o \notin overtaken' /\ at[o] \notin {"idle", "insert team"} =>
        Owners(job[o].team)' = Owners(job[o].team)
  BY <1>1, <1>2, <1>4, <1>6, WriteOvertakes DEF Types
<1>8. overtaken \subseteq overtaken'
  BY <1>1 DEF Write, Overtakes
<1> QED
  BY <1>4, <1>5, <1>7, <1>8, OwnersStep

LEMMA DeleteTeamOwners ==
  ASSUME Types, OwnerInv, NEW c \in Callers, DeleteTeam(c)
  PROVE  OwnerInv'
<1> DEFINE t == job[c].team
<1>1. job = [job EXCEPT ![c] = job[c]]
  BY DEF Types, HandlerTypes
<1>2. CASE at[c] = "delete team"
  BY <1>2, OwnersSame DEF DeleteTeam, Answers, Steps
<1>3. CASE at[c] = "delete members"
  <2>1. /\ at' = [at EXCEPT ![c] = "delete team"] /\ job' = [job EXCEPT ![c] = job[c]]
        /\ role' = [role EXCEPT ![t] = [u \in Users |-> "none"]]
        /\ overtaken' = overtaken \cup {o \in Callers \ {c} : at[o] # "idle" /\ job[o].team = t}
    BY <1>1, <1>3 DEF DeleteTeam, Goto
  <2>2. /\ at'[c] = "delete team"
        /\ \A o \in Callers \ {c} : at'[o] = at[o] /\ job'[o] = job[o]
    BY <2>1, OthersUse DEF Steps
  <2>3. GroundHolds(c)'
    BY <2>2 DEF GroundHolds
  <2>4. ASSUME NEW o \in Callers \ {c}, o \notin overtaken', at[o] \notin {"idle", "insert team"}
        PROVE  Owners(job[o].team)' = Owners(job[o].team)
    <3>1. job[o].team \in TeamIds /\ job[o].team # t
      BY <2>1, <2>4, JobAtWork DEF Types, Fits
    <3>2. role'[job[o].team] = role[job[o].team]
      BY <2>1, <3>1 DEF Types, TableTypes
    <3> QED
      BY <2>2, <3>2 DEF Owners
  <2> QED
    BY <2>1, <2>2, <2>3, <2>4, OwnersStep
<1> QED
  BY <1>2, <1>3 DEF DeleteTeam

LEMMA DeleteUserOwners ==
  ASSUME Types, OwnerInv, NEW u \in Users, DeleteUser(u)
  PROVE  OwnerInv'
<1> SUFFICES ASSUME NEW c \in Callers, c \notin overtaken' PROVE GroundHolds(c)'
  BY DEF OwnerInv
<1>1. /\ at' = at /\ job' = job
      /\ role' = [t \in TeamIds |-> [role[t] EXCEPT ![u] = "none"]]
      /\ overtaken' = overtaken \cup {o \in Callers :
                         \E t \in TeamIds : job[o].team = t /\ u \in Owners(t)}
  BY DEF DeleteUser
<1>2. c \notin overtaken
  BY <1>1
<1>3. ASSUME at[c] \notin {"idle", "insert team"}
      PROVE  Owners(job[c].team)' = Owners(job[c].team)
  <2>1. job[c].team \in TeamIds
    BY <1>3, JobAtWork DEF Types, Fits
  <2>2. u \notin Owners(job[c].team)
    BY <1>1, <2>1
  <2>3. \A x \in Users : role'[job[c].team][x] = IF x = u THEN "none" ELSE role[job[c].team][x]
    BY <1>1, <2>1 DEF Types, TableTypes
  <2> QED
    BY <1>1, <2>2, <2>3 DEF Owners
<1> QED
  BY <1>1, <1>2, <1>3, GroundStays DEF OwnerInv

LEMMA NextOwners == Types /\ OwnerInv /\ [Next]_teamsVars => OwnerInv'
<1> SUFFICES ASSUME Types, OwnerInv, [Next]_teamsVars PROVE OwnerInv'
  OBVIOUS
<1>1. ASSUME NEW c \in Callers, InsertTeam(c) PROVE OwnerInv'
  BY <1>1, OwnersSame DEF InsertTeam, Answers, history, Steps
<1>2. ASSUME NEW c \in Callers, CreateInvite(c) \/ Burn(c) PROVE OwnerInv'
  BY <1>2, OwnersSame DEF CreateInvite, Burn, Answers, tables, history, Steps
<1>3. ASSUME NEW c \in Callers, CallerStep(c) PROVE OwnerInv'
  BY <1>1, <1>2, <1>3, LooksOwners, WritesOwners, DeleteTeamOwners DEF CallerStep
<1>4. ASSUME NEW k \in Tokens, HoursOver(k) PROVE OwnerInv'
  BY <1>4 DEF HoursOver, tables, history, OwnerInv, GroundHolds, Entitled, Owners
<1>5. CASE Reboot
  BY <1>5 DEF Reboot, OwnerInv, GroundHolds
<1>6. CASE UNCHANGED teamsVars
  BY <1>6 DEF teamsVars, OwnerInv, GroundHolds, Entitled, Owners
<1> QED
  BY <1>3, <1>4, <1>5, <1>6, AskOwners, DeleteUserOwners DEF Next

-----------------------------------------------------------------------------
(* The two theorems about owners.                                          *)

IInv == Types /\ OwnerInv

LEMMA IInvHolds == Spec => []IInv
<1>1. Init => IInv
  BY InitTypes DEF Init, IInv, OwnerInv, GroundHolds
<1>2. IInv /\ [Next]_teamsVars => IInv'
  BY NextTypes, NextOwners DEF IInv
<1> QED
  BY <1>1, <1>2, PTL DEF Spec

\* Only a removal that concludes goes from "remove" to "idle", or a restart.
LEMMA RemovalLeaves ==
  ASSUME IInv, [Next]_teamsVars, NEW c \in Callers, at[c] = "remove", at'[c] = "idle",
         c \notin overtaken, Owners(job[c].team) # {}
  PROVE  \E u \in Users : role'[job[c].team][u] = "owner"
<1> DEFINE t == job[c].team
<1>1. Types /\ GroundHolds(c)
  BY DEF IInv, OwnerInv
<1>2. t \in TeamIds /\ job[c].user \in Users
  BY <1>1, WritesFit
<1>3. CASE RemoveTeamMember(c)
  <2>1. PICK u \in Owners(t) : u # job[c].user
    BY <1>1 DEF GroundHolds
  <2>2. u \in Users /\ role[t][u] = "owner"
    BY <2>1 DEF Owners
  <2>3. Write(c, t, job[c].user, "none")
    BY <1>3 DEF RemoveTeamMember
  <2>4. TableTypes
    BY <1>1 DEF Types
  <2>5. role'[t][u] = role[t][u]
    BY <1>2, <2>1, <2>2, <2>3, <2>4, WrittenAt
  <2> QED
    BY <2>2, <2>5
<1>4. CASE role' = role
  BY <1>4 DEF Owners
<1>5. ASSUME NEW o \in Callers \ {c}, Ask(o) \/ CallerStep(o) PROVE FALSE
  <2>1. Ask(o) => \E step, j : at' = [at EXCEPT ![o] = step]
    BY DEF Ask, AskCreate, AskDelete, AskRemove, AskAdd, AskInvite, AskAccept, Begin
  <2>2. CallerStep(o) => \E step : at' = [at EXCEPT ![o] = step]
    BY DEF CallerStep, InsertTeam, AddTeamMember, CallersRole, MayGive, TargetsRole, MayRemove,
       Count, RemoveTeamMember, DeleteTeam, CreateInvite, Join, Burn, Answers, Goto, Notes
  <2>3. at'[c] = at[c]
    BY <1>1, <1>5, <2>1, <2>2 DEF Types, HandlerTypes
  <2> QED
    BY <2>3
<1>6. CASE Ask(c)
  BY <1>6 DEF Ask, AskCreate, AskDelete, AskRemove, AskAdd, AskInvite, AskAccept, Begin
<1>7. CASE CallerStep(c)
  BY <1>3, <1>7 DEF CallerStep, InsertTeam, AddTeamMember, CallersRole, MayGive, TargetsRole,
     MayRemove, Count, DeleteTeam, CreateInvite, Join, Burn
<1>8. ASSUME (\E k \in Tokens : HoursOver(k)) \/ (\E u \in Users : DeleteUser(u)) PROVE FALSE
  BY <1>8 DEF HoursOver, DeleteUser
<1>9. CASE Reboot
  BY <1>4, <1>9 DEF Reboot, tables
<1> QED
  BY <1>5, <1>6, <1>7, <1>8, <1>9 DEF Next, teamsVars

\* A removal (the looks and the count of handleRemoveMember, then the DELETE)
\* leaves the team an owner if it had one, unless another call took the ground
\* from it between the first look and the DELETE.
THEOREM RemovalsLeaveAnOwner == Spec => LeavesAnOwner
<1>1. IInv /\ [Next]_teamsVars =>
        [\A c \in Callers :
           at[c] = "remove" /\ at'[c] = "idle" /\ c \notin overtaken /\ Owners(job[c].team) # {}
             => \E u \in Users : role'[job[c].team][u] = "owner"]_teamsVars
  BY RemovalLeaves
<1> QED
  BY <1>1, IInvHolds, PTL DEF Spec, LeavesAnOwner

\* Who may have made or unmade an owner in a step.
LEMMA Decided ==
  ASSUME IInv, [Next]_teamsVars, NEW t \in TeamIds, NEW u \in Users, u \notin gone',
         ~(role[t][u] = "owner" <=> role'[t][u] = "owner")
  PROVE  \E c \in Callers :
           /\ at[c] # at'[c] /\ job[c].team = t
           /\ \/ at[c] = "make owner"
              \/ job[c].by \in Superadmins \cup Owners(t)
              \/ c \in overtaken
<1>1. Types /\ OwnerInv
  BY DEF IInv
<1>2. role' # role
  OBVIOUS
<1>3. ASSUME NEW c \in Callers, AddTeamMember(c) \/ RemoveTeamMember(c) \/ Join(c),
             ~(job[c].team = t /\ job[c].user = u)
      PROVE  FALSE
  <2>1. \E r \in Roles \cup {"none"} : Write(c, job[c].team, job[c].user, r)
    BY <1>1, <1>3, WritesFit DEF AddTeamMember, RemoveTeamMember, Join
  <2>2. job[c].team \in TeamIds /\ job[c].user \in Users
    BY <1>1, <1>3, WritesFit DEF AddTeamMember, RemoveTeamMember, Join
  <2>3. PICK r \in Roles \cup {"none"} : Write(c, job[c].team, job[c].user, r)
    BY <2>1
  <2>4. TableTypes
    BY <1>1 DEF Types
  <2>5. role'[t][u] = role[t][u]
    BY <1>3, <2>2, <2>3, <2>4, WrittenAt
  <2> QED
    BY <2>5
<1>4. ASSUME NEW c \in Callers, AddTeamMember(c)
      PROVE  /\ at[c] # at'[c] /\ job[c].team = t
             /\ at[c] = "make owner" \/ Entitled(c) \/ c \in overtaken
  <2>1. /\ job[c].team = t /\ job[c].user = u /\ job[c].role \in Roles
        /\ Write(c, t, u, job[c].role) /\ at[c] \in {"make owner", "upsert"}
        /\ at'[c] = "idle"
    BY <1>1, <1>3, <1>4, WritesFit DEF AddTeamMember, Answers, Types, HandlerTypes
  <2>4. TableTypes
    BY <1>1 DEF Types
  <2>5. PICK r \in Roles \cup {"none"} : r = job[c].role /\ Write(c, t, u, r)
    BY <2>1
  <2>2. role'[t][u] = job[c].role
    BY <2>4, <2>5, WrittenAt
  <2>3. job[c].role = "owner" \/ u \in Owners(t)
    BY <2>2 DEF Owners
  <2> QED
    BY <1>1, <2>1, <2>3 DEF OwnerInv, GroundHolds
<1>5. ASSUME NEW c \in Callers, RemoveTeamMember(c)
      PROVE  at[c] # at'[c] /\ job[c].team = t /\ (Entitled(c) \/ c \in overtaken)
  <2>1. /\ job[c].team = t /\ job[c].user = u /\ Write(c, t, u, "none")
        /\ at[c] = "remove" /\ at'[c] = "idle"
    BY <1>1, <1>3, <1>5 DEF RemoveTeamMember, Answers, Types, HandlerTypes
  <2>2. role'[t][u] = "none"
    BY <1>1, <2>1, Written DEF Types
  <2>3. u \in Owners(t)
    BY <2>2 DEF Owners
  <2> QED
    BY <1>1, <2>1, <2>3 DEF OwnerInv, GroundHolds
<1>6. ASSUME NEW c \in Callers, Join(c)
      PROVE  at[c] # at'[c] /\ job[c].team = t /\ Entitled(c)
  <2>1. /\ job[c].team = t /\ job[c].user = u /\ Write(c, t, u, job[c].role)
        /\ at[c] = "join" /\ at'[c] = "burn"
    BY <1>1, <1>3, <1>6 DEF Join, Goto, Types, HandlerTypes
  <2>2. job[c].role \in Roles \ {"owner"} /\ job[c].by = u
    BY <1>1, <2>1, JobAtWork, WritesFit DEF Types, Fits
  <2>3. role'[t][u] = job[c].role
    BY <1>1, <2>1, <2>2, Written DEF Types
  <2>4. u \in Owners(t)
    BY <2>2, <2>3 DEF Owners
  <2> QED
    BY <2>1, <2>2, <2>4 DEF Entitled
<1>7. ASSUME NEW c \in Callers, DeleteTeam(c)
      PROVE  at[c] # at'[c] /\ job[c].team = t /\ (Entitled(c) \/ c \in overtaken)
  <2>1. /\ at[c] = "delete members" /\ at'[c] = "delete team"
        /\ role' = [role EXCEPT ![job[c].team] = [x \in Users |-> "none"]]
    BY <1>1, <1>2, <1>7 DEF DeleteTeam, Goto, Types, HandlerTypes
  <2>2. job[c].team = t
    BY <1>1, <2>1 DEF Types, TableTypes
  <2> QED
    BY <1>1, <2>1, <2>2 DEF OwnerInv, GroundHolds
<1>8. ASSUME NEW x \in Users, DeleteUser(x) PROVE FALSE
  <2>1. x # u
    BY <1>8 DEF DeleteUser
  <2>2. role'[t][u] = role[t][u]
    BY <1>1, <1>8, <2>1 DEF DeleteUser, Types, TableTypes
  <2> QED
    BY <2>2
<1>9. PICK c \in Callers : AddTeamMember(c) \/ RemoveTeamMember(c) \/ Join(c) \/ DeleteTeam(c)
  <2>1. ASSUME NEW c \in Callers, Ask(c) PROVE role' = role
    BY <2>1 DEF Ask, AskCreate, AskDelete, AskRemove, AskAdd, AskInvite, AskAccept, Begin, tables
  <2>2. ASSUME NEW c \in Callers, InsertTeam(c) \/ CallersRole(c) \/ MayGive(c) \/ TargetsRole(c)
                 \/ MayRemove(c) \/ Count(c) \/ CreateInvite(c) \/ Burn(c)
        PROVE  role' = role
    BY <2>2 DEF InsertTeam, CallersRole, MayGive, TargetsRole, MayRemove, Count, CreateInvite,
       Burn, Looks, tables
  <2>3. (\E k \in Tokens : HoursOver(k)) \/ Reboot \/ UNCHANGED teamsVars => role' = role
    BY DEF HoursOver, Reboot, teamsVars, tables
  <2> QED
    BY <1>2, <1>8, <2>1, <2>2, <2>3 DEF Next, CallerStep
<1>10. /\ at[c] # at'[c] /\ job[c].team = t
       /\ at[c] = "make owner" \/ Entitled(c) \/ c \in overtaken
  BY <1>4, <1>5, <1>6, <1>7, <1>9
<1> QED
  BY <1>10 DEF Entitled

\* A user becomes an owner, or an owner loses the role, through the team's founder,
\* a superadmin or somebody who is an owner at that moment (handleAddMember,
\* handleRemoveMember, handleAcceptInvite, handleDeleteTeam), unless another call
\* changed the owners since the one that does it began.
THEOREM OwnersDecideOwners == Spec => OwnersDecide
<1>1. IInv /\ [Next]_teamsVars =>
        [\A t \in TeamIds, u \in Users :
           u \notin gone' /\ (role[t][u] = "owner") # (role'[t][u] = "owner") =>
             \E c \in Callers :
               /\ at[c] # at'[c] /\ job[c].team = t
               /\ \/ at[c] = "make owner"
                  \/ job[c].by \in Superadmins \cup Owners(t)
                  \/ c \in overtaken]_teamsVars
  BY Decided
<1> QED
  BY <1>1, IInvHolds, PTL DEF Spec, OwnersDecide

-----------------------------------------------------------------------------
(* One call at a time.                                                     *)

OneCaller == \A c, o \in Callers : c = o

LEMMA ContestedNext ==
  ASSUME OneCaller, contested = {}, [Next]_teamsVars
  PROVE  contested' = {}
<1>1. ASSUME NEW c \in Callers, Ask(c) PROVE contested' = {}
  <2>1. CASE contested' = contested
    BY <2>1
  <2>2. ASSUME NEW u \in Users, NEW i \in invite, AskAccept(c, u, i) PROVE at[c] = "idle"
    BY <2>2 DEF AskAccept, Begin
  <2>3. ASSUME NEW u \in Users, NEW i \in invite, AskAccept(c, u, i),
               contested' = IF \E o \in Callers :
                                 at[o] \in {"join", "burn"} /\ job[o].token = i.token
                              THEN contested \cup {i.token} ELSE contested
        PROVE  contested' = {}
    <3>1. \A o \in Callers : at[o] \notin {"join", "burn"}
      BY <2>2, <2>3 DEF OneCaller
    <3> QED
      BY <2>3, <3>1
  <2> QED
    BY <1>1, <2>1, <2>3 DEF Ask
<1>2. ASSUME NEW c \in Callers, CallerStep(c) PROVE contested' = {}
  BY <1>2 DEF CallerStep, InsertTeam, AddTeamMember, CallersRole, MayGive, TargetsRole, MayRemove,
     Count, RemoveTeamMember, DeleteTeam, CreateInvite, Join, Burn, Looks, history
<1>3. ASSUME NEW k \in Tokens, HoursOver(k) PROVE contested' = {}
  BY <1>3 DEF HoursOver, history
<1>4. ASSUME NEW u \in Users, DeleteUser(u) PROVE contested' = {}
  BY <1>4 DEF DeleteUser
<1>5. CASE Reboot \/ UNCHANGED teamsVars
  BY <1>5 DEF Reboot, teamsVars
<1> QED
  BY <1>1, <1>2, <1>3, <1>4, <1>5 DEF Next

\* One after the other, calls let one user in with an invite, unless a restart comes
\* between AddTeamMember and DeleteInvite of handleAcceptInvite.
THEOREM OneCallerInvitesOnce ==
  ASSUME OneCaller
  PROVE  Spec => [](\A k \in Tokens \ torn : joins[k] <= 1)
<1>1. Init => contested = {}
  BY DEF Init
<1>2. contested = {} /\ [Next]_teamsVars => (contested = {})'
  BY ContestedNext
<1>3. InviteOnce /\ contested = {} => \A k \in Tokens \ torn : joins[k] <= 1
  BY DEF InviteOnce
<1> QED
  BY <1>1, <1>2, <1>3, InvitesOnce, PTL DEF Spec

===============================================================================
