--------------------------- MODULE SiteDeployProofs ---------------------------
(***************************************************************************)
(* Theorems about SiteDeploy, for every set of goroutines, paths,          *)
(* repositories and archives.  The invariant comes in parts, and each has  *)
(* a lemma for every action, named after the action and the part: Type,    *)
(* Ok, Row, Alone and Last.                                                *)
(***************************************************************************)
EXTENDS SiteDeploy, TLAPS

-----------------------------------------------------------------------------
(* Types.                                                                  *)

LEMMA BlankType == Blank \in Trees
  BY DEF Blank, Trees

LEMMA EmptyType == EmptyDirectory \in Dirs /\ EmptyDirectory # NoDir
<1>1. EmptyDirectory \in Dirs
  BY BlankType DEF EmptyDirectory, Dirs
<1> QED BY <1>1, AbsenceAssumption

LEMMA NoJobType == NoJob \in Jobs
  BY BlankType, DeployAssumption DEF NoJob, Jobs

\* What an editor, a build or Git makes of a directory is one.
LEMMA DirType ==
  ASSUME NEW d \in Dirs
  PROVE  /\ d # NoDir
         /\ \A g \in Gits \cup {NoGit} : [d EXCEPT !.git = g] \in Dirs
         /\ \A b \in BOOLEAN : [d EXCEPT !.dist = b] \in Dirs
         /\ \A p \in Paths : [d EXCEPT !.tree = [@ EXCEPT ![p] = "panel"]] \in Dirs
         /\ \A p \in Paths : [d EXCEPT !.tree = [@ EXCEPT ![p] = NoFile]] \in Dirs
<1>1. d # NoDir
  BY AbsenceAssumption
<1>2. \A g \in Gits \cup {NoGit} : [d EXCEPT !.git = g] \in Dirs
  BY DEF Dirs
<1>3. \A b \in BOOLEAN : [d EXCEPT !.dist = b] \in Dirs
  BY DEF Dirs
<1>4. \A t \in Trees : [d EXCEPT !.tree = t] \in Dirs
  BY DEF Dirs
<1>5. d.tree \in Trees
  BY DEF Dirs
<1>6. \A p \in Paths : [d.tree EXCEPT ![p] = "panel"] \in Trees
  BY <1>5 DEF Trees
<1>7. \A p \in Paths : [d.tree EXCEPT ![p] = NoFile] \in Trees
  BY <1>5 DEF Trees
<1> QED BY <1>1, <1>2, <1>3, <1>4, <1>6, <1>7

\* Git and the builder change a directory that is there.
LEMMA GitType ==
  ASSUME TypeOK, HasGit
  PROVE  /\ main \in Dirs /\ main.git \in Gits
         /\ main.git.origin # NoRepo => remote[main.git.origin] \in Trees
         /\ main.git.head \in Trees /\ main.git.fetched \in Trees
<1>1. main \in Dirs /\ main.git \in Gits
  BY DEF TypeOK, HasGit, Exists, Dirs
<1> QED BY <1>1 DEF TypeOK, Gits

LEMMA CheckedOutType ==
  ASSUME TypeOK, HasGit, NEW commit \in Trees
  PROVE  /\ CheckedOut(commit) \in Dirs
         /\ CheckedOut(commit).git \in Gits
         /\ CheckedOut(commit).git.head = commit
         /\ CheckedOut(commit).dist = main.dist
         /\ \A p \in Paths : commit[p] # NoFile => CheckedOut(commit).tree[p] = commit[p]
<1> DEFINE files == [p \in Paths |->
                       IF commit[p] # NoFile THEN commit[p]
                       ELSE IF main.git.head[p] # NoFile THEN NoFile ELSE main.tree[p]]
           git == [main.git EXCEPT !.head = commit]
<1>1. main \in Dirs /\ main.git \in Gits
  BY GitType
<1>2. files \in Trees
  BY <1>1 DEF Dirs, Trees
<1>3. git \in Gits /\ git.head = commit
  BY <1>1 DEF Gits
<1>4. CheckedOut(commit) = [main EXCEPT !.tree = files, !.git = git]
  BY <1>1 DEF CheckedOut, Dirs
<1> HIDE DEF git
<1>5. /\ CheckedOut(commit).tree = files /\ CheckedOut(commit).git = git
      /\ CheckedOut(commit).dist = main.dist
  BY <1>1, <1>4 DEF Dirs
<1>6. CheckedOut(commit) \in Dirs
  <2> HIDE DEF files
  <2> QED BY <1>1, <1>2, <1>3, <1>4 DEF Dirs
<1> QED BY <1>3, <1>5, <1>6

LEMMA JobType ==
  ASSUME NEW j \in Jobs
  PROVE  /\ \A i \in RowIds : [j EXCEPT !.row = i] \in Jobs
         /\ \A t \in Trees : [j EXCEPT !.commit = t] \in Jobs
         /\ [j EXCEPT !.ok = TRUE] \in Jobs
         /\ \A r \in Remotes \cup {NoRepo}, b \in BOOLEAN :
              [j EXCEPT !.repo = r, !.build = b] \in Jobs
         /\ \A p \in Paths : [j EXCEPT !.left = j.left \ {p}] \in Jobs
         /\ \A a \in Archives : [j EXCEPT !.archive = a, !.left = Holds[a]] \in Jobs
<1>1. \A i \in 0 .. MaxCalls : [j EXCEPT !.row = i] \in Jobs
  BY DEF Jobs
<1>2. RowIds \subseteq 0 .. MaxCalls
  BY DeployAssumption DEF RowIds
<1>3. \A t \in Trees : [j EXCEPT !.commit = t] \in Jobs
  BY DEF Jobs
<1>4. [j EXCEPT !.ok = TRUE] \in Jobs
  BY DEF Jobs
<1>5. \A r \in Remotes \cup {NoRepo}, b \in BOOLEAN : [j EXCEPT !.repo = r, !.build = b] \in Jobs
  BY DEF Jobs
<1>6. \A p \in Paths : [j EXCEPT !.left = j.left \ {p}] \in Jobs
  <2> TAKE p \in Paths
  <2>1. j.left \ {p} \in SUBSET Paths
    BY DEF Jobs
  <2> QED BY <2>1 DEF Jobs
<1>7. \A a \in Archives : [j EXCEPT !.archive = a, !.left = Holds[a]] \in Jobs
  BY DeployAssumption DEF Jobs
<1> QED BY <1>1, <1>2, <1>3, <1>4, <1>5, <1>6, <1>7

LEMMA InitType == Init => TypeOK
<1> SUFFICES ASSUME Init PROVE TypeOK
  OBVIOUS
<1> USE BlankType, EmptyType, NoJobType, DeployAssumption
<1>1. remote \in [Remotes -> Trees]
  BY DEF Init, Trees, Remotes
<1>0. /\ rows \in [RowIds -> {"none", "building", "success", "failed"}]
      /\ tmp \in Trees /\ config \in {"none", "dist"} /\ made \in BOOLEAN
      /\ deployStatus = "none" /\ open = "none" /\ pending \in BOOLEAN
      /\ pushes \in 0 .. MaxPushes /\ reboots \in 0 .. MaxReboots
      /\ before \in [Workers -> Dirs \cup {NoDir}]
      /\ lost \subseteq RowIds /\ last = "none"
  <2>1. /\ rows = [i \in RowIds |-> "none"] /\ before = [w \in Workers |-> NoDir]
        /\ tmp = Blank /\ config = "none" /\ made = FALSE /\ pushes = 0 /\ reboots = 0
        /\ deployStatus = "none" /\ open = "none" /\ pending = TRUE /\ lost = {}
        /\ last = "none"
    BY DEF Init
  <2>2. rows \in [RowIds -> {"none", "building", "success", "failed"}]
    BY <2>1
  <2>3. before \in [Workers -> Dirs \cup {NoDir}]
    BY <2>1
  <2>4. pushes \in 0 .. MaxPushes /\ reboots \in 0 .. MaxReboots
    BY <2>1
  <2> QED BY <2>1, <2>2, <2>3, <2>4
<1>8. alone \in [Workers -> BOOLEAN]
  <2>1. alone = [w \in Workers |-> at[w] # "idle"]
    BY DEF Init
  <2> QED BY <2>1, Zenon
<1>9. 0 \in 0 .. MaxCalls /\ 1 \in 0 .. MaxCalls
  OBVIOUS
<1>2. CASE siteRepo = NoRepo
  <2>1. main \in Dirs
    <3>1. main = [EmptyDirectory EXCEPT !.tree = [Blank EXCEPT ![Index] = "panel"]]
      BY <1>2 DEF Init
    <3>2. [Blank EXCEPT ![Index] = "panel"] \in Trees
      BY DEF Trees
    <3>3. \A t \in Trees : [EmptyDirectory EXCEPT !.tree = t] \in Dirs
      <4> HIDE DEF EmptyDirectory
      <4> QED BY EmptyType DEF Dirs
    <3> QED BY <3>1, <3>2, <3>3
  <2>2. /\ at = [w \in Workers |-> "idle"] /\ job = [w \in Workers |-> NoJob]
        /\ siteBuild \in BOOLEAN /\ calls = 0
    BY <1>2 DEF Init
  <2>3. at \in [Workers -> Steps] /\ job \in [Workers -> Jobs]
    BY <2>2 DEF Steps
  <2> QED BY <1>0, <1>1, <1>8, <1>9, <1>2, <2>1, <2>2, <2>3 DEF TypeOK
<1>3. CASE siteRepo \in Repos
  <2>1. /\ main = NoDir /\ calls = 1 /\ siteBuild \in BOOLEAN
        /\ \E w \in Workers :
             /\ at = [v \in Workers |-> IF v = w THEN "record" ELSE "idle"]
             /\ job = [v \in Workers |->
                         IF v = w THEN [NoJob EXCEPT !.repo = siteRepo, !.build = siteBuild]
                                  ELSE NoJob]
    BY <1>3 DEF Init
  <2>2. [NoJob EXCEPT !.repo = siteRepo, !.build = siteBuild] \in Jobs
    BY <1>3, <2>1, JobType DEF Remotes
  <2>3. at \in [Workers -> Steps] /\ job \in [Workers -> Jobs]
    BY <2>1, <2>2 DEF Steps, Deploying
  <2>4. siteRepo \in Remotes
    BY <1>3 DEF Remotes
  <2> QED BY <1>0, <1>1, <1>8, <1>9, <2>1, <2>3, <2>4 DEF TypeOK
<1> QED BY <1>2, <1>3 DEF Init

-----------------------------------------------------------------------------
(* Types are kept.                                                         *)

\* The two halves of TypeOK: the goroutines, and what they work on.
WorkType ==
  /\ at \in [Workers -> Steps] /\ job \in [Workers -> Jobs]
  /\ calls \in 0 .. MaxCalls /\ pushes \in 0 .. MaxPushes /\ reboots \in 0 .. MaxReboots
  /\ alone \in [Workers -> BOOLEAN] /\ before \in [Workers -> Dirs \cup {NoDir}]
  /\ lost \subseteq RowIds /\ last \in {"none", "main", "dist"}

ThingType ==
  /\ siteRepo \in Remotes \cup {NoRepo} /\ siteBuild \in BOOLEAN /\ config \in {"none", "dist"}
  /\ rows \in [RowIds -> {"none", "building", "success", "failed"}]
  /\ main \in Dirs \cup {NoDir} /\ tmp \in Trees
  /\ remote \in [Remotes -> Trees] /\ made \in BOOLEAN
  /\ deployStatus \in {"none", "building", "success", "failed"}
  /\ open \in {"none", "main", "dist", "stale"} /\ pending \in BOOLEAN

Typed == WorkType /\ ThingType

LEMMA Halves == TypeOK <=> Typed
  BY DEF TypeOK, Typed, WorkType, ThingType

LEMMA BeginType ==
  ASSUME TypeOK, NEW w \in Workers, NEW step \in Steps, NEW work \in Jobs,
         Begin(w, step, work)
  PROVE  WorkType'
<1>1. at' \in [Workers -> Steps] /\ job' \in [Workers -> Jobs]
  BY DEF TypeOK, Begin
<1>2. calls' \in 0 .. MaxCalls
  BY DeployAssumption DEF TypeOK, Begin
<1>3. alone' \in [Workers -> BOOLEAN] /\ before' \in [Workers -> Dirs \cup {NoDir}]
  <2>1. CASE \A v \in Workers : Idle(v)
    <3>1. alone' = [alone EXCEPT ![w] = TRUE] /\ before' = [before EXCEPT ![w] = main]
      BY <2>1 DEF Begin
    <3> QED BY <3>1 DEF TypeOK
  <2>2. CASE ~\A v \in Workers : Idle(v)
    <3>1. alone' = [v \in Workers |-> FALSE] /\ before' = [v \in Workers |-> NoDir]
      BY <2>2 DEF Begin
    <3> QED BY <3>1
  <2> QED BY <2>1, <2>2
<1>4. /\ pushes' = pushes /\ reboots' = reboots /\ lost' = lost /\ last' = "none"
  BY DEF Begin
<1> QED BY <1>1, <1>2, <1>3, <1>4 DEF TypeOK, WorkType

LEMMA GotoType ==
  ASSUME TypeOK, NEW w \in Workers, NEW step \in Steps, Goto(w, step),
         job' \in [Workers -> Jobs]
  PROVE  WorkType'
<1>1. at' \in [Workers -> Steps]
  BY DEF TypeOK, Goto
<1> QED BY <1>1 DEF TypeOK, WorkType, Goto, bounds, history

LEMMA AnswersType ==
  ASSUME TypeOK, NEW w \in Workers, Answers(w), last' \in {"none", "main", "dist"}
  PROVE  WorkType'
<1>1. at' \in [Workers -> Steps]
  BY DEF TypeOK, Answers, Steps
<1>2. job' \in [Workers -> Jobs]
  BY NoJobType DEF TypeOK, Answers
<1>3. alone' \in [Workers -> BOOLEAN] /\ before' \in [Workers -> Dirs \cup {NoDir}]
  BY DEF TypeOK, Answers
<1> QED BY <1>1, <1>2, <1>3 DEF TypeOK, WorkType, Answers, bounds

\* One field of one job is set.
LEMMA JobSet ==
  ASSUME TypeOK, NEW w \in Workers
  PROVE  /\ \A i \in RowIds : [job EXCEPT ![w] = [@ EXCEPT !.row = i]] \in [Workers -> Jobs]
         /\ \A t \in Trees : [job EXCEPT ![w] = [@ EXCEPT !.commit = t]] \in [Workers -> Jobs]
         /\ [job EXCEPT ![w] = [@ EXCEPT !.ok = TRUE]] \in [Workers -> Jobs]
         /\ [job EXCEPT ![w] = [@ EXCEPT !.repo = siteRepo, !.build = siteBuild]]
              \in [Workers -> Jobs]
         /\ \A p \in Paths : [job EXCEPT ![w] = [@ EXCEPT !.left = job[w].left \ {p}]] \in [Workers -> Jobs]
<1>1. job[w] \in Jobs /\ job \in [Workers -> Jobs]
  BY DEF TypeOK
<1>2. siteRepo \in Remotes \cup {NoRepo} /\ siteBuild \in BOOLEAN
  BY DEF TypeOK
<1>3. \A j \in Jobs : [job EXCEPT ![w] = j] \in [Workers -> Jobs]
  BY <1>1
<1>4. \A i \in RowIds : [job EXCEPT ![w] = [@ EXCEPT !.row = i]] \in [Workers -> Jobs]
  BY <1>1, <1>3, JobType
<1>5. \A t \in Trees : [job EXCEPT ![w] = [@ EXCEPT !.commit = t]] \in [Workers -> Jobs]
  BY <1>1, <1>3, JobType
<1>6. [job EXCEPT ![w] = [@ EXCEPT !.ok = TRUE]] \in [Workers -> Jobs]
  <2>1. [job[w] EXCEPT !.ok = TRUE] \in Jobs
    BY <1>1, JobType
  <2> QED BY <1>1, <1>3, <2>1
<1>7. [job EXCEPT ![w] = [@ EXCEPT !.repo = siteRepo, !.build = siteBuild]] \in [Workers -> Jobs]
  <2>1. [job[w] EXCEPT !.repo = siteRepo, !.build = siteBuild] \in Jobs
    BY <1>1, <1>2, JobType
  <2> QED BY <1>1, <1>3, <2>1
<1>8. \A p \in Paths : [job EXCEPT ![w] = [@ EXCEPT !.left = job[w].left \ {p}]] \in [Workers -> Jobs]
  BY <1>1, <1>3, JobType
<1> QED BY <1>4, <1>5, <1>6, <1>7, <1>8

LEMMA Begins ==
  /\ \A r \in Remotes \cup {NoRepo}, b \in BOOLEAN : [NoJob EXCEPT !.repo = r, !.build = b] \in Jobs
  /\ \A a \in Archives : [NoJob EXCEPT !.archive = a, !.left = Holds[a]] \in Jobs
  BY NoJobType, JobType

LEMMA StepsInSteps == Deploying \subseteq Steps /\ Zipping \subseteq Steps
                      /\ {"idle", "connect", "disconnect", "read", "seed", "push", "edit"} \subseteq Steps
  BY DEF Steps

\* A goroutine goes on, and of the site only what it works on changes.
LEMMA FailsType ==
  ASSUME TypeOK, NEW w \in Workers, Fails(w), main' \in Dirs \cup {NoDir}, tmp' = tmp,
         open' \in {"none", "main", "dist", "stale"}
  PROVE  Typed'
<1>1. WorkType'
  <2>1. job' \in [Workers -> Jobs]
    BY DEF Fails, TypeOK
  <2> QED BY <2>1, GotoType, StepsInSteps DEF Fails, Deploying
<1>2. ThingType'
  BY DEF Fails, TypeOK, ThingType, siteRow, github
<1> QED BY <1>1, <1>2 DEF Typed

LEMMA GoneType ==
  ASSUME TypeOK, DirGone \/ DistGone \/ UNCHANGED open
  PROVE  open' \in {"none", "main", "dist", "stale"}
  BY DEF TypeOK, DirGone, DistGone

-----------------------------------------------------------------------------
(* Types: the requests.                                                    *)

LEMMA DeployGitType ==
  ASSUME TypeOK, NEW w \in Workers, DeployGit(w)
  PROVE  Typed'
<1>1. [NoJob EXCEPT !.repo = siteRepo, !.build = siteBuild] \in Jobs
  BY Begins DEF TypeOK
<1>8. WorkType'
  BY <1>1, BeginType, StepsInSteps DEF DeployGit, Deploying
<1>9. ThingType'
  BY DEF TypeOK, ThingType, DeployGit, siteRow, disk, github, plane
<1> QED BY <1>8, <1>9 DEF Typed

LEMMA AskConnectType ==
  ASSUME TypeOK, NEW w \in Workers, NEW r \in Remotes, NEW b \in BOOLEAN, AskConnect(w, r, b)
  PROVE  Typed'
<1>8. WorkType'
  BY BeginType, StepsInSteps, NoJobType, Begins DEF AskConnect, Deploying, Zipping, Remotes
<1>9. ThingType'
  BY DEF TypeOK, ThingType, AskConnect, siteRow, disk, github, plane
<1> QED BY <1>8, <1>9 DEF Typed

LEMMA AskCreateRepoType ==
  ASSUME TypeOK, NEW w \in Workers, NEW b \in BOOLEAN, AskCreateRepo(w, b)
  PROVE  Typed'
<1>8. WorkType'
  BY BeginType, StepsInSteps, NoJobType, Begins DEF AskCreateRepo, Deploying, Zipping, Remotes
<1>9. ThingType'
  BY DEF TypeOK, ThingType, AskCreateRepo, siteRow, disk, github, plane
<1> QED BY <1>8, <1>9 DEF Typed

LEMMA AskDisconnectType ==
  ASSUME TypeOK, NEW w \in Workers, AskDisconnect(w)
  PROVE  Typed'
<1>8. WorkType'
  BY BeginType, StepsInSteps, NoJobType, Begins DEF AskDisconnect, Deploying, Zipping, Remotes
<1>9. ThingType'
  BY DEF TypeOK, ThingType, AskDisconnect, siteRow, disk, github, plane
<1> QED BY <1>8, <1>9 DEF Typed

LEMMA DeployZipType ==
  ASSUME TypeOK, NEW w \in Workers, NEW a \in Archives, DeployZip(w, a)
  PROVE  Typed'
<1>8. WorkType'
  BY BeginType, StepsInSteps, NoJobType, Begins DEF DeployZip, Deploying, Zipping, Remotes
<1>9. ThingType'
  BY DEF TypeOK, ThingType, DeployZip, siteRow, disk, github, plane
<1> QED BY <1>8, <1>9 DEF Typed

LEMMA AskEditType ==
  ASSUME TypeOK, NEW w \in Workers, AskEdit(w)
  PROVE  Typed'
<1>8. WorkType'
  BY BeginType, StepsInSteps, NoJobType, Begins DEF AskEdit, Deploying, Zipping, Remotes
<1>9. ThingType'
  BY DEF TypeOK, ThingType, AskEdit, siteRow, disk, github, plane
<1> QED BY <1>8, <1>9 DEF Typed

-----------------------------------------------------------------------------
(* Types: the deployment.                                                  *)

LEMMA RecordType ==
  ASSUME TypeOK, NEW w \in Workers, Record(w)
  PROVE  Typed'
<1>1. /\ rows' \in [RowIds -> {"none", "building", "success", "failed"}]
      /\ job' \in [Workers -> Jobs]
  <2>1. ASSUME NEW i \in RowIds, rows' = [rows EXCEPT ![i] = "building"],
               job' = [job EXCEPT ![w] = [@ EXCEPT !.row = i]]
        PROVE  /\ rows' \in [RowIds -> {"none", "building", "success", "failed"}]
               /\ job' \in [Workers -> Jobs]
    <3>1. rows' \in [RowIds -> {"none", "building", "success", "failed"}]
      BY <2>1 DEF TypeOK
    <3>2. job' \in [Workers -> Jobs]
      BY <2>1, JobSet
    <3> QED BY <3>1, <3>2
  <2>2. CASE UNCHANGED <<rows, job>>
    BY <2>2 DEF TypeOK
  <2> QED BY <2>1, <2>2 DEF Record
<1>2. WorkType'
  BY <1>1, GotoType, StepsInSteps DEF Record, Deploying
<1>3. ThingType'
  BY <1>1 DEF TypeOK, ThingType, Record, siteRow, disk, github, plane
<1> QED BY <1>2, <1>3 DEF Typed

LEMMA StatType ==
  ASSUME TypeOK, NEW w \in Workers, Stat(w)
  PROVE  Typed'
<1>1. job' \in [Workers -> Jobs]
  BY DEF TypeOK, Stat
<1>2. WorkType'
  BY <1>1, GotoType, StepsInSteps DEF Stat, Deploying, Zipping
<1>3. ThingType'
  BY <1>1 DEF TypeOK, ThingType, Stat, siteRow, disk, github, plane
<1> QED BY <1>2, <1>3 DEF Typed

LEMMA EmptyDirType ==
  ASSUME TypeOK, NEW w \in Workers, EmptyDir(w)
  PROVE  Typed'
<1>1. CASE Fails(w)
  BY <1>1, FailsType, GoneType, EmptyType DEF EmptyDir, TypeOK, disk
<1>2. CASE ~Fails(w)
  <2>1. main' \in Dirs /\ open' \in {"none", "main", "dist", "stale"}
    BY <1>2, GoneType, EmptyType DEF EmptyDir
  <2>2. job' \in [Workers -> Jobs]
    BY <1>2 DEF TypeOK, EmptyDir
  <2>3. WorkType'
    BY <1>2, <2>2, GotoType, StepsInSteps DEF EmptyDir, Deploying
  <2>4. ThingType'
    BY <1>2, <2>1 DEF TypeOK, ThingType, EmptyDir, siteRow, github, plane
  <2> QED BY <2>3, <2>4 DEF Typed
<1> QED BY <1>1, <1>2

LEMMA CloneBeginsType ==
  ASSUME TypeOK, NEW w \in Workers, CloneBegins(w)
  PROVE  Typed'
<1>1. CASE Fails(w) /\ UNCHANGED <<disk, open>>
  BY <1>1, FailsType DEF TypeOK, disk
<1>2. CASE ~(Fails(w) /\ UNCHANGED <<disk, open>>)
  <2>1. main' \in Dirs
    <3> DEFINE git == [origin |-> job[w].repo, head |-> Blank, fetched |-> Blank]
    <3>1. main = EmptyDirectory /\ main' = [main EXCEPT !.git = git] /\ job[w].repo # NoRepo
      BY <1>2 DEF CloneBegins
    <3>2. git \in Gits
      BY <3>1, BlankType DEF TypeOK, Jobs, Gits
    <3>3. main \in Dirs
      BY <3>1, EmptyType
    <3> HIDE DEF git
    <3> QED BY <3>1, <3>2, <3>3, DirType
  <2>2. job' \in [Workers -> Jobs]
    BY <1>2 DEF TypeOK, CloneBegins
  <2>3. WorkType'
    BY <1>2, <2>2, GotoType, StepsInSteps DEF CloneBegins, Deploying
  <2>4. ThingType'
    BY <1>2, <2>1 DEF TypeOK, ThingType, CloneBegins, siteRow, github, plane
  <2> QED BY <2>3, <2>4 DEF Typed
<1> QED BY <1>1, <1>2

LEMMA CloneEndsType ==
  ASSUME TypeOK, NEW w \in Workers, CloneEnds(w)
  PROVE  Typed'
<1>1. CASE HasBranch /\ main' = CheckedOut(remote[main.git.origin])
           /\ Goto(w, "head") /\ UNCHANGED <<siteRow, rows, tmp, github, job, deployStatus, plane>>
  <2>1. main' \in Dirs
    BY <1>1, GitType, CheckedOutType DEF HasBranch
  <2>2. job' \in [Workers -> Jobs]
    BY <1>1 DEF TypeOK, CloneEnds
  <2>3. WorkType'
    BY <1>1, <2>2, GotoType, StepsInSteps DEF CloneEnds, Deploying
  <2>4. ThingType'
    BY <1>1, <2>1 DEF TypeOK, ThingType, CloneEnds, siteRow, github, plane
  <2> QED BY <2>3, <2>4 DEF Typed
<1>2. CASE Fails(w) /\ main' = (IF Exists THEN EmptyDirectory ELSE NoDir) /\ DistGone /\ tmp' = tmp
  BY <1>2, FailsType, GoneType, EmptyType
<1> QED BY <1>1, <1>2 DEF CloneEnds

LEMMA FetchOriginType ==
  ASSUME TypeOK, NEW w \in Workers, FetchOrigin(w)
  PROVE  Typed'
<1>1. CASE Fails(w) /\ UNCHANGED <<disk, open>>
  BY <1>1, FailsType DEF TypeOK, disk
<1>2. CASE ~(Fails(w) /\ UNCHANGED <<disk, open>>)
  <2>1. main' \in Dirs
    <3> DEFINE git == [main.git EXCEPT !.fetched = remote[main.git.origin]]
    <3>1. main' = [main EXCEPT !.git = git] /\ HasBranch /\ HasGit
      BY <1>2, GitType DEF FetchOrigin, Dirs, HasBranch
    <3>2. git \in Gits
      BY <3>1, GitType DEF Gits, HasBranch
    <3> HIDE DEF git
    <3> QED BY <3>1, <3>2, GitType, DirType
  <2>2. job' \in [Workers -> Jobs]
    BY <1>2 DEF TypeOK, FetchOrigin
  <2>3. WorkType'
    BY <1>2, <2>2, GotoType, StepsInSteps DEF FetchOrigin, Deploying
  <2>4. ThingType'
    BY <1>2, <2>1 DEF TypeOK, ThingType, FetchOrigin, siteRow, github, plane
  <2> QED BY <2>3, <2>4 DEF Typed
<1> QED BY <1>1, <1>2

LEMMA ResetHardType ==
  ASSUME TypeOK, NEW w \in Workers, ResetHard(w)
  PROVE  Typed'
<1>1. CASE Fails(w) /\ UNCHANGED <<disk, open>>
  BY <1>1, FailsType DEF TypeOK, disk
<1>2. CASE ~(Fails(w) /\ UNCHANGED <<disk, open>>)
  <2>1. main' \in Dirs
    BY <1>2, GitType, CheckedOutType DEF ResetHard
  <2>2. job' \in [Workers -> Jobs]
    BY <1>2 DEF TypeOK, ResetHard
  <2>3. WorkType'
    BY <1>2, <2>2, GotoType, StepsInSteps DEF ResetHard, Deploying
  <2>4. ThingType'
    BY <1>2, <2>1 DEF TypeOK, ThingType, ResetHard, siteRow, github, plane
  <2> QED BY <2>3, <2>4 DEF Typed
<1> QED BY <1>1, <1>2

LEMMA HeadType ==
  ASSUME TypeOK, NEW w \in Workers, Head(w)
  PROVE  Typed'
<1>1. job' \in [Workers -> Jobs]
  <2> DEFINE commit == IF HasGit THEN main.git.head ELSE Blank
  <2>1. commit \in Trees
    BY GitType, BlankType
  <2>2. job' = [job EXCEPT ![w] = [@ EXCEPT !.commit = commit]]
    BY DEF Head
  <2> HIDE DEF commit
  <2> QED BY <2>1, <2>2, JobSet
<1>2. WorkType'
  BY <1>1, GotoType, StepsInSteps DEF Head, Deploying
<1>3. ThingType'
  BY DEF TypeOK, ThingType, Head, siteRow, disk, github, plane
<1> QED BY <1>2, <1>3 DEF Typed

LEMMA BuildType ==
  ASSUME TypeOK, NEW w \in Workers, Build(w)
  PROVE  Typed'
<1>1. Exists => main \in Dirs /\ \A b \in BOOLEAN : [main EXCEPT !.dist = b] \in Dirs
  BY DirType DEF TypeOK, Exists
<1>2. main' \in Dirs \cup {NoDir} /\ tmp' = tmp
  BY <1>1 DEF Build, TypeOK
<1>3. open' \in {"none", "main", "dist", "stale"}
  BY GoneType DEF Build
<1>4. CASE Fails(w)
  BY <1>2, <1>3, <1>4, FailsType
<1>5. CASE ~Fails(w)
  <2>1. job' \in [Workers -> Jobs]
    BY <1>5 DEF TypeOK, Build
  <2>2. WorkType'
    BY <1>5, <2>1, GotoType, StepsInSteps DEF Build, Deploying
  <2>3. ThingType'
    BY <1>2, <1>3, <1>5 DEF TypeOK, ThingType, Build, siteRow, github
  <2> QED BY <2>2, <2>3 DEF Typed
<1> QED BY <1>4, <1>5

LEMMA StoreRootType ==
  ASSUME TypeOK, NEW w \in Workers, StoreRoot(w)
  PROVE  Typed'
<1>1. job' \in [Workers -> Jobs]
  BY DEF TypeOK, StoreRoot
<1>2. WorkType'
  BY <1>1, GotoType, StepsInSteps DEF StoreRoot, Deploying, Zipping
<1>3. ThingType'
  BY <1>1 DEF TypeOK, ThingType, StoreRoot, siteRow, disk, github, plane
<1> QED BY <1>2, <1>3 DEF Typed

LEMMA TellType ==
  ASSUME TypeOK, NEW w \in Workers, Tell(w)
  PROVE  Typed'
<1>1. job' \in [Workers -> Jobs]
  BY JobSet DEF TypeOK, Tell
<1>2. WorkType'
  BY <1>1, GotoType, StepsInSteps DEF Tell, Deploying, Zipping
<1>3. ThingType'
  BY DEF TypeOK, ThingType, Tell, NotifyReload, siteRow, disk, github, plane
<1> QED BY <1>2, <1>3 DEF Typed

LEMMA FinishType ==
  ASSUME TypeOK, NEW w \in Workers, Finish(w)
  PROVE  Typed'
<1>1. WorkType'
  BY AnswersType DEF Finish
<1>2. rows' \in [RowIds -> {"none", "building", "success", "failed"}]
  BY DEF TypeOK, Finish
<1>3. ThingType'
  BY <1>2 DEF TypeOK, ThingType, Finish, siteRow, disk, github, plane
<1> QED BY <1>1, <1>3 DEF Typed

-----------------------------------------------------------------------------
(* Types: connecting and disconnecting.                                    *)

LEMMA ConnectGitType ==
  ASSUME TypeOK, NEW w \in Workers, ConnectGit(w)
  PROVE  Typed'
<1>1. job' \in [Workers -> Jobs]
  BY DEF TypeOK, ConnectGit
<1>2. WorkType'
  BY <1>1, GotoType, StepsInSteps DEF ConnectGit
<1>3. siteRepo' \in Remotes \cup {NoRepo} /\ siteBuild' \in BOOLEAN
  <2>1. job[w].repo \in Remotes \cup {NoRepo} /\ job[w].build \in BOOLEAN
    BY DEF TypeOK, Jobs
  <2>2. siteRepo' = job[w].repo /\ siteBuild' = job[w].build
    BY DEF ConnectGit
  <2> QED BY <2>1, <2>2, Zenon
<1>4. ThingType'
  BY <1>3 DEF TypeOK, ThingType, ConnectGit, disk, github, plane
<1> QED BY <1>2, <1>4 DEF Typed

LEMMA ReadSiteType ==
  ASSUME TypeOK, NEW w \in Workers, ReadSite(w)
  PROVE  Typed'
<1>1. job' \in [Workers -> Jobs]
  BY JobSet DEF TypeOK, ReadSite
<1>2. WorkType'
  BY <1>1, GotoType, StepsInSteps DEF ReadSite, Deploying, Zipping
<1>3. ThingType'
  BY DEF TypeOK, ThingType, ReadSite, siteRow, disk, github, plane
<1> QED BY <1>2, <1>3 DEF Typed

LEMMA DisconnectGitType ==
  ASSUME TypeOK, NEW w \in Workers, DisconnectGit(w)
  PROVE  Typed'
<1>1. WorkType'
  BY AnswersType DEF TypeOK, DisconnectGit
<1>2. ThingType'
  BY DEF TypeOK, ThingType, DisconnectGit, siteRow, disk, github, plane
<1> QED BY <1>1, <1>2 DEF Typed

LEMMA SeedType ==
  ASSUME TypeOK, NEW w \in Workers, Seed(w)
  PROVE  Typed'
<1>1. Exists => main \in Dirs /\ main.tree \in Trees
                  /\ \A g \in Gits \cup {NoGit} : [main EXCEPT !.git = g] \in Dirs
  BY DirType DEF TypeOK, Exists, Dirs
<1>2. \A r \in Remotes \cup {NoRepo}, c \in Trees :
        [origin |-> r, head |-> c, fetched |-> Blank] \in Gits
  BY BlankType DEF Gits
<1>3. main' \in Dirs \cup {NoDir} /\ tmp' = tmp
  <2>1. CASE Exists /\ main' = [main EXCEPT !.git = [origin |-> Own, head |-> main.tree, fetched |-> Blank]]
    <3> DEFINE git == [origin |-> Own, head |-> main.tree, fetched |-> Blank]
    <3>1. git \in Gits
      BY <1>1, <1>2, <2>1 DEF Remotes
    <3>2. main' = [main EXCEPT !.git = git]
      BY <2>1
    <3> HIDE DEF git
    <3> QED BY <1>1, <2>1, <3>1, <3>2 DEF Seed
  <2>2. CASE main' = IF Exists THEN [main EXCEPT !.git = NoGit] ELSE NoDir
    BY <1>1, <2>2 DEF Seed
  <2>3. ASSUME Exists, NEW c \in {Blank, main.tree},
               main' = [main EXCEPT !.git = [origin |-> NoRepo, head |-> c, fetched |-> Blank]]
        PROVE  main' \in Dirs \cup {NoDir} /\ tmp' = tmp
    <3> DEFINE git == [origin |-> NoRepo, head |-> c, fetched |-> Blank]
    <3>1. git \in Gits
      BY <1>1, <1>2, <2>3, BlankType
    <3>2. main' = [main EXCEPT !.git = git]
      BY <2>3
    <3> HIDE DEF git
    <3> QED BY <1>1, <2>3, <3>1, <3>2 DEF Seed
  <2> QED BY <2>1, <2>2, <2>3 DEF Seed
<1>4. WorkType'
  <2>1. CASE Goto(w, "push") /\ job' = job
    BY <2>1, GotoType, StepsInSteps DEF TypeOK
  <2>2. CASE Ends(w)
    BY <2>2, AnswersType DEF Ends, TypeOK
  <2> QED BY <2>1, <2>2 DEF Seed
<1>5. ThingType'
  BY <1>3 DEF TypeOK, ThingType, Seed, Ends, siteRow, github, plane
<1> QED BY <1>4, <1>5 DEF Typed

LEMMA SeedPushType ==
  ASSUME TypeOK, NEW w \in Workers, SeedPush(w)
  PROVE  Typed'
<1>1. WorkType'
  <2>1. CASE Goto(w, "connect") /\ job' = job
    BY <2>1, GotoType, StepsInSteps DEF TypeOK
  <2>2. CASE Ends(w)
    BY <2>2, AnswersType DEF Ends, TypeOK
  <2> QED BY <2>1, <2>2 DEF SeedPush
<1>2. remote' \in [Remotes -> Trees]
  <2>1. CASE /\ HasGit /\ main.git.origin # NoRepo
             /\ remote' = [remote EXCEPT ![main.git.origin] = main.git.head]
    BY <2>1, GitType DEF TypeOK
  <2>2. CASE remote' = remote
    BY <2>2 DEF TypeOK
  <2> QED BY <2>1, <2>2 DEF SeedPush, Ends, github
<1>3. ThingType'
  BY <1>2 DEF TypeOK, ThingType, SeedPush, Ends, siteRow, disk, github, plane
<1> QED BY <1>1, <1>3 DEF Typed

-----------------------------------------------------------------------------
(* Types: uploads and the editor.                                          *)

LEMMA ZipClearType ==
  ASSUME TypeOK, NEW w \in Workers, ZipClear(w)
  PROVE  Typed'
<1>1. job' \in [Workers -> Jobs]
  BY DEF TypeOK, ZipClear, ZipStep
<1>2. WorkType'
  BY <1>1, GotoType, StepsInSteps DEF ZipClear, Deploying, Zipping, ZipStep
<1>3. ThingType'
  BY BlankType DEF TypeOK, ThingType, ZipClear, siteRow, disk, github, plane, ZipStep
<1> QED BY <1>2, <1>3 DEF Typed

LEMMA ExtractType ==
  ASSUME TypeOK, NEW w \in Workers, OkInv, Extract(w)
  PROVE  Typed'
<1>1. job' \in [Workers -> Jobs] /\ tmp' \in Trees /\ main' = main /\ open' = open
  <2>1. ASSUME NEW p \in job[w].left, tmp' = [tmp EXCEPT ![p] = job[w].archive],
               job' = [job EXCEPT ![w] = [@ EXCEPT !.left = job[w].left \ {p}]],
               UNCHANGED <<main, open>>
        PROVE  job' \in [Workers -> Jobs] /\ tmp' \in Trees /\ main' = main /\ open' = open
    <3>1. p \in Paths
      BY DEF TypeOK, Jobs
    <3>2. job[w].archive \in Archives
      BY DEF OkInv, OkOf, Extract, Zipping
    <3>3. tmp' \in Trees
      BY <2>1, <3>2 DEF TypeOK, Trees
    <3> QED BY <2>1, <3>1, <3>3, JobSet
  <2>2. CASE UNCHANGED <<disk, job, open>>
    BY <2>2 DEF TypeOK, disk
  <2> QED BY <2>1, <2>2 DEF Extract
<1>2. WorkType'
  BY <1>1, GotoType, StepsInSteps DEF Extract, ZipStep, Zipping
<1>3. ThingType'
  BY <1>1 DEF TypeOK, ThingType, Extract, ZipStep, siteRow, github
<1> QED BY <1>2, <1>3 DEF Typed

LEMMA RemoveOldType ==
  ASSUME TypeOK, NEW w \in Workers, RemoveOld(w)
  PROVE  Typed'
<1>1. job' \in [Workers -> Jobs]
  BY DEF TypeOK, RemoveOld, ZipStep
<1>2. WorkType'
  BY <1>1, GotoType, StepsInSteps DEF RemoveOld, Deploying, Zipping, ZipStep
<1>3. ThingType'
  BY GoneType DEF TypeOK, ThingType, RemoveOld, siteRow, disk, github, plane, ZipStep
<1> QED BY <1>2, <1>3 DEF Typed

LEMMA RenameType ==
  ASSUME TypeOK, NEW w \in Workers, Rename(w)
  PROVE  Typed'
<1>1. job' \in [Workers -> Jobs]
  BY JobSet DEF TypeOK, Rename
<1>2. main' \in Dirs \cup {NoDir} /\ tmp' \in Trees
  <2>1. [EmptyDirectory EXCEPT !.tree = tmp] \in Dirs
    <3>1. EmptyDirectory \in Dirs /\ tmp \in Trees
      BY EmptyType DEF TypeOK
    <3> HIDE DEF EmptyDirectory
    <3> QED BY <3>1 DEF Dirs
  <2> HIDE DEF EmptyDirectory
  <2> QED BY <2>1, BlankType DEF TypeOK, Rename, disk
<1>3. open' \in {"none", "main", "dist", "stale"}
  BY GoneType DEF Rename
<1>4. WorkType'
  BY <1>1, GotoType, StepsInSteps DEF Rename, ZipStep, Zipping
<1>5. ThingType'
  BY <1>2, <1>3 DEF TypeOK, ThingType, Rename, ZipStep, siteRow, github
<1> QED BY <1>4, <1>5 DEF Typed

LEMMA CleanupType ==
  ASSUME TypeOK, NEW w \in Workers, Cleanup(w)
  PROVE  Typed'
<1>1. job' \in [Workers -> Jobs]
  BY DEF TypeOK, Cleanup, ZipStep
<1>2. WorkType'
  BY <1>1, GotoType, StepsInSteps DEF Cleanup, Deploying, Zipping, ZipStep
<1>3. ThingType'
  BY BlankType DEF TypeOK, ThingType, Cleanup, siteRow, disk, github, plane, ZipStep
<1> QED BY <1>2, <1>3 DEF Typed

LEMMA DeployedType ==
  ASSUME TypeOK, NEW w \in Workers, Deployed(w)
  PROVE  Typed'
<1>1. WorkType'
  BY AnswersType DEF TypeOK, Deployed, NotifyReload
<1>2. ThingType'
  BY DEF TypeOK, ThingType, Deployed, siteRow, disk, github, plane, NotifyReload
<1> QED BY <1>1, <1>2 DEF Typed

LEMMA ZipFailedType ==
  ASSUME TypeOK, NEW w \in Workers, ZipFailed(w)
  PROVE  Typed'
<1>1. WorkType'
  BY AnswersType DEF TypeOK, ZipFailed, Ends
<1>2. ThingType'
  BY DEF TypeOK, ThingType, ZipFailed, siteRow, disk, github, plane, Ends
<1> QED BY <1>1, <1>2 DEF Typed

LEMMA EditType ==
  ASSUME TypeOK, NEW w \in Workers, Edit(w)
  PROVE  Typed'
<1>1. WorkType'
  BY AnswersType DEF TypeOK, Edit, Ends
<1>2. main' \in Dirs \cup {NoDir}
  <2> DEFINE dir == IF Exists THEN main ELSE EmptyDirectory
  <2>1. dir \in Dirs
    BY EmptyType DEF TypeOK, Exists
  <2>2. \/ main' = dir \/ \E p \in Paths : main' = [dir EXCEPT !.tree = [@ EXCEPT ![p] = "panel"]]
        \/ dir = main /\ \E p \in Paths : main' = [dir EXCEPT !.tree = [@ EXCEPT ![p] = NoFile]]
        \/ main' = main
    BY DEF Edit
  <2> HIDE DEF dir
  <2>3. /\ \A p \in Paths : [dir EXCEPT !.tree = [@ EXCEPT ![p] = "panel"]] \in Dirs
        /\ \A p \in Paths : [dir EXCEPT !.tree = [@ EXCEPT ![p] = NoFile]] \in Dirs
    BY <2>1, DirType
  <2>4. main \in Dirs \cup {NoDir}
    BY DEF TypeOK
  <2> QED BY <2>1, <2>2, <2>3, <2>4
<1>3. ThingType'
  BY <1>2 DEF TypeOK, ThingType, Edit, Ends, siteRow, github, plane
<1> QED BY <1>1, <1>3 DEF Typed

-----------------------------------------------------------------------------
(* Types: the world and the panel.                                         *)

LEMMA PushType ==
  ASSUME TypeOK, NEW r \in Remotes, Push(r)
  PROVE  Typed'
<1>1. remote' \in [Remotes -> Trees]
  <2>1. PICK p \in Paths : remote' = [remote EXCEPT ![r] = [Blank EXCEPT ![p] = r]]
    BY DEF Push
  <2>2. [Blank EXCEPT ![p] = r] \in Trees
    BY BlankType DEF Trees
  <2> QED BY <2>1, <2>2 DEF TypeOK
<1>2. pushes' \in 0 .. MaxPushes
  BY DeployAssumption DEF TypeOK, Push
<1>3. WorkType'
  BY <1>2 DEF TypeOK, WorkType, Push, history
<1>4. ThingType'
  BY <1>1 DEF TypeOK, ThingType, Push, siteRow, disk, plane
<1> QED BY <1>3, <1>4 DEF Typed

LEMMA ReloadType ==
  ASSUME TypeOK, Reload
  PROVE  Typed'
<1>1. WorkType'
  BY DEF TypeOK, WorkType, Reload, history, bounds
<1>2. ThingType'
  BY DEF TypeOK, ThingType, Reload, Lookup, siteRow, disk, github
<1> QED BY <1>1, <1>2 DEF Typed

LEMMA RebootType ==
  ASSUME TypeOK, Reboot
  PROVE  Typed'
<1>1. /\ at' = [w \in Workers |-> "idle"] /\ job' = [w \in Workers |-> NoJob]
      /\ before' = [w \in Workers |-> NoDir] /\ alone' = [w \in Workers |-> FALSE]
      /\ reboots < MaxReboots /\ reboots' = reboots + 1
      /\ UNCHANGED <<calls, pushes>> /\ last' = "none"
  BY DEF Reboot
<1>2. at' \in [Workers -> Steps] /\ job' \in [Workers -> Jobs]
  BY <1>1, NoJobType, StepsInSteps
<1>3. alone' \in [Workers -> BOOLEAN] /\ before' \in [Workers -> Dirs \cup {NoDir}]
  BY <1>1
<1>4. lost' \subseteq RowIds
  BY DEF Reboot, TypeOK
<1>5. reboots' \in 0 .. MaxReboots
  BY <1>1, DeployAssumption DEF TypeOK
<1>6. WorkType'
  BY <1>1, <1>2, <1>3, <1>4, <1>5 DEF TypeOK, WorkType
<1>7. ThingType'
  BY DEF TypeOK, ThingType, Reboot, siteRow, disk, github, plane
<1> QED BY <1>6, <1>7 DEF Typed

-----------------------------------------------------------------------------
(* Where a deployment stands tells whether it has come to its good end.    *)

LEMMA OkMove ==
  ASSUME TypeOK, OkInv, NEW w \in Workers, NEW step, NEW work,
         at' = [at EXCEPT ![w] = step], job' = [job EXCEPT ![w] = work], OkOf(step, work)
  PROVE  OkInv'
<1>1. at'[w] = step /\ job'[w] = work
      /\ \A v \in Workers \ {w} : at'[v] = at[v] /\ job'[v] = job[v]
  BY DEF TypeOK
<1> QED BY <1>1 DEF OkInv

\* A goroutine that goes on with the same work.
LEMMA OkGoto ==
  ASSUME TypeOK, OkInv, NEW w \in Workers, NEW step, Goto(w, step), job' = job,
         OkOf(step, job[w])
  PROVE  OkInv'
<1>1. job' = [job EXCEPT ![w] = job[w]]
  BY DEF TypeOK
<1> QED BY <1>1, OkMove DEF Goto

LEMMA OkIdle == OkOf("idle", NoJob)
  BY DeployAssumption DEF OkOf, NoJob, Zipping

LEMMA OkAnswers ==
  ASSUME TypeOK, OkInv, NEW w \in Workers, Answers(w)
  PROVE  OkInv'
  BY OkMove, OkIdle DEF Answers

LEMMA OkBegin ==
  ASSUME TypeOK, OkInv, NEW w \in Workers, NEW step, NEW work, Begin(w, step, work),
         OkOf(step, work)
  PROVE  OkInv'
  BY OkMove DEF Begin

\* A step of a deployment or of a connection that says nothing of an upload.
LEMMA OkPlain ==
  ASSUME NEW step, NEW work \in Jobs, work.archive = NoArchive, ~work.ok, step \notin Zipping
  PROVE  OkOf(step, work)
  BY DEF OkOf, Zipping

LEMMA NoArchiveYet ==
  ASSUME OkInv, NEW w \in Workers, at[w] \notin Zipping
  PROVE  job[w].archive = NoArchive /\ (at[w] # "finish" => ~job[w].ok)
  BY DEF OkInv, OkOf, Zipping

LEMMA StatOk ==
  ASSUME TypeOK, OkInv, NEW w \in Workers, Stat(w)
  PROVE  OkInv'
<1>1. job[w] \in Jobs
  BY DEF TypeOK
<1>2. at[w] \notin Zipping /\ at[w] # "finish" /\ job' = job
  BY DEF Stat, Fails, Zipping
<1>3. PICK step \in Steps \ Zipping : Goto(w, step)
  BY DEF Stat, Fails, Zipping, Steps, Deploying
<1> QED BY <1>1, <1>2, <1>3, OkGoto, OkPlain, NoArchiveYet

LEMMA EmptyDirOk ==
  ASSUME TypeOK, OkInv, NEW w \in Workers, EmptyDir(w)
  PROVE  OkInv'
<1>1. job[w] \in Jobs
  BY DEF TypeOK
<1>2. at[w] \notin Zipping /\ at[w] # "finish" /\ job' = job
  BY DEF EmptyDir, Fails, Zipping
<1>3. PICK step \in Steps \ Zipping : Goto(w, step)
  BY DEF EmptyDir, Fails, Zipping, Steps, Deploying
<1> QED BY <1>1, <1>2, <1>3, OkGoto, OkPlain, NoArchiveYet

LEMMA CloneBeginsOk ==
  ASSUME TypeOK, OkInv, NEW w \in Workers, CloneBegins(w)
  PROVE  OkInv'
<1>1. job[w] \in Jobs
  BY DEF TypeOK
<1>2. at[w] \notin Zipping /\ at[w] # "finish" /\ job' = job
  BY DEF CloneBegins, Fails, Zipping
<1>3. PICK step \in Steps \ Zipping : Goto(w, step)
  BY DEF CloneBegins, Fails, Zipping, Steps, Deploying
<1> QED BY <1>1, <1>2, <1>3, OkGoto, OkPlain, NoArchiveYet

LEMMA CloneEndsOk ==
  ASSUME TypeOK, OkInv, NEW w \in Workers, CloneEnds(w)
  PROVE  OkInv'
<1>1. job[w] \in Jobs
  BY DEF TypeOK
<1>2. at[w] \notin Zipping /\ at[w] # "finish" /\ job' = job
  BY DEF CloneEnds, Fails, Zipping
<1>3. PICK step \in Steps \ Zipping : Goto(w, step)
  BY DEF CloneEnds, Fails, Zipping, Steps, Deploying
<1> QED BY <1>1, <1>2, <1>3, OkGoto, OkPlain, NoArchiveYet

LEMMA FetchOriginOk ==
  ASSUME TypeOK, OkInv, NEW w \in Workers, FetchOrigin(w)
  PROVE  OkInv'
<1>1. job[w] \in Jobs
  BY DEF TypeOK
<1>2. at[w] \notin Zipping /\ at[w] # "finish" /\ job' = job
  BY DEF FetchOrigin, Fails, Zipping
<1>3. PICK step \in Steps \ Zipping : Goto(w, step)
  BY DEF FetchOrigin, Fails, Zipping, Steps, Deploying
<1> QED BY <1>1, <1>2, <1>3, OkGoto, OkPlain, NoArchiveYet

LEMMA ResetHardOk ==
  ASSUME TypeOK, OkInv, NEW w \in Workers, ResetHard(w)
  PROVE  OkInv'
<1>1. job[w] \in Jobs
  BY DEF TypeOK
<1>2. at[w] \notin Zipping /\ at[w] # "finish" /\ job' = job
  BY DEF ResetHard, Fails, Zipping
<1>3. PICK step \in Steps \ Zipping : Goto(w, step)
  BY DEF ResetHard, Fails, Zipping, Steps, Deploying
<1> QED BY <1>1, <1>2, <1>3, OkGoto, OkPlain, NoArchiveYet

LEMMA BuildOk ==
  ASSUME TypeOK, OkInv, NEW w \in Workers, Build(w)
  PROVE  OkInv'
<1>1. job[w] \in Jobs
  BY DEF TypeOK
<1>2. at[w] \notin Zipping /\ at[w] # "finish" /\ job' = job
  BY DEF Build, Fails, Zipping
<1>3. PICK step \in Steps \ Zipping : Goto(w, step)
  BY DEF Build, Fails, Zipping, Steps, Deploying
<1> QED BY <1>1, <1>2, <1>3, OkGoto, OkPlain, NoArchiveYet

LEMMA StoreRootOk ==
  ASSUME TypeOK, OkInv, NEW w \in Workers, StoreRoot(w)
  PROVE  OkInv'
<1>1. job[w] \in Jobs
  BY DEF TypeOK
<1>2. at[w] \notin Zipping /\ at[w] # "finish" /\ job' = job
  BY DEF StoreRoot, Fails, Zipping
<1>3. PICK step \in Steps \ Zipping : Goto(w, step)
  BY DEF StoreRoot, Fails, Zipping, Steps, Deploying
<1> QED BY <1>1, <1>2, <1>3, OkGoto, OkPlain, NoArchiveYet

LEMMA ConnectGitOk ==
  ASSUME TypeOK, OkInv, NEW w \in Workers, ConnectGit(w)
  PROVE  OkInv'
<1>1. job[w] \in Jobs
  BY DEF TypeOK
<1>2. at[w] \notin Zipping /\ at[w] # "finish" /\ job' = job
  BY DEF ConnectGit, Fails, Zipping
<1>3. PICK step \in Steps \ Zipping : Goto(w, step)
  BY DEF ConnectGit, Fails, Zipping, Steps, Deploying
<1> QED BY <1>1, <1>2, <1>3, OkGoto, OkPlain, NoArchiveYet

LEMMA JobFields ==
  ASSUME NEW j \in Jobs
  PROVE  /\ \A i : [j EXCEPT !.row = i].archive = j.archive /\ [j EXCEPT !.row = i].ok = j.ok
         /\ \A c : [j EXCEPT !.commit = c].archive = j.archive /\ [j EXCEPT !.commit = c].ok = j.ok
         /\ \A r, b : /\ [j EXCEPT !.repo = r, !.build = b].archive = j.archive
                      /\ [j EXCEPT !.repo = r, !.build = b].ok = j.ok
         /\ [j EXCEPT !.ok = TRUE].archive = j.archive /\ [j EXCEPT !.ok = TRUE].left = j.left
         /\ [j EXCEPT !.ok = TRUE].ok = TRUE
         /\ \A l : /\ [j EXCEPT !.left = l].archive = j.archive
                  /\ [j EXCEPT !.left = l].left = l /\ [j EXCEPT !.left = l].ok = j.ok
  BY DEF Jobs

LEMMA RecordOk ==
  ASSUME TypeOK, OkInv, NEW w \in Workers, Record(w)
  PROVE  OkInv'
<1>1. job[w] \in Jobs /\ at[w] = "record"
  BY DEF TypeOK, Record
<1>2. job[w].archive = NoArchive /\ ~job[w].ok
  BY <1>1, NoArchiveYet DEF Zipping
<1>3. CASE UNCHANGED <<rows, job>>
  BY <1>1, <1>2, <1>3, OkGoto, OkPlain DEF Record, Zipping
<1>4. ASSUME NEW i \in RowIds, job' = [job EXCEPT ![w] = [@ EXCEPT !.row = i]]
      PROVE  OkInv'
  <2> DEFINE work == [job[w] EXCEPT !.row = i]
  <2>1. work \in Jobs /\ work.archive = NoArchive /\ ~work.ok
    BY <1>1, <1>2, JobType, JobFields
  <2>2. job' = [job EXCEPT ![w] = work] /\ at' = [at EXCEPT ![w] = "stat"]
    BY <1>4 DEF Record, Goto
  <2> HIDE DEF work
  <2>3. OkOf("stat", work)
    BY <2>1 DEF OkOf, Zipping
  <2> QED BY <2>2, <2>3, OkMove
<1> QED BY <1>3, <1>4 DEF Record

LEMMA HeadOk ==
  ASSUME TypeOK, OkInv, NEW w \in Workers, Head(w)
  PROVE  OkInv'
<1> DEFINE work == [job[w] EXCEPT !.commit = IF HasGit THEN main.git.head ELSE Blank]
<1>1. job[w] \in Jobs /\ at[w] = "head"
  BY DEF TypeOK, Head
<1>2. job[w].archive = NoArchive /\ ~job[w].ok
  BY <1>1, NoArchiveYet DEF Zipping
<1>3. work.archive = NoArchive /\ ~work.ok
  BY <1>1, <1>2, JobFields
<1>4. job' = [job EXCEPT ![w] = work] /\ at' = [at EXCEPT ![w] = "build"]
  BY DEF Head, Goto
<1> HIDE DEF work
<1>5. OkOf("build", work)
  BY <1>3 DEF OkOf, Zipping
<1> QED BY <1>4, <1>5, OkMove

LEMMA ReadSiteOk ==
  ASSUME TypeOK, OkInv, NEW w \in Workers, ReadSite(w)
  PROVE  OkInv'
<1> DEFINE work == [job[w] EXCEPT !.repo = siteRepo, !.build = siteBuild]
<1>1. job[w] \in Jobs /\ at[w] = "read"
  BY DEF TypeOK, ReadSite
<1>2. job[w].archive = NoArchive /\ ~job[w].ok
  BY <1>1, NoArchiveYet DEF Zipping
<1>3. work.archive = NoArchive /\ ~work.ok
  BY <1>1, <1>2, JobFields
<1>4. job' = [job EXCEPT ![w] = work] /\ at' = [at EXCEPT ![w] = "record"]
  BY DEF ReadSite, Goto
<1> HIDE DEF work
<1>5. OkOf("record", work)
  BY <1>3 DEF OkOf, Zipping
<1> QED BY <1>4, <1>5, OkMove

LEMMA TellOk ==
  ASSUME TypeOK, OkInv, NEW w \in Workers, Tell(w)
  PROVE  OkInv'
<1> DEFINE work == [job[w] EXCEPT !.ok = TRUE]
<1>1. job[w] \in Jobs /\ at[w] = "tell" /\ job[w].archive = NoArchive
  BY NoArchiveYet DEF TypeOK, Tell, Zipping
<1>2. work.archive = NoArchive
  BY <1>1, JobFields
<1>3. OkOf("finish", work)
  BY <1>2 DEF OkOf, Zipping
<1>4. job' = [job EXCEPT ![w] = work] /\ at' = [at EXCEPT ![w] = "finish"]
  BY DEF Tell, Goto
<1> HIDE DEF work
<1> QED BY <1>3, <1>4, OkMove

LEMMA FinishOk ==
  ASSUME TypeOK, OkInv, NEW w \in Workers, Finish(w)
  PROVE  OkInv'
  BY OkAnswers DEF Finish

LEMMA DisconnectGitOk ==
  ASSUME TypeOK, OkInv, NEW w \in Workers, DisconnectGit(w)
  PROVE  OkInv'
  BY OkAnswers DEF DisconnectGit

LEMMA DeployedOk ==
  ASSUME TypeOK, OkInv, NEW w \in Workers, Deployed(w)
  PROVE  OkInv'
  BY OkAnswers DEF Deployed

LEMMA ZipFailedOk ==
  ASSUME TypeOK, OkInv, NEW w \in Workers, ZipFailed(w)
  PROVE  OkInv'
  BY OkAnswers DEF ZipFailed, Ends

LEMMA EditOk ==
  ASSUME TypeOK, OkInv, NEW w \in Workers, Edit(w)
  PROVE  OkInv'
  BY OkAnswers DEF Edit, Ends

LEMMA SeedOk ==
  ASSUME TypeOK, OkInv, NEW w \in Workers, Seed(w)
  PROVE  OkInv'
<1>1. CASE Goto(w, "push") /\ job' = job
  <2>1. job[w].archive = NoArchive /\ ~job[w].ok /\ job[w] \in Jobs
    BY NoArchiveYet DEF Seed, Zipping, TypeOK
  <2> QED BY <1>1, <2>1, OkGoto, OkPlain DEF Zipping
<1>2. CASE Ends(w)
  BY <1>2, OkAnswers DEF Ends
<1> QED BY <1>1, <1>2 DEF Seed

LEMMA SeedPushOk ==
  ASSUME TypeOK, OkInv, NEW w \in Workers, SeedPush(w)
  PROVE  OkInv'
<1>1. CASE Goto(w, "connect") /\ job' = job
  <2>1. job[w].archive = NoArchive /\ ~job[w].ok /\ job[w] \in Jobs
    BY NoArchiveYet DEF SeedPush, Zipping, TypeOK
  <2> QED BY <1>1, <2>1, OkGoto, OkPlain DEF Zipping
<1>2. CASE Ends(w)
  BY <1>2, OkAnswers DEF Ends
<1> QED BY <1>1, <1>2 DEF SeedPush

LEMMA AskConnectOk ==
  ASSUME TypeOK, OkInv, NEW w \in Workers, NEW r \in Remotes, NEW b \in BOOLEAN, AskConnect(w, r, b)
  PROVE  OkInv'
<1> DEFINE work == [NoJob EXCEPT !.repo = r, !.build = b]
<1>1. work.archive = NoArchive /\ ~work.ok
  BY DEF NoJob
<1>2. OkOf("connect", work)
  BY <1>1 DEF OkOf, Zipping
<1>3. Begin(w, "connect", work)
  BY DEF AskConnect
<1> HIDE DEF work
<1> QED BY <1>2, <1>3, OkBegin

LEMMA AskCreateRepoOk ==
  ASSUME TypeOK, OkInv, NEW w \in Workers, NEW b \in BOOLEAN, AskCreateRepo(w, b)
  PROVE  OkInv'
<1> DEFINE work == [NoJob EXCEPT !.repo = Own, !.build = b]
<1>1. work.archive = NoArchive /\ ~work.ok
  BY DEF NoJob
<1>2. OkOf("seed", work)
  BY <1>1 DEF OkOf, Zipping
<1>3. Begin(w, "seed", work)
  BY DEF AskCreateRepo
<1> HIDE DEF work
<1> QED BY <1>2, <1>3, OkBegin

LEMMA DeployGitOk ==
  ASSUME TypeOK, OkInv, NEW w \in Workers, DeployGit(w)
  PROVE  OkInv'
<1> DEFINE work == [NoJob EXCEPT !.repo = siteRepo, !.build = siteBuild]
<1>1. work.archive = NoArchive /\ ~work.ok
  BY DEF NoJob
<1>2. OkOf("record", work)
  BY <1>1 DEF OkOf, Zipping
<1>3. Begin(w, "record", work)
  BY DEF DeployGit
<1> HIDE DEF work
<1> QED BY <1>2, <1>3, OkBegin

LEMMA AskDisconnectOk ==
  ASSUME TypeOK, OkInv, NEW w \in Workers, AskDisconnect(w)
  PROVE  OkInv'
<1> DEFINE work == NoJob
<1>1. work.archive = NoArchive /\ ~work.ok
  BY DEF NoJob
<1>2. OkOf("disconnect", work)
  BY <1>1 DEF OkOf, Zipping
<1>3. Begin(w, "disconnect", work)
  BY DEF AskDisconnect
<1> HIDE DEF work
<1> QED BY <1>2, <1>3, OkBegin

LEMMA AskEditOk ==
  ASSUME TypeOK, OkInv, NEW w \in Workers, AskEdit(w)
  PROVE  OkInv'
<1> DEFINE work == NoJob
<1>1. work.archive = NoArchive /\ ~work.ok
  BY DEF NoJob
<1>2. OkOf("edit", work)
  BY <1>1 DEF OkOf, Zipping
<1>3. Begin(w, "edit", work)
  BY DEF AskEdit
<1> HIDE DEF work
<1> QED BY <1>2, <1>3, OkBegin

LEMMA DeployZipOk ==
  ASSUME TypeOK, OkInv, NEW w \in Workers, NEW a \in Archives, DeployZip(w, a)
  PROVE  OkInv'
<1> DEFINE work == [NoJob EXCEPT !.archive = a, !.left = Holds[a]]
<1>1. work.archive = a /\ ~work.ok /\ work.left = Holds[a]
  BY DEF NoJob
<1>2. OkOf("clear", work)
  BY <1>1 DEF OkOf, Zipping
<1>3. Begin(w, "clear", work)
  BY DEF DeployZip
<1> HIDE DEF work
<1> QED BY <1>2, <1>3, OkBegin

\* An upload goes on: what it works on is as it must be.
LEMMA OkZip ==
  ASSUME OkInv, NEW w \in Workers, at[w] \in Zipping
  PROVE  /\ job[w].archive \in Archives /\ job[w].archive # NoArchive
         /\ job[w].left \subseteq Holds[job[w].archive]
         /\ job[w].ok => at[w] \in {"cleanup", "notify"}
  BY DeployAssumption DEF OkInv, OkOf, Zipping

LEMMA ZipClearOk ==
  ASSUME TypeOK, OkInv, NEW w \in Workers, ZipClear(w)
  PROVE  OkInv'
<1>1. at[w] = "clear" /\ Goto(w, "extract") /\ job' = job
  BY DEF ZipClear, ZipStep
<1>2. OkOf("extract", job[w])
  BY <1>1, OkZip DEF OkOf, Zipping
<1> QED BY <1>1, <1>2, OkGoto

LEMMA RemoveOldOk ==
  ASSUME TypeOK, OkInv, NEW w \in Workers, RemoveOld(w)
  PROVE  OkInv'
<1>1. at[w] = "remove" /\ Goto(w, "rename") /\ job' = job
  BY DEF RemoveOld, ZipStep
<1>2. OkOf("rename", job[w])
  BY <1>1, OkZip DEF OkOf, Zipping
<1> QED BY <1>1, <1>2, OkGoto

LEMMA CleanupOk ==
  ASSUME TypeOK, OkInv, NEW w \in Workers, Cleanup(w)
  PROVE  OkInv'
<1> DEFINE step == IF job[w].ok THEN "notify" ELSE "failed"
<1>1. at[w] = "cleanup" /\ Goto(w, step) /\ job' = job
  BY DEF Cleanup, ZipStep
<1>2. OkOf(step, job[w])
  BY <1>1, OkZip DEF OkOf, Zipping
<1> HIDE DEF step
<1> QED BY <1>1, <1>2, OkGoto

LEMMA ExtractOk ==
  ASSUME TypeOK, OkInv, NEW w \in Workers, Extract(w)
  PROVE  OkInv'
<1>1. at[w] = "extract" /\ job[w] \in Jobs
  BY DEF Extract, TypeOK
<1>2. \A step \in {"remove", "cleanup"} : OkOf(step, job[w])
  BY <1>1, OkZip DEF OkOf, Zipping
<1>3. ASSUME job' = job, Goto(w, "remove") \/ Goto(w, "cleanup") PROVE OkInv'
  BY <1>2, <1>3, OkGoto
<1>4. ASSUME NEW p \in job[w].left, Goto(w, "extract"),
             job' = [job EXCEPT ![w] = [@ EXCEPT !.left = job[w].left \ {p}]]
      PROVE  OkInv'
  <2> DEFINE work == [job[w] EXCEPT !.left = job[w].left \ {p}]
  <2>1. work.archive = job[w].archive /\ work.left = job[w].left \ {p} /\ work.ok = job[w].ok
    BY <1>1, JobFields
  <2>2. OkOf("extract", work)
    BY <1>1, <2>1, OkZip DEF OkOf, Zipping
  <2>3. at' = [at EXCEPT ![w] = "extract"] /\ job' = [job EXCEPT ![w] = work]
    BY <1>4 DEF Goto
  <2> HIDE DEF work
  <2> QED BY <2>2, <2>3, OkMove
<1> QED BY <1>3, <1>4 DEF Extract, ZipStep

LEMMA RenameOk ==
  ASSUME TypeOK, OkInv, NEW w \in Workers, Rename(w)
  PROVE  OkInv'
<1>1. at[w] = "rename" /\ job[w] \in Jobs /\ Goto(w, "cleanup")
  BY DEF Rename, ZipStep, TypeOK
<1>2. CASE job' = job
  <2>1. OkOf("cleanup", job[w])
    BY <1>1, OkZip DEF OkOf, Zipping
  <2> QED BY <1>1, <1>2, <2>1, OkGoto
<1>3. CASE job' = [job EXCEPT ![w] = [@ EXCEPT !.ok = TRUE]]
  <2> DEFINE work == [job[w] EXCEPT !.ok = TRUE]
  <2>1. work.archive = job[w].archive /\ work.left = job[w].left /\ work.ok
    BY <1>1, JobFields
  <2>2. OkOf("cleanup", work)
    BY <1>1, <2>1, OkZip DEF OkOf, Zipping
  <2>3. at' = [at EXCEPT ![w] = "cleanup"] /\ job' = [job EXCEPT ![w] = work]
    BY <1>1, <1>3 DEF Goto
  <2> HIDE DEF work
  <2> QED BY <2>2, <2>3, OkMove
<1> QED BY <1>2, <1>3 DEF Rename

LEMMA RebootOk ==
  ASSUME TypeOK, OkInv, Reboot
  PROVE  OkInv'
<1>1. at' = [w \in Workers |-> "idle"] /\ job' = [w \in Workers |-> NoJob]
  BY DEF Reboot
<1> QED BY <1>1, OkIdle DEF OkInv

LEMMA InitOk == Init => OkInv
<1> SUFFICES ASSUME Init PROVE OkInv
  OBVIOUS
<1>1. CASE at = [w \in Workers |-> "idle"] /\ job = [w \in Workers |-> NoJob]
  BY <1>1, OkIdle DEF OkInv
<1>2. ASSUME NEW w \in Workers, at = [v \in Workers |-> IF v = w THEN "record" ELSE "idle"],
             job = [v \in Workers |->
                      IF v = w THEN [NoJob EXCEPT !.repo = siteRepo, !.build = siteBuild]
                               ELSE NoJob]
      PROVE  OkInv
  <2> DEFINE work == [NoJob EXCEPT !.repo = siteRepo, !.build = siteBuild]
  <2>1. work.archive = NoArchive /\ ~work.ok
    BY DEF NoJob
  <2>2. OkOf("record", work)
    BY <2>1 DEF OkOf, Zipping
  <2> HIDE DEF work
  <2>3. at[w] = "record" /\ job[w] = work
        /\ \A v \in Workers \ {w} : at[v] = "idle" /\ job[v] = NoJob
    BY <1>2 DEF work
  <2> QED BY <2>2, <2>3, OkIdle DEF OkInv
<1> QED BY <1>1, <1>2 DEF Init

-----------------------------------------------------------------------------
(* Type correctness.                                                       *)

\* What a step of the data plane, of the world or of nobody leaves alone.
LEMMA OkStays ==
  ASSUME OkInv, UNCHANGED <<at, job>>
  PROVE  OkInv'
  BY DEF OkInv

LEMMA TypedMeans == ASSUME Typed' PROVE TypeOK'
  BY DEF Typed, WorkType, ThingType, TypeOK

LEMMA TypeStep ==
  ASSUME TypeOK, OkInv, [Next]_deployVars
  PROVE  Typed'
<1>1. ASSUME NEW w \in Workers, GitDeployment(w) PROVE Typed'
  BY <1>1, DeployGitType, RecordType, StatType, EmptyDirType, CloneBeginsType, CloneEndsType,
     FetchOriginType, ResetHardType, HeadType, BuildType, StoreRootType, TellType,
     FinishType DEF GitDeployment
<1>2. ASSUME NEW w \in Workers, Connection(w) PROVE Typed'
  BY <1>2, AskConnectType, AskCreateRepoType, AskDisconnectType, DisconnectGitType, SeedType,
     SeedPushType, ConnectGitType, ReadSiteType DEF Connection, Remotes
<1>3. ASSUME NEW w \in Workers, ZipDeployment(w) PROVE Typed'
  BY <1>3, DeployZipType, ZipClearType, ExtractType, RemoveOldType, RenameType, CleanupType,
     DeployedType, ZipFailedType DEF ZipDeployment
<1>4. ASSUME NEW w \in Workers, AskEdit(w) \/ Edit(w) PROVE Typed'
  BY <1>4, AskEditType, EditType
<1>5. ASSUME NEW r \in Remotes, Push(r) PROVE Typed'
  BY <1>5, PushType
<1>6. CASE Reload
  BY <1>6, ReloadType
<1>7. CASE Reboot
  BY <1>7, RebootType
<1>8. CASE UNCHANGED deployVars
  BY <1>8 DEF deployVars, TypeOK, Typed, WorkType, ThingType
<1> QED BY <1>1, <1>2, <1>3, <1>4, <1>5, <1>6, <1>7, <1>8 DEF Next, WorkerStep

LEMMA OkStep ==
  ASSUME TypeOK, OkInv, [Next]_deployVars
  PROVE  OkInv'
<1>1. ASSUME NEW w \in Workers, GitDeployment(w) PROVE OkInv'
  BY <1>1, DeployGitOk, RecordOk, StatOk, EmptyDirOk, CloneBeginsOk, CloneEndsOk, FetchOriginOk,
     ResetHardOk, HeadOk, BuildOk, StoreRootOk, TellOk, FinishOk DEF GitDeployment
<1>2. ASSUME NEW w \in Workers, Connection(w) PROVE OkInv'
  BY <1>2, AskConnectOk, AskCreateRepoOk, AskDisconnectOk, DisconnectGitOk, SeedOk, SeedPushOk,
     ConnectGitOk, ReadSiteOk DEF Connection, Remotes
<1>3. ASSUME NEW w \in Workers, ZipDeployment(w) PROVE OkInv'
  BY <1>3, DeployZipOk, ZipClearOk, ExtractOk, RemoveOldOk, RenameOk, CleanupOk, DeployedOk,
     ZipFailedOk DEF ZipDeployment
<1>4. ASSUME NEW w \in Workers, AskEdit(w) \/ Edit(w) PROVE OkInv'
  BY <1>4, AskEditOk, EditOk
<1>5. CASE (\E r \in Remotes : Push(r)) \/ Reload \/ UNCHANGED deployVars
  BY <1>5, OkStays DEF Push, Reload, deployVars
<1>6. CASE Reboot
  BY <1>6, RebootOk
<1> QED BY <1>1, <1>2, <1>3, <1>4, <1>5, <1>6 DEF Next, WorkerStep

\* Every variable stays in its type, whatever the sets of goroutines, paths,
\* repositories and archives and whatever the bounds.  (That a file is written
\* from an archive needs OkInv: an upload has one.)
THEOREM TypeCorrect == Spec => []TypeOK
<1>1. Init => TypeOK /\ OkInv
  BY InitType, InitOk
<1>2. TypeOK /\ OkInv /\ [Next]_deployVars => (TypeOK /\ OkInv)'
  BY TypeStep, OkStep, TypedMeans
<1> QED BY <1>1, <1>2, PTL DEF Spec

-----------------------------------------------------------------------------
(* Rows that are being built.                                              *)

\* Where a deployment is once it has said that it builds, and until it has said
\* how that ended; and where it has a row.
Building == Deploying \ {"record", "finish"}
HasRow == Deploying \ {"record"}

\* A goroutine moves on and opens or closes no row.
LEMMA RowMove ==
  ASSUME TypeOK, RowInv, NEW w \in Workers, NEW step, NEW work,
         at' = [at EXCEPT ![w] = step], job' = [job EXCEPT ![w] = work],
         rows' = rows, lost' = lost,
         work.row = job[w].row, job[w].row # 0 => step \in HasRow,
         deployStatus' = "building" =>
           deployStatus = "building" /\ (at[w] \in Building => step \in Building)
  PROVE  RowInv'
<1>1. at'[w] = step /\ job'[w] = work
      /\ \A v \in Workers \ {w} : at'[v] = at[v] /\ job'[v] = job[v]
  BY DEF TypeOK
<1>2. \A v \in Workers : job'[v].row = job[v].row
  BY <1>1
<1>3. deployStatus' = "building" => \E v \in Workers : at'[v] \in Building
  BY <1>1 DEF RowInv, Building
<1>4. \A v \in Workers : job[v].row # 0 => at'[v] \in HasRow
  BY <1>1 DEF RowInv, HasRow
<1> QED BY <1>2, <1>3, <1>4 DEF RowInv, Building, HasRow

LEMMA RowGoto ==
  ASSUME TypeOK, RowInv, NEW w \in Workers, NEW step, Goto(w, step), job' = job, rows' = rows,
         job[w].row # 0 => step \in HasRow,
         deployStatus' = "building" =>
           deployStatus = "building" /\ (at[w] \in Building => step \in Building)
  PROVE  RowInv'
<1>1. job' = [job EXCEPT ![w] = job[w]] /\ at' = [at EXCEPT ![w] = step] /\ lost' = lost
  BY DEF TypeOK, Goto, history
<1> QED BY <1>1, RowMove

\* Who is not at a deployment, or has yet to record it, has no row.
LEMMA NoRowYet ==
  ASSUME RowInv, NEW w \in Workers, at[w] \notin HasRow
  PROVE  job[w].row = 0 /\ at[w] \notin Building
  BY DEF RowInv, HasRow, Building

LEMMA RowAnswers ==
  ASSUME TypeOK, RowInv, NEW w \in Workers, Answers(w), at[w] \notin HasRow,
         rows' = rows, deployStatus' = deployStatus
  PROVE  RowInv'
<1>1. NoJob.row = 0
  BY DEF NoJob
<1> QED BY <1>1, NoRowYet, RowMove DEF Answers

LEMMA RowBegin ==
  ASSUME TypeOK, RowInv, NEW w \in Workers, NEW step, NEW work, Begin(w, step, work),
         work.row = 0, rows' = rows, deployStatus' = deployStatus
  PROVE  RowInv'
<1>1. at[w] \notin HasRow
  BY DEF Begin, Idle, HasRow, Deploying
<1> QED BY <1>1, NoRowYet, RowMove DEF Begin

LEMMA RowFails ==
  ASSUME TypeOK, RowInv, NEW w \in Workers, Fails(w)
  PROVE  RowInv'
  BY RowGoto DEF Fails, HasRow, Deploying

LEMMA AskConnectRow ==
  ASSUME TypeOK, OkInv, RowInv, NEW w \in Workers, NEW r \in Remotes, NEW b \in BOOLEAN, AskConnect(w, r, b)
  PROVE  RowInv'
<1> DEFINE work == [NoJob EXCEPT !.repo = r, !.build = b]
<1>1. work.row = 0
  BY DEF NoJob
<1>2. Begin(w, "connect", work) /\ rows' = rows /\ deployStatus' = deployStatus
  BY DEF AskConnect
<1> HIDE DEF work
<1> QED BY <1>1, <1>2, RowBegin

LEMMA AskCreateRepoRow ==
  ASSUME TypeOK, OkInv, RowInv, NEW w \in Workers, NEW b \in BOOLEAN, AskCreateRepo(w, b)
  PROVE  RowInv'
<1> DEFINE work == [NoJob EXCEPT !.repo = Own, !.build = b]
<1>1. work.row = 0
  BY DEF NoJob
<1>2. Begin(w, "seed", work) /\ rows' = rows /\ deployStatus' = deployStatus
  BY DEF AskCreateRepo
<1> HIDE DEF work
<1> QED BY <1>1, <1>2, RowBegin

LEMMA DeployGitRow ==
  ASSUME TypeOK, OkInv, RowInv, NEW w \in Workers, DeployGit(w)
  PROVE  RowInv'
<1> DEFINE work == [NoJob EXCEPT !.repo = siteRepo, !.build = siteBuild]
<1>1. work.row = 0
  BY DEF NoJob
<1>2. Begin(w, "record", work) /\ rows' = rows /\ deployStatus' = deployStatus
  BY DEF DeployGit
<1> HIDE DEF work
<1> QED BY <1>1, <1>2, RowBegin

LEMMA AskDisconnectRow ==
  ASSUME TypeOK, OkInv, RowInv, NEW w \in Workers, AskDisconnect(w)
  PROVE  RowInv'
<1> DEFINE work == NoJob
<1>1. work.row = 0
  BY DEF NoJob
<1>2. Begin(w, "disconnect", work) /\ rows' = rows /\ deployStatus' = deployStatus
  BY DEF AskDisconnect
<1> HIDE DEF work
<1> QED BY <1>1, <1>2, RowBegin

LEMMA AskEditRow ==
  ASSUME TypeOK, OkInv, RowInv, NEW w \in Workers, AskEdit(w)
  PROVE  RowInv'
<1> DEFINE work == NoJob
<1>1. work.row = 0
  BY DEF NoJob
<1>2. Begin(w, "edit", work) /\ rows' = rows /\ deployStatus' = deployStatus
  BY DEF AskEdit
<1> HIDE DEF work
<1> QED BY <1>1, <1>2, RowBegin

LEMMA DeployZipRow ==
  ASSUME TypeOK, OkInv, RowInv, NEW w \in Workers, NEW a \in Archives, DeployZip(w, a)
  PROVE  RowInv'
<1> DEFINE work == [NoJob EXCEPT !.archive = a, !.left = Holds[a]]
<1>1. work.row = 0
  BY DEF NoJob
<1>2. Begin(w, "clear", work) /\ rows' = rows /\ deployStatus' = deployStatus
  BY DEF DeployZip
<1> HIDE DEF work
<1> QED BY <1>1, <1>2, RowBegin

LEMMA StatRow ==
  ASSUME TypeOK, OkInv, RowInv, NEW w \in Workers, Stat(w)
  PROVE  RowInv'
  BY RowGoto DEF Stat, HasRow, Building, Deploying

LEMMA StoreRootRow ==
  ASSUME TypeOK, OkInv, RowInv, NEW w \in Workers, StoreRoot(w)
  PROVE  RowInv'
  BY RowGoto DEF StoreRoot, HasRow, Building, Deploying

LEMMA EmptyDirRow ==
  ASSUME TypeOK, OkInv, RowInv, NEW w \in Workers, EmptyDir(w)
  PROVE  RowInv'
<1>1. CASE Goto(w, "clone") /\ UNCHANGED <<rows, job, deployStatus>>
  BY <1>1, RowGoto DEF HasRow, Building, Deploying
<1> QED BY <1>1, RowFails DEF EmptyDir

LEMMA CloneBeginsRow ==
  ASSUME TypeOK, OkInv, RowInv, NEW w \in Workers, CloneBegins(w)
  PROVE  RowInv'
<1>1. CASE Goto(w, "checkout") /\ UNCHANGED <<rows, job, deployStatus>>
  BY <1>1, RowGoto DEF HasRow, Building, Deploying
<1> QED BY <1>1, RowFails DEF CloneBegins

LEMMA CloneEndsRow ==
  ASSUME TypeOK, OkInv, RowInv, NEW w \in Workers, CloneEnds(w)
  PROVE  RowInv'
<1>1. CASE Goto(w, "head") /\ UNCHANGED <<rows, job, deployStatus>>
  BY <1>1, RowGoto DEF HasRow, Building, Deploying
<1> QED BY <1>1, RowFails DEF CloneEnds

LEMMA FetchOriginRow ==
  ASSUME TypeOK, OkInv, RowInv, NEW w \in Workers, FetchOrigin(w)
  PROVE  RowInv'
<1>1. CASE Goto(w, "reset") /\ UNCHANGED <<rows, job, deployStatus>>
  BY <1>1, RowGoto DEF HasRow, Building, Deploying
<1> QED BY <1>1, RowFails DEF FetchOrigin

LEMMA ResetHardRow ==
  ASSUME TypeOK, OkInv, RowInv, NEW w \in Workers, ResetHard(w)
  PROVE  RowInv'
<1>1. CASE Goto(w, "head") /\ UNCHANGED <<rows, job, deployStatus>>
  BY <1>1, RowGoto DEF HasRow, Building, Deploying
<1> QED BY <1>1, RowFails DEF ResetHard

LEMMA BuildRow ==
  ASSUME TypeOK, OkInv, RowInv, NEW w \in Workers, Build(w)
  PROVE  RowInv'
<1>1. CASE Goto(w, "store") /\ UNCHANGED <<rows, job, deployStatus>>
  BY <1>1, RowGoto DEF HasRow, Building, Deploying
<1> QED BY <1>1, RowFails DEF Build

LEMMA ConnectGitRow ==
  ASSUME TypeOK, OkInv, RowInv, NEW w \in Workers, ConnectGit(w)
  PROVE  RowInv'
<1>1. at[w] \notin HasRow
  BY DEF ConnectGit, HasRow, Deploying
<1> QED BY <1>1, NoRowYet, RowGoto DEF ConnectGit

LEMMA SeedRow ==
  ASSUME TypeOK, OkInv, RowInv, NEW w \in Workers, Seed(w)
  PROVE  RowInv'
<1>1. at[w] \notin HasRow
  BY DEF Seed, HasRow, Deploying
<1>2. CASE Goto(w, "push") /\ UNCHANGED <<rows, job, deployStatus>>
  BY <1>1, <1>2, NoRowYet, RowGoto
<1> QED BY <1>1, <1>2, RowAnswers DEF Seed, Ends

LEMMA SeedPushRow ==
  ASSUME TypeOK, OkInv, RowInv, NEW w \in Workers, SeedPush(w)
  PROVE  RowInv'
<1>1. at[w] \notin HasRow
  BY DEF SeedPush, HasRow, Deploying
<1>2. CASE Goto(w, "connect") /\ UNCHANGED <<rows, job, deployStatus>>
  BY <1>1, <1>2, NoRowYet, RowGoto
<1> QED BY <1>1, <1>2, RowAnswers DEF SeedPush, Ends

LEMMA DisconnectGitRow ==
  ASSUME TypeOK, OkInv, RowInv, NEW w \in Workers, DisconnectGit(w)
  PROVE  RowInv'
<1>1. at[w] \notin HasRow
  BY DEF DisconnectGit, HasRow, Deploying
<1> QED BY <1>1, RowAnswers DEF DisconnectGit

LEMMA DeployedRow ==
  ASSUME TypeOK, OkInv, RowInv, NEW w \in Workers, Deployed(w)
  PROVE  RowInv'
<1>1. at[w] \notin HasRow
  BY DEF Deployed, HasRow, Deploying
<1> QED BY <1>1, RowAnswers DEF Deployed

LEMMA ZipFailedRow ==
  ASSUME TypeOK, OkInv, RowInv, NEW w \in Workers, ZipFailed(w)
  PROVE  RowInv'
<1>1. at[w] \notin HasRow
  BY DEF ZipFailed, HasRow, Deploying
<1> QED BY <1>1, RowAnswers DEF ZipFailed, Ends

LEMMA EditRow ==
  ASSUME TypeOK, OkInv, RowInv, NEW w \in Workers, Edit(w)
  PROVE  RowInv'
<1>1. at[w] \notin HasRow
  BY DEF Edit, HasRow, Deploying
<1> QED BY <1>1, RowAnswers DEF Edit, Ends

LEMMA ZipClearRow ==
  ASSUME TypeOK, OkInv, RowInv, NEW w \in Workers, ZipClear(w)
  PROVE  RowInv'
<1>1. at[w] \notin HasRow
  BY DEF ZipClear, HasRow, Deploying
<1> QED BY <1>1, NoRowYet, RowGoto DEF ZipClear, ZipStep

LEMMA RemoveOldRow ==
  ASSUME TypeOK, OkInv, RowInv, NEW w \in Workers, RemoveOld(w)
  PROVE  RowInv'
<1>1. at[w] \notin HasRow
  BY DEF RemoveOld, HasRow, Deploying
<1> QED BY <1>1, NoRowYet, RowGoto DEF RemoveOld, ZipStep

LEMMA CleanupRow ==
  ASSUME TypeOK, OkInv, RowInv, NEW w \in Workers, Cleanup(w)
  PROVE  RowInv'
<1>1. at[w] \notin HasRow
  BY DEF Cleanup, HasRow, Deploying
<1> QED BY <1>1, NoRowYet, RowGoto DEF Cleanup, ZipStep

LEMMA RowFields ==
  ASSUME NEW j \in Jobs
  PROVE  /\ \A i : [j EXCEPT !.row = i].row = i
         /\ \A c : [j EXCEPT !.commit = c].row = j.row
         /\ \A r, b : [j EXCEPT !.repo = r, !.build = b].row = j.row
         /\ [j EXCEPT !.ok = TRUE].row = j.row
         /\ \A l : [j EXCEPT !.left = l].row = j.row
  BY DEF Jobs

LEMMA HeadRow ==
  ASSUME TypeOK, OkInv, RowInv, NEW w \in Workers, Head(w)
  PROVE  RowInv'
<1> DEFINE work == [job[w] EXCEPT !.commit = IF HasGit THEN main.git.head ELSE Blank]
<1>1. job[w] \in Jobs /\ at[w] = "head"
  BY DEF TypeOK, Head
<1>2. work.row = job[w].row
  BY <1>1, RowFields
<1>3. /\ job' = [job EXCEPT ![w] = work] /\ at' = [at EXCEPT ![w] = "build"]
      /\ rows' = rows /\ lost' = lost
      /\ deployStatus' = "building" => deployStatus = "building" /\ "build" \in Building
  BY DEF Head, Goto, history, Building, Deploying
<1>4. "build" \in HasRow
  BY DEF HasRow, Deploying
<1> HIDE DEF work
<1> QED BY <1>2, <1>3, <1>4, RowMove

LEMMA TellRow ==
  ASSUME TypeOK, OkInv, RowInv, NEW w \in Workers, Tell(w)
  PROVE  RowInv'
<1> DEFINE work == [job[w] EXCEPT !.ok = TRUE]
<1>1. job[w] \in Jobs /\ at[w] = "tell"
  BY DEF TypeOK, Tell
<1>2. work.row = job[w].row
  BY <1>1, RowFields
<1>3. /\ job' = [job EXCEPT ![w] = work] /\ at' = [at EXCEPT ![w] = "finish"]
      /\ rows' = rows /\ lost' = lost
      /\ deployStatus' = "building" => deployStatus = "building" /\ "finish" \in Building
  BY DEF Tell, Goto, history, Building, Deploying
<1>4. "finish" \in HasRow
  BY DEF HasRow, Deploying
<1> HIDE DEF work
<1> QED BY <1>2, <1>3, <1>4, RowMove

LEMMA ReadSiteRow ==
  ASSUME TypeOK, OkInv, RowInv, NEW w \in Workers, ReadSite(w)
  PROVE  RowInv'
<1> DEFINE work == [job[w] EXCEPT !.repo = siteRepo, !.build = siteBuild]
<1>1. job[w] \in Jobs /\ at[w] \notin HasRow
  BY DEF TypeOK, ReadSite, HasRow, Deploying
<1>2. work.row = job[w].row
  BY <1>1, RowFields
<1>3. /\ job' = [job EXCEPT ![w] = work] /\ at' = [at EXCEPT ![w] = "record"]
      /\ rows' = rows /\ lost' = lost /\ deployStatus' = deployStatus
  BY DEF ReadSite, Goto, history
<1> HIDE DEF work
<1> QED BY <1>1, <1>2, <1>3, NoRowYet, RowMove

LEMMA ExtractRow ==
  ASSUME TypeOK, OkInv, RowInv, NEW w \in Workers, Extract(w)
  PROVE  RowInv'
<1>1. job[w] \in Jobs /\ at[w] \notin HasRow
  BY DEF TypeOK, Extract, HasRow, Deploying
<1>2. CASE job' = job
  BY <1>1, <1>2, NoRowYet, RowGoto DEF Extract, ZipStep
<1>3. ASSUME NEW p \in job[w].left, Goto(w, "extract"), rows' = rows, deployStatus' = deployStatus,
             job' = [job EXCEPT ![w] = [@ EXCEPT !.left = job[w].left \ {p}]]
      PROVE  RowInv'
  <2> DEFINE work == [job[w] EXCEPT !.left = job[w].left \ {p}]
  <2>1. work.row = job[w].row
    BY <1>1, RowFields
  <2>2. job' = [job EXCEPT ![w] = work] /\ at' = [at EXCEPT ![w] = "extract"] /\ lost' = lost
    BY <1>3 DEF Goto, history
  <2> HIDE DEF work
  <2> QED BY <1>1, <1>3, <2>1, <2>2, NoRowYet, RowMove
<1> QED BY <1>2, <1>3 DEF Extract, ZipStep

LEMMA RenameRow ==
  ASSUME TypeOK, OkInv, RowInv, NEW w \in Workers, Rename(w)
  PROVE  RowInv'
<1>1. job[w] \in Jobs /\ at[w] \notin HasRow
  BY DEF TypeOK, Rename, HasRow, Deploying
<1>2. Goto(w, "cleanup") /\ rows' = rows /\ deployStatus' = deployStatus
  BY DEF Rename, ZipStep
<1>3. CASE job' = job
  BY <1>1, <1>2, <1>3, NoRowYet, RowGoto
<1>4. CASE job' = [job EXCEPT ![w] = [@ EXCEPT !.ok = TRUE]]
  <2> DEFINE work == [job[w] EXCEPT !.ok = TRUE]
  <2>1. work.row = job[w].row
    BY <1>1, RowFields
  <2>2. job' = [job EXCEPT ![w] = work] /\ at' = [at EXCEPT ![w] = "cleanup"] /\ lost' = lost
    BY <1>2, <1>4 DEF Goto, history
  <2> HIDE DEF work
  <2> QED BY <1>1, <1>2, <2>1, <2>2, NoRowYet, RowMove
<1> QED BY <1>3, <1>4 DEF Rename

\* A deployment opens the next row: nobody has it yet.
LEMMA RecordRow ==
  ASSUME TypeOK, OkInv, RowInv, NEW w \in Workers, Record(w)
  PROVE  RowInv'
<1>1. /\ at' = [at EXCEPT ![w] = "stat"] /\ lost' = lost /\ at[w] \notin HasRow
      /\ job[w].row = 0 /\ job[w] \in Jobs
  BY NoRowYet DEF Record, Goto, history, HasRow, TypeOK
<1>2. at'[w] = "stat" /\ \A v \in Workers \ {w} : at'[v] = at[v]
  BY <1>1 DEF TypeOK
<1>3. \E v \in Workers : at'[v] \in Building
  BY <1>2 DEF Building, Deploying
<1>4. CASE UNCHANGED <<rows, job>>
  BY <1>1, <1>2, <1>3, <1>4 DEF RowInv, Building
<1>5. ASSUME NEW i \in RowIds, rows[i] = "none", rows' = [rows EXCEPT ![i] = "building"],
             job' = [job EXCEPT ![w] = [@ EXCEPT !.row = i]]
      PROVE  RowInv'
  <2>1. /\ job'[w].row = i /\ \A v \in Workers \ {w} : job'[v] = job[v]
        /\ rows'[i] = "building" /\ \A k \in RowIds \ {i} : rows'[k] = rows[k]
    <3>1. job'[w] = [job[w] EXCEPT !.row = i] /\ \A v \in Workers \ {w} : job'[v] = job[v]
      BY <1>5 DEF TypeOK
    <3>2. rows'[i] = "building" /\ \A k \in RowIds \ {i} : rows'[k] = rows[k]
      BY <1>5 DEF TypeOK
    <3> QED BY <1>1, <3>1, <3>2, RowFields
  <2>2. \A v \in Workers : job[v].row # i
    <3>1. i # 0
      BY DeployAssumption DEF RowIds
    <3> QED BY <1>5, <3>1 DEF RowInv
  <2>3. \A v \in Workers : job[v].row \in RowIds \cup {0}
    BY DeployAssumption DEF TypeOK, Jobs, RowIds
  <2>4. \A v \in Workers : job'[v].row # 0 =>
          /\ at'[v] \in HasRow /\ rows'[job'[v].row] = "building"
          /\ \A u \in Workers \ {v} : job'[u].row # job'[v].row
    <3> TAKE v \in Workers
    <3>1. CASE v = w
      BY <1>2, <2>1, <2>2, <3>1 DEF HasRow, Deploying
    <3>2. CASE v # w
      BY <1>1, <1>2, <2>1, <2>2, <2>3, <3>2 DEF RowInv, HasRow
    <3> QED BY <3>1, <3>2
  <2>5. \A k \in RowIds : rows'[k] = "building" =>
          k \in lost' \/ \E v \in Workers : job'[v].row = k
    <3> TAKE k \in RowIds
    <3> HAVE rows'[k] = "building"
    <3>1. CASE k = i
      BY <2>1, <3>1
    <3>2. CASE k # i
      <4>1. k \in lost \/ \E v \in Workers : job[v].row = k
        BY <2>1, <3>2 DEF RowInv
      <4>2. \A v \in Workers : job[v].row = k => v # w
        BY <1>1, DeployAssumption DEF RowIds
      <4> QED BY <1>1, <2>1, <4>1, <4>2
    <3> QED BY <3>1, <3>2
  <2> QED BY <1>3, <2>4, <2>5 DEF RowInv, Building, HasRow
<1> QED BY <1>4, <1>5 DEF Record

\* It closes its row, and not another's.
LEMMA FinishRow ==
  ASSUME TypeOK, OkInv, RowInv, NEW w \in Workers, Finish(w)
  PROVE  RowInv'
<1>1. /\ at' = [at EXCEPT ![w] = "idle"] /\ job' = [job EXCEPT ![w] = NoJob] /\ lost' = lost
      /\ at[w] = "finish" /\ deployStatus' = deployStatus
  BY DEF Finish, Answers
<1>2. /\ at'[w] = "idle" /\ job'[w].row = 0
      /\ \A v \in Workers \ {w} : at'[v] = at[v] /\ job'[v] = job[v]
  BY <1>1 DEF TypeOK, NoJob
<1>3. \A v \in Workers : job[v].row \in RowIds \cup {0}
  BY DeployAssumption DEF TypeOK, Jobs, RowIds
<1>4. /\ \A k \in RowIds : k # job[w].row => rows'[k] = rows[k]
      /\ job[w].row # 0 => rows'[job[w].row] # "building"
  <2>1. CASE job[w].row = 0
    BY <2>1 DEF Finish
  <2>2. CASE job[w].row # 0
    BY <1>3, <2>2 DEF Finish, TypeOK
  <2> QED BY <2>1, <2>2
<1>5. deployStatus' = "building" => \E v \in Workers : at'[v] \in Building
  BY <1>1, <1>2 DEF RowInv, Building
<1>6. \A v \in Workers : job'[v].row # 0 =>
        /\ at'[v] \in HasRow /\ rows'[job'[v].row] = "building"
        /\ \A u \in Workers \ {v} : job'[u].row # job'[v].row
  BY <1>2, <1>3, <1>4 DEF RowInv, HasRow
<1>7. \A k \in RowIds : rows'[k] = "building" =>
        k \in lost' \/ \E v \in Workers : job'[v].row = k
  <2> TAKE k \in RowIds
  <2> HAVE rows'[k] = "building"
  <2>1. k # job[w].row /\ rows[k] = "building"
    BY <1>4, DeployAssumption DEF RowIds
  <2> QED BY <1>1, <1>2, <2>1 DEF RowInv
<1> QED BY <1>5, <1>6, <1>7 DEF RowInv, Building, HasRow

LEMMA RebootRow ==
  ASSUME TypeOK, Reboot
  PROVE  RowInv'
<1>1. /\ job' = [w \in Workers |-> NoJob] /\ deployStatus' = "none" /\ rows' = rows
      /\ lost' = lost \cup {i \in RowIds : rows[i] = "building"}
  BY DEF Reboot
<1>2. \A w \in Workers : job'[w].row = 0
  BY <1>1 DEF NoJob
<1> QED BY <1>1, <1>2 DEF RowInv

LEMMA RowStays ==
  ASSUME RowInv, UNCHANGED <<at, job, rows, deployStatus, lost>>
  PROVE  RowInv'
  BY DEF RowInv

LEMMA InitRow == Init => RowInv
<1> SUFFICES ASSUME Init PROVE RowInv
  OBVIOUS
<1>1. \A w \in Workers : job[w].row = 0
  <2>1. NoJob.row = 0 /\ [NoJob EXCEPT !.repo = siteRepo, !.build = siteBuild].row = 0
    BY DEF NoJob
  <2> QED BY <2>1 DEF Init
<1>2. (\A i \in RowIds : rows[i] = "none") /\ deployStatus = "none"
  BY DEF Init
<1> QED BY <1>1, <1>2 DEF RowInv

LEMMA RowStep ==
  ASSUME TypeOK, OkInv, RowInv, [Next]_deployVars
  PROVE  RowInv'
<1>1. ASSUME NEW w \in Workers, GitDeployment(w) PROVE RowInv'
  BY <1>1, DeployGitRow, RecordRow, StatRow, EmptyDirRow, CloneBeginsRow, CloneEndsRow,
     FetchOriginRow, ResetHardRow, HeadRow, BuildRow, StoreRootRow, TellRow, FinishRow DEF GitDeployment
<1>2. ASSUME NEW w \in Workers, Connection(w) PROVE RowInv'
  BY <1>2, AskConnectRow, AskCreateRepoRow, AskDisconnectRow, DisconnectGitRow, SeedRow,
     SeedPushRow, ConnectGitRow, ReadSiteRow DEF Connection, Remotes
<1>3. ASSUME NEW w \in Workers, ZipDeployment(w) PROVE RowInv'
  BY <1>3, DeployZipRow, ZipClearRow, ExtractRow, RemoveOldRow, RenameRow, CleanupRow,
     DeployedRow, ZipFailedRow DEF ZipDeployment
<1>4. ASSUME NEW w \in Workers, AskEdit(w) \/ Edit(w) PROVE RowInv'
  BY <1>4, AskEditRow, EditRow
<1>5. CASE (\E r \in Remotes : Push(r)) \/ Reload \/ UNCHANGED deployVars
  BY <1>5, RowStays DEF Push, Reload, deployVars, history
<1>6. CASE Reboot
  BY <1>6, RebootRow
<1> QED BY <1>1, <1>2, <1>3, <1>4, <1>5, <1>6 DEF Next, WorkerStep

LEMMA RowsMeans ==
  ASSUME TypeOK, RowInv
  PROVE  RowsClose
<1>1. deployStatus = "building" => \E w \in Workers : at[w] \in Deploying
  BY DEF RowInv
<1>2. ASSUME NEW i \in RowIds, rows[i] = "building", i \notin lost
      PROVE  \E w \in Workers : /\ at[w] \in Deploying /\ job[w].row = i
                               /\ \A v \in Workers \ {w} : job[v].row # i
  <2>1. PICK w \in Workers : job[w].row = i
    BY <1>2 DEF RowInv
  <2>2. i # 0
    BY DeployAssumption DEF RowIds
  <2>3. at[w] \in Deploying /\ \A v \in Workers \ {w} : job[v].row # i
    BY <2>1, <2>2 DEF RowInv
  <2> QED BY <2>1, <2>3
<1> QED BY <1>1, <1>2 DEF RowsClose

\* Neither the history of deployments nor the status the panel remembers shows
\* one that is being built and that nobody is working on, except rows whose
\* goroutine died with the panel.
THEOREM RowsAlwaysClose == Spec => []RowsClose
<1>1. Init => TypeOK /\ OkInv /\ RowInv
  BY InitType, InitOk, InitRow
<1>2. TypeOK /\ OkInv /\ RowInv /\ [Next]_deployVars => (TypeOK /\ OkInv /\ RowInv)'
  BY TypeStep, OkStep, RowStep, TypedMeans
<1>3. TypeOK /\ OkInv /\ RowInv => RowsClose
  BY RowsMeans
<1> QED BY <1>1, <1>2, <1>3, PTL DEF Spec

-----------------------------------------------------------------------------
(* Who is at work alone, and what it has made of the directory.            *)

Place(w) == GitPlace(w) /\ ZipPlace(w)

\* Where nothing is known of the directory.
Nowhere == Steps \ (Zipping \cup {"head", "build", "store", "tell", "finish"})

LEMMA NowhereKnown ==
  ASSUME NEW w \in Workers, at'[w] \in Nowhere \/ (at'[w] = "finish" /\ ~job'[w].ok)
  PROVE  Place(w)'
  BY DEF Place, GitPlace, ZipPlace, Nowhere, Zipping

\* Nobody else is alone when a goroutine takes a step other than to begin.
LEMMA AloneMove ==
  ASSUME TypeOK, AloneInv, NEW w \in Workers, ~Idle(w), NEW step,
         at' = [at EXCEPT ![w] = step], alone' = alone,
         alone[w] => step # "idle" /\ Place(w)'
  PROVE  AloneInv'
<1>1. at'[w] = step /\ \A v \in Workers \ {w} : at'[v] = at[v]
  BY DEF TypeOK
<1>2. \A v \in Workers \ {w} : ~alone[v]
  BY DEF AloneInv
<1>3. ASSUME alone[w] PROVE (~Idle(w))' /\ \A v \in Workers \ {w} : Idle(v)'
  BY <1>1, <1>3 DEF AloneInv, Idle
<1> QED BY <1>2, <1>3 DEF AloneInv, Place

LEMMA AloneGoto ==
  ASSUME TypeOK, AloneInv, NEW w \in Workers, ~Idle(w), NEW step, Goto(w, step), step # "idle",
         alone[w] => Place(w)'
  PROVE  AloneInv'
  BY AloneMove DEF Goto, history

\* It goes where nothing is known.
LEMMA AloneNowhere ==
  ASSUME TypeOK, AloneInv, NEW w \in Workers, ~Idle(w), NEW step \in Nowhere, step # "idle",
         Goto(w, step)
  PROVE  AloneInv'
<1>1. at'[w] = step
  BY DEF Goto, TypeOK
<1> QED BY <1>1, NowhereKnown, AloneGoto

LEMMA AloneFails ==
  ASSUME TypeOK, OkInv, AloneInv, NEW w \in Workers, Fails(w), at[w] # "finish", ~Idle(w),
         at[w] \notin Zipping
  PROVE  AloneInv'
<1>1. at'[w] = "finish" /\ Goto(w, "finish") /\ job' = job
  BY DEF Fails, Goto, TypeOK
<1>2. ~job[w].ok
  BY DEF OkInv, OkOf, Zipping
<1> QED BY <1>1, <1>2, NowhereKnown, AloneGoto

LEMMA AloneAnswers ==
  ASSUME TypeOK, AloneInv, NEW w \in Workers, ~Idle(w), Answers(w)
  PROVE  AloneInv'
<1>1. ~alone'[w] /\ \A v \in Workers \ {w} : alone'[v] = alone[v]
  BY DEF Answers, TypeOK
<1>2. \A v \in Workers \ {w} : ~alone[v]
  BY DEF AloneInv
<1> QED BY <1>1, <1>2 DEF AloneInv

LEMMA AloneBegin ==
  ASSUME TypeOK, AloneInv, NEW w \in Workers, NEW step, NEW work, Begin(w, step, work),
         step # "idle", at'[w] = step /\ before'[w] = main => Place(w)'
  PROVE  AloneInv'
<1>1. at'[w] = step /\ \A v \in Workers \ {w} : at'[v] = at[v]
  BY DEF TypeOK, Begin
<1>2. CASE \A v \in Workers : Idle(v)
  <2>1. \A v \in Workers : ~alone[v]
    BY <1>2 DEF AloneInv
  <2>2. alone' = [alone EXCEPT ![w] = TRUE] /\ before'[w] = main
    BY <1>2 DEF Begin, TypeOK
  <2>3. \A v \in Workers \ {w} : ~alone'[v]
    BY <2>1, <2>2 DEF TypeOK
  <2>4. (~Idle(w))' /\ \A v \in Workers \ {w} : Idle(v)'
    BY <1>1, <1>2 DEF Idle
  <2> QED BY <1>1, <2>2, <2>3, <2>4 DEF AloneInv, Place
<1>3. CASE ~\A v \in Workers : Idle(v)
  BY <1>3 DEF Begin, AloneInv
<1> QED BY <1>2, <1>3

\* What is so of the directory while a deployment is at a step.
LEMMA AloneAt ==
  ASSUME AloneInv, NEW w \in Workers, alone[w]
  PROVE  GitPlace(w) /\ ZipPlace(w)
  BY DEF AloneInv

LEMMA AskConnectAlone ==
  ASSUME TypeOK, OkInv, AloneInv, NEW w \in Workers, NEW r \in Remotes, NEW b \in BOOLEAN, AskConnect(w, r, b)
  PROVE  AloneInv'
<1>1. "connect" \in Nowhere /\ "connect" # "idle"
  BY DEF Nowhere, Steps, Deploying, Zipping
<1> QED BY <1>1, NowhereKnown, AloneBegin DEF AskConnect

LEMMA AskCreateRepoAlone ==
  ASSUME TypeOK, OkInv, AloneInv, NEW w \in Workers, NEW b \in BOOLEAN, AskCreateRepo(w, b)
  PROVE  AloneInv'
<1>1. "seed" \in Nowhere /\ "seed" # "idle"
  BY DEF Nowhere, Steps, Deploying, Zipping
<1> QED BY <1>1, NowhereKnown, AloneBegin DEF AskCreateRepo

LEMMA DeployGitAlone ==
  ASSUME TypeOK, OkInv, AloneInv, NEW w \in Workers, DeployGit(w)
  PROVE  AloneInv'
<1>1. "record" \in Nowhere /\ "record" # "idle"
  BY DEF Nowhere, Steps, Deploying, Zipping
<1> QED BY <1>1, NowhereKnown, AloneBegin DEF DeployGit

LEMMA AskDisconnectAlone ==
  ASSUME TypeOK, OkInv, AloneInv, NEW w \in Workers, AskDisconnect(w)
  PROVE  AloneInv'
<1>1. "disconnect" \in Nowhere /\ "disconnect" # "idle"
  BY DEF Nowhere, Steps, Deploying, Zipping
<1> QED BY <1>1, NowhereKnown, AloneBegin DEF AskDisconnect

LEMMA AskEditAlone ==
  ASSUME TypeOK, OkInv, AloneInv, NEW w \in Workers, AskEdit(w)
  PROVE  AloneInv'
<1>1. "edit" \in Nowhere /\ "edit" # "idle"
  BY DEF Nowhere, Steps, Deploying, Zipping
<1> QED BY <1>1, NowhereKnown, AloneBegin DEF AskEdit

LEMMA ConnectGitAlone ==
  ASSUME TypeOK, OkInv, AloneInv, NEW w \in Workers, ConnectGit(w)
  PROVE  AloneInv'
<1>1. ~Idle(w) /\ at[w] # "finish" /\ at[w] \notin Zipping
  BY DEF ConnectGit, Idle, Zipping
<1>2. {"read"} \subseteq Nowhere /\ "idle" \notin {"read"}
  BY DEF Nowhere, Steps, Deploying, Zipping
<1> QED BY <1>1, <1>2, AloneNowhere DEF ConnectGit

LEMMA ReadSiteAlone ==
  ASSUME TypeOK, OkInv, AloneInv, NEW w \in Workers, ReadSite(w)
  PROVE  AloneInv'
<1>1. ~Idle(w) /\ at[w] # "finish" /\ at[w] \notin Zipping
  BY DEF ReadSite, Idle, Zipping
<1>2. {"record"} \subseteq Nowhere /\ "idle" \notin {"record"}
  BY DEF Nowhere, Steps, Deploying, Zipping
<1> QED BY <1>1, <1>2, AloneNowhere DEF ReadSite

LEMMA StatAlone ==
  ASSUME TypeOK, OkInv, AloneInv, NEW w \in Workers, Stat(w)
  PROVE  AloneInv'
<1>1. ~Idle(w) /\ at[w] # "finish" /\ at[w] \notin Zipping
  BY DEF Stat, Idle, Zipping
<1>2. {"fetch", "empty"} \subseteq Nowhere /\ "idle" \notin {"fetch", "empty"}
  BY DEF Nowhere, Steps, Deploying, Zipping
<1> QED BY <1>1, <1>2, AloneNowhere DEF Stat

LEMMA EmptyDirAlone ==
  ASSUME TypeOK, OkInv, AloneInv, NEW w \in Workers, EmptyDir(w)
  PROVE  AloneInv'
<1>1. ~Idle(w) /\ at[w] # "finish" /\ at[w] \notin Zipping
  BY DEF EmptyDir, Idle, Zipping
<1>2. "clone" \in Nowhere /\ "clone" # "idle"
  BY DEF Nowhere, Steps, Deploying, Zipping
<1> QED BY <1>1, <1>2, AloneNowhere, AloneFails DEF EmptyDir

LEMMA CloneBeginsAlone ==
  ASSUME TypeOK, OkInv, AloneInv, NEW w \in Workers, CloneBegins(w)
  PROVE  AloneInv'
<1>1. ~Idle(w) /\ at[w] # "finish" /\ at[w] \notin Zipping
  BY DEF CloneBegins, Idle, Zipping
<1>2. "checkout" \in Nowhere /\ "checkout" # "idle"
  BY DEF Nowhere, Steps, Deploying, Zipping
<1> QED BY <1>1, <1>2, AloneNowhere, AloneFails DEF CloneBegins

LEMMA FetchOriginAlone ==
  ASSUME TypeOK, OkInv, AloneInv, NEW w \in Workers, FetchOrigin(w)
  PROVE  AloneInv'
<1>1. ~Idle(w) /\ at[w] # "finish" /\ at[w] \notin Zipping
  BY DEF FetchOrigin, Idle, Zipping
<1>2. "reset" \in Nowhere /\ "reset" # "idle"
  BY DEF Nowhere, Steps, Deploying, Zipping
<1> QED BY <1>1, <1>2, AloneNowhere, AloneFails DEF FetchOrigin

LEMMA RecordAlone ==
  ASSUME TypeOK, OkInv, AloneInv, NEW w \in Workers, Record(w)
  PROVE  AloneInv'
<1>1. ~Idle(w) /\ at[w] # "finish" /\ at[w] \notin Zipping
  BY DEF Record, Idle, Zipping
<1>2. {"stat"} \subseteq Nowhere /\ "idle" \notin {"stat"}
  BY DEF Nowhere, Steps, Deploying, Zipping
<1> QED BY <1>1, <1>2, AloneNowhere DEF Record

LEMMA DisconnectGitAlone ==
  ASSUME TypeOK, OkInv, AloneInv, NEW w \in Workers, DisconnectGit(w)
  PROVE  AloneInv'
<1>1. ~Idle(w)
  BY DEF DisconnectGit, Idle
<1> QED BY <1>1, AloneAnswers DEF DisconnectGit

LEMMA DeployedAlone ==
  ASSUME TypeOK, OkInv, AloneInv, NEW w \in Workers, Deployed(w)
  PROVE  AloneInv'
<1>1. ~Idle(w)
  BY DEF Deployed, Idle
<1> QED BY <1>1, AloneAnswers DEF Deployed

LEMMA ZipFailedAlone ==
  ASSUME TypeOK, OkInv, AloneInv, NEW w \in Workers, ZipFailed(w)
  PROVE  AloneInv'
<1>1. ~Idle(w)
  BY DEF ZipFailed, Idle
<1> QED BY <1>1, AloneAnswers DEF ZipFailed, Ends

LEMMA EditAlone ==
  ASSUME TypeOK, OkInv, AloneInv, NEW w \in Workers, Edit(w)
  PROVE  AloneInv'
<1>1. ~Idle(w)
  BY DEF Edit, Idle
<1> QED BY <1>1, AloneAnswers DEF Edit, Ends

LEMMA FinishAlone ==
  ASSUME TypeOK, OkInv, AloneInv, NEW w \in Workers, Finish(w)
  PROVE  AloneInv'
<1>1. ~Idle(w)
  BY DEF Finish, Idle
<1> QED BY <1>1, AloneAnswers DEF Finish

LEMMA SeedAlone ==
  ASSUME TypeOK, OkInv, AloneInv, NEW w \in Workers, Seed(w)
  PROVE  AloneInv'
<1>1. ~Idle(w) /\ "push" \in Nowhere /\ "push" # "idle"
  BY DEF Seed, Idle, Nowhere, Steps, Deploying, Zipping
<1> QED BY <1>1, AloneNowhere, AloneAnswers DEF Seed, Ends

LEMMA SeedPushAlone ==
  ASSUME TypeOK, OkInv, AloneInv, NEW w \in Workers, SeedPush(w)
  PROVE  AloneInv'
<1>1. ~Idle(w) /\ "connect" \in Nowhere /\ "connect" # "idle"
  BY DEF SeedPush, Idle, Nowhere, Steps, Deploying, Zipping
<1> QED BY <1>1, AloneNowhere, AloneAnswers DEF SeedPush, Ends

\* A checkout leaves the files of its commit in place.
LEMMA CheckedOutInPlace ==
  ASSUME TypeOK, HasGit, NEW commit \in Trees, main' = CheckedOut(commit)
  PROVE  HeadInPlace'
<1>1. main' \in Dirs /\ main'.git \in Gits /\ main'.git.head = commit
      /\ \A p \in Paths : commit[p] # NoFile => main'.tree[p] = commit[p]
  BY CheckedOutType
<1> QED BY <1>1, AbsenceAssumption DEF HeadInPlace, HasGit, Exists

LEMMA AtHead ==
  ASSUME NEW w \in Workers, at'[w] = "head", HeadInPlace'
  PROVE  Place(w)'
  BY DEF Place, GitPlace, ZipPlace, Zipping

LEMMA CloneEndsAlone ==
  ASSUME TypeOK, OkInv, AloneInv, NEW w \in Workers, CloneEnds(w)
  PROVE  AloneInv'
<1>1. ~Idle(w) /\ at[w] # "finish" /\ at[w] \notin Zipping
  BY DEF CloneEnds, Idle, Zipping
<1>2. CASE HasBranch /\ main' = CheckedOut(remote[main.git.origin]) /\ Goto(w, "head")
  <2>1. HeadInPlace'
    BY <1>2, GitType, CheckedOutInPlace DEF HasBranch
  <2>2. at'[w] = "head"
    BY <1>2 DEF Goto, TypeOK
  <2> QED BY <1>1, <1>2, <2>1, <2>2, AtHead, AloneGoto
<1> QED BY <1>1, <1>2, AloneFails DEF CloneEnds

LEMMA ResetHardAlone ==
  ASSUME TypeOK, OkInv, AloneInv, NEW w \in Workers, ResetHard(w)
  PROVE  AloneInv'
<1>1. ~Idle(w) /\ at[w] # "finish" /\ at[w] \notin Zipping
  BY DEF ResetHard, Idle, Zipping
<1>2. CASE HasGit /\ main' = CheckedOut(main.git.fetched) /\ Goto(w, "head")
  <2>1. HeadInPlace'
    BY <1>2, GitType, CheckedOutInPlace
  <2>2. at'[w] = "head"
    BY <1>2 DEF Goto, TypeOK
  <2> QED BY <1>1, <1>2, <2>1, <2>2, AtHead, AloneGoto
<1> QED BY <1>1, <1>2, AloneFails DEF ResetHard

LEMMA HeadAlone ==
  ASSUME TypeOK, OkInv, AloneInv, NEW w \in Workers, Head(w)
  PROVE  AloneInv'
<1>1. ~Idle(w) /\ Goto(w, "build") /\ at'[w] = "build" /\ UNCHANGED main /\ at[w] = "head"
  BY DEF Head, Idle, Goto, TypeOK, disk
<1>2. job'[w].commit = IF HasGit THEN main.git.head ELSE Blank
  <2>1. job[w] \in Jobs /\ job'[w] = [job[w] EXCEPT !.commit = IF HasGit THEN main.git.head ELSE Blank]
    BY DEF Head, TypeOK
  <2> QED BY <2>1 DEF Jobs
<1>3. ASSUME alone[w] PROVE Place(w)'
  <2>1. HeadInPlace
    BY <1>1, <1>3, AloneAt DEF GitPlace
  <2>2. HeadInPlace'
    BY <1>1, <2>1 DEF HeadInPlace, HasGit, Exists
  <2>3. Fetched(w)'
    BY <1>1, <1>2, <2>1, <2>2 DEF Fetched, HeadInPlace
  <2> QED BY <1>1, <2>3 DEF Place, GitPlace, ZipPlace
<1> QED BY <1>1, <1>3, AloneGoto

\* What a build does to the directory is to its dist.
LEMMA BuildKeeps ==
  ASSUME TypeOK, NEW w \in Workers, Fetched(w), job' = job,
         main' = main \/ main' = [main EXCEPT !.dist = TRUE]
  PROVE  Fetched(w)'
<1>1. main \in Dirs
  BY GitType DEF Fetched, HeadInPlace
<1>2. main' \in Dirs
  BY <1>1, DirType
<1>3. main'.tree = main.tree /\ main'.git = main.git
  BY <1>1 DEF Dirs
<1> QED BY <1>2, <1>3, AbsenceAssumption DEF Fetched, HeadInPlace, HasGit, Exists

LEMMA BuildAlone ==
  ASSUME TypeOK, OkInv, AloneInv, NEW w \in Workers, Build(w)
  PROVE  AloneInv'
<1>1. ~Idle(w) /\ at[w] = "build" /\ at[w] # "finish" /\ at[w] \notin Zipping
  BY DEF Build, Idle, Zipping
<1>2. ASSUME Goto(w, "store"), job' = job,
             IF job[w].build THEN Exists /\ main' = [main EXCEPT !.dist = TRUE] ELSE UNCHANGED main
      PROVE  AloneInv'
  <2>1. at'[w] = "store"
    BY <1>2 DEF Goto, TypeOK
  <2>2. ASSUME alone[w] PROVE Place(w)'
    <3>1. Fetched(w)'
      BY <1>1, <1>2, <2>2, AloneAt, BuildKeeps DEF GitPlace
    <3>2. job'[w].build => main'.dist
      <4>1. Exists => main \in Dirs
        BY DEF TypeOK, Exists
      <4> QED BY <1>2, <4>1 DEF Dirs
    <3> QED BY <2>1, <3>1, <3>2 DEF Place, GitPlace, ZipPlace
  <2> QED BY <1>1, <1>2, <2>2, AloneGoto
<1> QED BY <1>1, <1>2, AloneFails DEF Build

\* The directory and what is known of it stay.
LEMMA FetchedStays ==
  ASSUME NEW w \in Workers, Fetched(w), main' = main, job'[w].commit = job[w].commit
  PROVE  Fetched(w)'
  BY DEF Fetched, HeadInPlace, HasGit, Exists

LEMMA StoreRootAlone ==
  ASSUME TypeOK, OkInv, AloneInv, NEW w \in Workers, StoreRoot(w)
  PROVE  AloneInv'
<1>1. /\ ~Idle(w) /\ at[w] = "store" /\ Goto(w, "tell") /\ at'[w] = "tell"
      /\ UNCHANGED <<main, job>>
      /\ config' = IF job[w].build THEN "dist" ELSE config
  BY DEF StoreRoot, Idle, Goto, TypeOK, disk
<1>2. ASSUME alone[w] PROVE Place(w)'
  <2>1. Fetched(w) /\ (job[w].build => main.dist)
    BY <1>1, <1>2, AloneAt DEF GitPlace
  <2>2. Fetched(w)'
    BY <1>1, <2>1, FetchedStays
  <2> QED BY <1>1, <2>1, <2>2 DEF Place, GitPlace, ZipPlace
<1> QED BY <1>1, <1>2, AloneGoto

LEMMA TellAlone ==
  ASSUME TypeOK, OkInv, AloneInv, NEW w \in Workers, Tell(w)
  PROVE  AloneInv'
<1>1. /\ ~Idle(w) /\ at[w] = "tell" /\ Goto(w, "finish") /\ at'[w] = "finish"
      /\ UNCHANGED <<main, config>> /\ pending'
  BY DEF Tell, NotifyReload, Idle, Goto, TypeOK, disk, siteRow
<1>2. job'[w].commit = job[w].commit /\ job'[w].build = job[w].build
  <2>1. job[w] \in Jobs /\ job'[w] = [job[w] EXCEPT !.ok = TRUE]
    BY DEF Tell, TypeOK
  <2> QED BY <2>1 DEF Jobs
<1>3. ASSUME alone[w] PROVE Place(w)'
  <2>1. Fetched(w) /\ (job[w].build => main.dist /\ config = "dist")
    BY <1>1, <1>3, AloneAt DEF GitPlace
  <2>2. Fetched(w)'
    BY <1>1, <1>2, <2>1, FetchedStays
  <2> QED BY <1>1, <1>2, <2>1, <2>2 DEF Place, GitPlace, ZipPlace, Served
<1> QED BY <1>1, <1>3, AloneGoto

LEMMA DeployZipAlone ==
  ASSUME TypeOK, OkInv, AloneInv, NEW w \in Workers, NEW a \in Archives, DeployZip(w, a)
  PROVE  AloneInv'
<1> DEFINE work == [NoJob EXCEPT !.archive = a, !.left = Holds[a]]
<1>1. Begin(w, "clear", work)
  BY DEF DeployZip
<1>2. main' = main
  BY DEF DeployZip, disk
<1>3. at'[w] = "clear" /\ before'[w] = main => Place(w)'
  BY <1>2 DEF Place, GitPlace, ZipPlace
<1> HIDE DEF work
<1> QED BY <1>1, <1>3, AloneBegin

LEMMA ZipClearAlone ==
  ASSUME TypeOK, OkInv, AloneInv, NEW w \in Workers, ZipClear(w)
  PROVE  AloneInv'
<1>1. /\ ~Idle(w) /\ at[w] = "clear" /\ Goto(w, "extract") /\ at'[w] = "extract"
      /\ UNCHANGED <<main, job, before>> /\ tmp' = Blank
  BY DEF ZipClear, ZipStep, Idle, Goto, TypeOK, history
<1>2. ASSUME alone[w] PROVE Place(w)'
  <2>1. main = before[w]
    BY <1>1, <1>2, AloneAt DEF ZipPlace
  <2>2. job[w].left = Holds[job[w].archive]
    BY <1>1 DEF OkInv, OkOf
  <2>3. tmp' = [p \in Paths |-> IF p \in Holds[job[w].archive] \ job[w].left
                               THEN job[w].archive ELSE NoFile]
    BY <1>1, <2>2 DEF Blank
  <2> QED BY <1>1, <2>1, <2>3 DEF Place, GitPlace, ZipPlace
<1> QED BY <1>1, <1>2, AloneGoto

LEMMA ExtractAlone ==
  ASSUME TypeOK, OkInv, AloneInv, NEW w \in Workers, Extract(w)
  PROVE  AloneInv'
<1>1. /\ ~Idle(w) /\ at[w] = "extract" /\ UNCHANGED main /\ job[w] \in Jobs
  BY DEF Extract, Idle, TypeOK, disk
<1>2. ASSUME alone[w]
      PROVE  /\ main = before[w]
             /\ tmp = [p \in Paths |-> IF p \in Holds[job[w].archive] \ job[w].left
                                       THEN job[w].archive ELSE NoFile]
  BY <1>1, <1>2, AloneAt DEF ZipPlace
<1>3. ASSUME NEW q \in job[w].left, tmp' = [tmp EXCEPT ![q] = job[w].archive],
             job' = [job EXCEPT ![w] = [@ EXCEPT !.left = job[w].left \ {q}]],
             Goto(w, "extract")
      PROVE  AloneInv'
  <2>1. job'[w].archive = job[w].archive /\ job'[w].left = job[w].left \ {q}
    <3>1. job'[w] = [job[w] EXCEPT !.left = job[w].left \ {q}]
      BY <1>3 DEF TypeOK
    <3> QED BY <1>1, <3>1, JobFields
  <2>2. at'[w] = "extract" /\ before' = before
    BY <1>3 DEF Goto, TypeOK, history
  <2>3. q \in Holds[job[w].archive]
    BY <1>1, OkZip DEF Zipping
  <2>4. ASSUME alone[w] PROVE Place(w)'
    <3>1. tmp' = [p \in Paths |-> IF p \in Holds[job'[w].archive] \ job'[w].left
                                  THEN job'[w].archive ELSE NoFile]
      BY <1>2, <1>3, <2>1, <2>3, <2>4
    <3> QED BY <1>1, <1>2, <2>2, <2>4, <3>1 DEF Place, GitPlace, ZipPlace
  <2> QED BY <1>1, <1>3, <2>4, AloneGoto
<1>4. ASSUME job[w].left = {}, Goto(w, "remove"), UNCHANGED <<disk, job>>
      PROVE  AloneInv'
  <2>1. at'[w] = "remove" /\ UNCHANGED <<main, tmp, job, before>>
    BY <1>4 DEF Goto, TypeOK, history, disk
  <2>2. ASSUME alone[w] PROVE Place(w)'
    <3>1. tmp = Unpacked(job[w].archive)
      BY <1>2, <1>4, <2>2 DEF Unpacked
    <3>2. Unpacked(job[w].archive)' = Unpacked(job[w].archive)
      BY <2>1 DEF Unpacked
    <3> QED BY <1>2, <2>1, <2>2, <3>1, <3>2 DEF Place, GitPlace, ZipPlace
  <2> QED BY <1>1, <1>4, <2>2, AloneGoto
<1>5. ASSUME Goto(w, "cleanup"), UNCHANGED <<disk, job>>
      PROVE  AloneInv'
  <2>1. at'[w] = "cleanup" /\ UNCHANGED <<main, job, before>>
    BY <1>5 DEF Goto, TypeOK, history, disk
  <2>2. ~job[w].ok
    BY <1>1, OkZip DEF Zipping
  <2>3. ASSUME alone[w] PROVE Place(w)'
    BY <1>2, <2>1, <2>2, <2>3 DEF Place, GitPlace, ZipPlace
  <2> QED BY <1>1, <1>5, <2>3, AloneGoto
<1> QED BY <1>3, <1>4, <1>5 DEF Extract, ZipStep

LEMMA RemoveOldAlone ==
  ASSUME TypeOK, OkInv, AloneInv, NEW w \in Workers, RemoveOld(w)
  PROVE  AloneInv'
<1>1. /\ ~Idle(w) /\ at[w] = "remove" /\ Goto(w, "rename") /\ at'[w] = "rename"
      /\ UNCHANGED <<tmp, job, before>> /\ main' = NoDir
  BY DEF RemoveOld, ZipStep, Idle, Goto, TypeOK, history
<1>2. ASSUME alone[w] PROVE Place(w)'
  <2>1. tmp = Unpacked(job[w].archive)
    BY <1>1, <1>2, AloneAt DEF ZipPlace
  <2>2. Unpacked(job[w].archive)' = Unpacked(job[w].archive)
    BY <1>1 DEF Unpacked
  <2> QED BY <1>1, <2>1, <2>2 DEF Place, GitPlace, ZipPlace
<1> QED BY <1>1, <1>2, AloneGoto

\* What is unpacked from an archive with a file in it is not nothing.
LEMMA UnpackedBlank ==
  ASSUME NEW a \in Archives, Holds[a] # {}
  PROVE  Unpacked(a) # Blank
<1>1. PICK p \in Holds[a] : TRUE
  OBVIOUS
<1>2. p \in Paths /\ a # NoFile
  BY DeployAssumption
<1> QED BY <1>1, <1>2 DEF Unpacked, Blank

LEMMA RenameAlone ==
  ASSUME TypeOK, OkInv, AloneInv, NEW w \in Workers, Rename(w)
  PROVE  AloneInv'
<1>1. /\ ~Idle(w) /\ at[w] = "rename" /\ Goto(w, "cleanup") /\ at'[w] = "cleanup"
      /\ job[w] \in Jobs
  BY DEF Rename, ZipStep, Idle, Goto, TypeOK
<1>2. ASSUME alone[w] PROVE tmp = Unpacked(job[w].archive) /\ main = NoDir
  BY <1>1, <1>2, AloneAt DEF ZipPlace
<1>3. job[w].archive \in Archives /\ ~job[w].ok
  BY <1>1, OkZip DEF Zipping
<1>4. ASSUME alone[w] PROVE Place(w)'
  <2>1. CASE tmp # Blank
    <3>1. /\ main' = [EmptyDirectory EXCEPT !.tree = tmp]
          /\ job'[w] = [job[w] EXCEPT !.ok = TRUE]
      BY <1>2, <1>4, <2>1 DEF Rename, TypeOK
    <3>2. job'[w].archive = job[w].archive /\ job'[w].ok
      BY <1>1, <3>1, JobFields
    <3>3. Unpacked(job[w].archive)' = Unpacked(job[w].archive)
      BY <3>2 DEF Unpacked
    <3> QED BY <1>1, <1>2, <1>4, <3>1, <3>2, <3>3 DEF Place, GitPlace, ZipPlace
  <2>2. CASE tmp = Blank
    <3>1. job' = job
      BY <2>2 DEF Rename
    <3>2. Holds[job[w].archive] = {}
      BY <1>2, <1>3, <1>4, <2>2, UnpackedBlank
    <3> QED BY <1>1, <1>3, <3>1, <3>2 DEF Place, GitPlace, ZipPlace
  <2> QED BY <2>1, <2>2
<1> QED BY <1>1, <1>4, AloneGoto

LEMMA CleanupAlone ==
  ASSUME TypeOK, OkInv, AloneInv, NEW w \in Workers, Cleanup(w)
  PROVE  AloneInv'
<1> DEFINE step == IF job[w].ok THEN "notify" ELSE "failed"
<1>1. /\ ~Idle(w) /\ at[w] = "cleanup" /\ Goto(w, step) /\ at'[w] = step
      /\ UNCHANGED <<main, job, before>>
  BY DEF Cleanup, ZipStep, Idle, Goto, TypeOK, history
<1>2. ASSUME alone[w] PROVE Place(w)'
  <2>1. ZipPlace(w)
    BY <1>2, AloneAt
  <2>2. Unpacked(job[w].archive)' = Unpacked(job[w].archive)
    BY <1>1 DEF Unpacked
  <2> QED BY <1>1, <2>1, <2>2 DEF Place, GitPlace, ZipPlace
<1> QED BY <1>1, <1>2, AloneGoto

\* The data plane reloads, somebody pushes, or nothing happens.
LEMMA AloneStays ==
  ASSUME AloneInv, UNCHANGED <<main, tmp, config, at, job, alone, before>>,
         Served => Served'
  PROVE  AloneInv'
<1>1. HeadInPlace => HeadInPlace'
  BY DEF HeadInPlace, HasGit, Exists
<1>2. ASSUME NEW w \in Workers, GitPlace(w) PROVE GitPlace(w)'
  <2>1. Fetched(w) => Fetched(w)'
    BY FetchedStays
  <2> QED BY <1>1, <1>2, <2>1 DEF GitPlace
<1>3. ASSUME NEW w \in Workers, ZipPlace(w) PROVE ZipPlace(w)'
  BY <1>3 DEF ZipPlace, Unpacked
<1> QED BY <1>2, <1>3 DEF AloneInv, Idle

LEMMA ReloadServes == ASSUME Reload PROVE Served'
  BY DEF Reload, Served, Lookup, Exists, disk, siteRow

LEMMA ServedStays ==
  ASSUME Served, UNCHANGED <<main, config, open, pending>>
  PROVE  Served'
  BY DEF Served, Lookup, Exists

LEMMA RebootAlone == ASSUME Reboot PROVE AloneInv'
<1>1. alone' = [w \in Workers |-> FALSE]
  BY DEF Reboot
<1> QED BY <1>1 DEF AloneInv

LEMMA InitAlone == Init => AloneInv
<1> SUFFICES ASSUME Init, NEW w \in Workers, alone[w]
             PROVE  /\ ~Idle(w) /\ \A v \in Workers \ {w} : Idle(v)
                    /\ GitPlace(w) /\ ZipPlace(w)
  BY DEF AloneInv
<1>1. at[w] # "idle"
  BY DEF Init
<1>2. at[w] = "record" /\ \A v \in Workers \ {w} : at[v] = "idle"
  BY <1>1 DEF Init
<1> QED BY <1>2 DEF Idle, GitPlace, ZipPlace

LEMMA AloneStep ==
  ASSUME TypeOK, OkInv, AloneInv, [Next]_deployVars
  PROVE  AloneInv'
<1>1. ASSUME NEW w \in Workers, GitDeployment(w) PROVE AloneInv'
  BY <1>1, DeployGitAlone, RecordAlone, StatAlone, EmptyDirAlone, CloneBeginsAlone,
     CloneEndsAlone, FetchOriginAlone, ResetHardAlone, HeadAlone, BuildAlone,
     StoreRootAlone, TellAlone, FinishAlone DEF GitDeployment
<1>2. ASSUME NEW w \in Workers, Connection(w) PROVE AloneInv'
  BY <1>2, AskConnectAlone, AskCreateRepoAlone, AskDisconnectAlone, DisconnectGitAlone,
     SeedAlone, SeedPushAlone, ConnectGitAlone, ReadSiteAlone DEF Connection, Remotes
<1>3. ASSUME NEW w \in Workers, ZipDeployment(w) PROVE AloneInv'
  BY <1>3, DeployZipAlone, ZipClearAlone, ExtractAlone, RemoveOldAlone, RenameAlone,
     CleanupAlone, DeployedAlone, ZipFailedAlone DEF ZipDeployment
<1>4. ASSUME NEW w \in Workers, AskEdit(w) \/ Edit(w) PROVE AloneInv'
  BY <1>4, AskEditAlone, EditAlone
<1>5. CASE (\E r \in Remotes : Push(r)) \/ UNCHANGED deployVars
  <2>1. UNCHANGED <<main, tmp, config, at, job, alone, before, open, pending>>
    BY <1>5 DEF Push, deployVars, history, disk, siteRow, plane
  <2> QED BY <2>1, ServedStays, AloneStays
<1>6. CASE Reload
  <2>1. UNCHANGED <<main, tmp, config, at, job, alone, before>>
    BY <1>6 DEF Reload, history, disk, siteRow
  <2> QED BY <1>6, <2>1, ReloadServes, AloneStays
<1>7. CASE Reboot
  BY <1>7, RebootAlone
<1> QED BY <1>1, <1>2, <1>3, <1>4, <1>5, <1>6, <1>7 DEF Next, WorkerStep

-----------------------------------------------------------------------------
(* What the data plane serves after a deployment.                          *)

\* A goroutine at work takes a step that is not the end of a deployment.
LEMMA LastWorks ==
  ASSUME LastInv, NEW w \in Workers, ~Idle(w), last' = last
  PROVE  LastInv'
  BY DEF LastInv

LEMMA LastBegins ==
  ASSUME NEW w \in Workers, NEW step, NEW work, Begin(w, step, work)
  PROVE  LastInv'
  BY DEF LastInv, Begin

LEMMA LastFinish ==
  ASSUME DeployInv, NEW w \in Workers, Finish(w)
  PROVE  LastInv'
<1>1. /\ at[w] = "finish" /\ UNCHANGED <<main, config, open, pending>>
      /\ at' = [at EXCEPT ![w] = "idle"]
      /\ last' = IF ~job[w].ok \/ ~alone[w] THEN "none"
                 ELSE IF job[w].build THEN "dist" ELSE "main"
  BY DEF Finish, Answers, disk, siteRow, plane
<1>2. CASE job[w].ok /\ alone[w]
  <2>1. Fetched(w) /\ Served /\ (job[w].build => main.dist /\ config = "dist")
    BY <1>1, <1>2 DEF DeployInv, AloneInv, GitPlace
  <2>2. \A v \in Workers : at'[v] = "idle"
    BY <1>1, <1>2 DEF DeployInv, TypeOK, AloneInv, Idle
  <2>3. Exists' /\ Served'
    BY <1>1, <2>1, ServedStays DEF Fetched, HeadInPlace, HasGit, Exists
  <2>4. last' = "dist" => main'.dist /\ config' = "dist"
    BY <1>1, <2>1
  <2> QED BY <2>2, <2>3, <2>4 DEF LastInv, Idle
<1>3. CASE ~(job[w].ok /\ alone[w])
  BY <1>1, <1>3 DEF LastInv
<1> QED BY <1>2, <1>3

LEMMA LastDeployed ==
  ASSUME DeployInv, NEW w \in Workers, Deployed(w)
  PROVE  LastInv'
<1>1. /\ at[w] = "notify" /\ main' = main /\ pending'
      /\ at' = [at EXCEPT ![w] = "idle"]
      /\ last' = IF alone[w] THEN "main" ELSE "none"
  BY DEF Deployed, NotifyReload, Answers, disk
<1>2. CASE alone[w]
  <2>1. job[w].ok
    BY <1>1 DEF DeployInv, OkInv, OkOf
  <2>2. main = [EmptyDirectory EXCEPT !.tree = Unpacked(job[w].archive)]
    BY <1>1, <1>2, <2>1 DEF DeployInv, AloneInv, ZipPlace
  <2>3. main # NoDir
    <3>1. job[w].archive \in Archives
      BY <1>1, OkZip DEF DeployInv, Zipping
    <3>2. Unpacked(job[w].archive) \in Trees
      BY <3>1 DEF Unpacked, Trees
    <3>3. EmptyDirectory \in Dirs
      BY EmptyType
    <3>4. main \in Dirs
      <4> HIDE DEF EmptyDirectory
      <4> QED BY <2>2, <3>2, <3>3 DEF Dirs
    <3> QED BY <3>4, AbsenceAssumption
  <2>4. \A v \in Workers : at'[v] = "idle"
    BY <1>1, <1>2 DEF DeployInv, TypeOK, AloneInv, Idle
  <2> QED BY <1>1, <1>2, <2>3, <2>4 DEF LastInv, Idle, Exists, Served
<1>3. CASE ~alone[w]
  BY <1>1, <1>3 DEF LastInv
<1> QED BY <1>2, <1>3

LEMMA LastStep ==
  ASSUME DeployInv, [Next]_deployVars
  PROVE  LastInv'
<1>0. LastInv
  BY DEF DeployInv
<1>1. ASSUME NEW w \in Workers, GitDeployment(w) PROVE LastInv'
  <2>1. CASE DeployGit(w)
    BY <2>1, LastBegins DEF DeployGit
  <2>2. CASE Record(w) \/ Stat(w) \/ EmptyDir(w) \/ CloneBegins(w) \/ CloneEnds(w)
    BY <1>0, <2>2, LastWorks
       DEF Record, Stat, EmptyDir, CloneBegins, CloneEnds, Fails, Goto, history, Idle
  <2>3. CASE FetchOrigin(w) \/ ResetHard(w) \/ Head(w) \/ Build(w) \/ StoreRoot(w) \/ Tell(w)
    BY <1>0, <2>3, LastWorks
       DEF FetchOrigin, ResetHard, Head, Build, StoreRoot, Tell, Fails, Goto, history, Idle
  <2> QED BY <1>1, <2>1, <2>2, <2>3, LastFinish DEF GitDeployment
<1>2. ASSUME NEW w \in Workers, Connection(w) PROVE LastInv'
  <2>1. ASSUME NEW r, NEW b, AskConnect(w, r, b) PROVE LastInv'
    BY <2>1, LastBegins DEF AskConnect
  <2>2. ASSUME NEW b, AskCreateRepo(w, b) PROVE LastInv'
    BY <2>2, LastBegins DEF AskCreateRepo
  <2>3. CASE AskDisconnect(w)
    BY <2>3, LastBegins DEF AskDisconnect
  <2>4. CASE DisconnectGit(w) \/ Seed(w) \/ SeedPush(w) \/ ConnectGit(w) \/ ReadSite(w)
    BY <1>0, <2>4, LastWorks
       DEF DisconnectGit, Seed, SeedPush, ConnectGit, ReadSite, Ends, Goto, history, Idle
  <2> QED BY <1>2, <2>1, <2>2, <2>3, <2>4 DEF Connection
<1>3. ASSUME NEW w \in Workers, ZipDeployment(w) PROVE LastInv'
  <2>1. ASSUME NEW a, DeployZip(w, a) PROVE LastInv'
    BY <2>1, LastBegins DEF DeployZip
  <2>2. CASE \/ ZipClear(w) \/ Extract(w) \/ RemoveOld(w) \/ Rename(w) \/ Cleanup(w)
             \/ ZipFailed(w)
    BY <1>0, <2>2, LastWorks
       DEF ZipClear, Extract, RemoveOld, Rename, Cleanup, ZipFailed, ZipStep, Ends, Goto, history, Idle
  <2> QED BY <1>3, <2>1, <2>2, LastDeployed DEF ZipDeployment
<1>4. ASSUME NEW w \in Workers, AskEdit(w) \/ Edit(w) PROVE LastInv'
  <2>1. CASE AskEdit(w)
    BY <2>1, LastBegins DEF AskEdit
  <2>2. CASE Edit(w)
    BY <1>0, <2>2, LastWorks DEF Edit, Ends, Idle
  <2> QED BY <1>4, <2>1, <2>2
<1>5. CASE (\E r \in Remotes : Push(r)) \/ UNCHANGED deployVars
  <2>1. UNCHANGED <<main, config, open, pending, at, last>>
    BY <1>5 DEF Push, deployVars, history, disk, siteRow, plane
  <2> QED BY <1>0, <2>1, ServedStays DEF LastInv, Idle, Exists
<1>6. CASE Reload
  <2>1. UNCHANGED <<main, config, at, last>>
    BY <1>6 DEF Reload, history, disk, siteRow
  <2> QED BY <1>0, <1>6, <2>1, ReloadServes DEF LastInv, Idle, Exists
<1>7. CASE Reboot
  BY <1>7 DEF Reboot, LastInv
<1> QED BY <1>1, <1>2, <1>3, <1>4, <1>5, <1>6, <1>7 DEF Next, WorkerStep

-----------------------------------------------------------------------------
(* The inductive invariant, and what follows.                              *)

THEOREM Inductive == Spec => []DeployInv
<1>1. Init => DeployInv
  BY InitType, InitOk, InitRow, InitAlone DEF Init, LastInv, DeployInv
<1>2. DeployInv /\ [Next]_deployVars => DeployInv'
  BY TypeStep, OkStep, RowStep, AloneStep, LastStep, TypedMeans DEF DeployInv
<1> QED BY <1>1, <1>2, PTL DEF Spec

\* What a row that ends in success says was deployed is in the directory when
\* it says so, if nobody else was at work on it.
THEOREM RowsTellTree == Spec => []RowTellsTree
<1>1. DeployInv => RowTellsTree
  <2> SUFFICES ASSUME DeployInv, NEW w \in Workers, at[w] = "finish", job[w].ok, alone[w]
               PROVE  /\ HasGit /\ main.git.head = job[w].commit
                      /\ \A p \in Paths : job[w].commit[p] # NoFile => main.tree[p] = job[w].commit[p]
                      /\ job[w].build => main.dist
    BY DEF RowTellsTree
  <2>1. Fetched(w) /\ (job[w].build => main.dist)
    BY DEF DeployInv, AloneInv, GitPlace
  <2> QED BY <2>1 DEF Fetched, HeadInPlace
<1> QED BY <1>1, Inductive, PTL

\* An upload replaces the site by exactly what is in the archive or leaves it
\* as it was, if nobody else was at work on it and there is a file in it.
THEOREM ZipIsAllOrNothing == Spec => []ZipAllOrNothing
<1>1. DeployInv => ZipAllOrNothing
  <2> SUFFICES ASSUME DeployInv, NEW w \in Workers, alone[w], job[w].archive # NoArchive
               PROVE  /\ at[w] = "notify" =>
                           main = [EmptyDirectory EXCEPT !.tree = Unpacked(job[w].archive)]
                      /\ at[w] = "failed" /\ Holds[job[w].archive] # {} => main = before[w]
    BY DEF ZipAllOrNothing
  <2>1. ZipPlace(w) /\ OkOf(at[w], job[w])
    BY DEF DeployInv, AloneInv, OkInv
  <2> QED BY <2>1 DEF ZipPlace, OkOf
<1> QED BY <1>1, Inductive, PTL

\* After a deployment that succeeded, alone, the data plane has open the very
\* directory that was deployed as soon as it has reloaded.
THEOREM WhatIsDeployedIsServed == Spec => []DeployedIsServed
<1>1. DeployInv => DeployedIsServed
  <2> SUFFICES ASSUME DeployInv, Quiet, last # "none", config = "dist" => last = "dist"
               PROVE  open = last
    BY DEF DeployedIsServed
  <2>1. Exists /\ Served /\ (last = "dist" => main.dist /\ config = "dist")
    BY DEF DeployInv, LastInv
  <2>2. config \in {"none", "dist"} /\ last \in {"main", "dist"}
    BY DEF DeployInv, TypeOK
  <2> QED BY <2>1, <2>2 DEF Quiet, Served, Lookup
<1> QED BY <1>1, Inductive, PTL

===============================================================================
