------------------------------ MODULE SiteDeploy ------------------------------
(***************************************************************************)
(* The files of one managed static site and everything that replaces them: *)
(* uploads of archives, deployments from a Git repository, asked for by    *)
(* the owner or by a webhook, connecting and disconnecting a repository,   *)
(* seeding a new one from the site, and the file editor.  Nothing excludes *)
(* one from another, each is many steps on a directory the data plane has  *)
(* open, and the panel can be killed between any two of them.              *)
(*                                                                         *)
(* A repository is the tree at the head of its branch; a commit is a tree. *)
(***************************************************************************)
EXTENDS Naturals, FiniteSets

CONSTANTS
  Workers,      \* goroutines: API handlers and the deployments they start
  Paths,        \* files a site may have
  Index,        \* the one a placeholder is written to
  Repos,        \* repositories of others
  Own,          \* the repository made from the site
  Archives,     \* zip archives
  Holds,        \* the paths in each archive
  MaxCalls,     \* bound: requests in all, the creation from a repository included
  MaxPushes,    \* bound: pushes to repositories
  MaxReboots,   \* bound: restarts of the panel
  NoFile, NoRepo, NoDir, NoGit, NoArchive

ASSUME DeployAssumption ==
  /\ Index \in Paths
  /\ Holds \in [Archives -> SUBSET Paths]
  /\ NoArchive \notin Archives /\ NoFile \notin Archives
  /\ Own \notin Repos /\ NoRepo \notin Repos \cup {Own}
  /\ MaxCalls \in Nat \ {0} /\ MaxPushes \in Nat /\ MaxReboots \in Nat

Remotes == Repos \cup {Own}
Trees == [Paths -> Remotes \cup Archives \cup {"panel", NoFile}]
Blank == [p \in Paths |-> NoFile]

\* .git: its origin, if it has one, the commit checked out and the commit last
\* fetched.  A directory: its files, its .git and whether a build's output
\* directory (dist) is in it.
Gits == [origin : Remotes \cup {NoRepo}, head : Trees, fetched : Trees]
Dirs == [tree : Trees, git : Gits \cup {NoGit}, dist : BOOLEAN]
EmptyDirectory == [tree |-> Blank, git |-> NoGit, dist |-> FALSE]

ASSUME AbsenceAssumption == NoGit \notin Gits /\ NoDir \notin Dirs

VARIABLES
  siteRepo, siteBuild,   \* sites: repo_url, and whether there is a build_cmd,
  config,                \*   and the root the config names, if there is one
  rows,                  \* deploys: the status of each row
  main,                  \* <user>/<domain>
  tmp,                   \* <user>/<domain>.deploy-tmp: there iff a file is in it
  remote, made,          \* the repositories, and whether Own exists
  at, job,               \* the goroutines: where they stand, what they work on
  deployStatus,          \* what the panel remembers of the last deployment
  open,                  \* what the data plane has open: the site's directory,
                         \*   its dist, one no longer there, or nothing
  pending,               \* a reload has been signalled
  calls, pushes, reboots,
  alone,                 \* history: nobody else was at work during this call
  before,                \* history: the directory when such a call began
  lost,                  \* history: rows whose goroutine died with the panel
  last                   \* history: the root of the last deployment that
                         \*   succeeded alone, if nothing was asked since

siteRow == <<siteRepo, siteBuild, config>>
disk == <<main, tmp>>
github == <<remote, made>>
plane == <<open, pending>>
bounds == <<calls, pushes, reboots>>
history == <<alone, before, lost, last>>
deployVars == <<siteRepo, siteBuild, config, rows, main, tmp, remote, made, at, job,
                deployStatus, open, pending, calls, pushes, reboots, alone, before,
                lost, last>>

NoJob == [repo |-> NoRepo, build |-> FALSE, row |-> 0, commit |-> Blank,
          archive |-> NoArchive, left |-> {}, ok |-> FALSE]
Jobs == [repo : Remotes \cup {NoRepo}, build : BOOLEAN, row : 0 .. MaxCalls, commit : Trees,
         archive : Archives \cup {NoArchive}, left : SUBSET Paths, ok : BOOLEAN]
RowIds == 1 .. MaxCalls
Deploying == {"record", "stat", "empty", "clone", "checkout", "fetch", "reset", "head",
              "build", "store", "tell", "finish"}
Zipping == {"clear", "extract", "remove", "rename", "cleanup", "notify", "failed"}
Steps == Deploying \cup Zipping \cup {"idle", "connect", "disconnect", "read", "seed", "push",
                                "edit"}

\* A site has just been created: a managed one with a placeholder, or one of a
\* repository, whose first deployment is on its way.
Init ==
  /\ remote = [r \in Remotes |-> IF r = Own THEN Blank ELSE [p \in Paths |-> r]]
  /\ made = FALSE /\ config = "none" /\ tmp = Blank /\ siteBuild \in BOOLEAN
  /\ rows = [i \in RowIds |-> "none"]
  /\ deployStatus = "none" /\ pushes = 0 /\ reboots = 0
  /\ before = [w \in Workers |-> NoDir]
  /\ lost = {} /\ last = "none" /\ pending = TRUE /\ open = "none"
  /\ \/ /\ siteRepo = NoRepo /\ ~siteBuild /\ calls = 0
        /\ main = [EmptyDirectory EXCEPT !.tree = [Blank EXCEPT ![Index] = "panel"]]
        /\ at = [w \in Workers |-> "idle"] /\ job = [w \in Workers |-> NoJob]
     \/ /\ siteRepo \in Repos /\ main = NoDir /\ calls = 1
        /\ \E w \in Workers :
             /\ at = [v \in Workers |-> IF v = w THEN "record" ELSE "idle"]
             /\ job = [v \in Workers |->
                         IF v = w THEN [NoJob EXCEPT !.repo = siteRepo, !.build = siteBuild]
                                  ELSE NoJob]
  /\ alone = [w \in Workers |-> at[w] # "idle"]

-----------------------------------------------------------------------------
(* The data plane.  It opens directories when it builds its table and keeps  *)
(* them open; a reload that finds none leaves the site out.                  *)

Exists == main # NoDir
Lookup ==
  IF ~Exists THEN "none"
  ELSE IF config = "none" THEN "main"
  ELSE IF main.dist THEN "dist" ELSE "none"

Reload ==
  /\ pending
  /\ pending' = FALSE
  /\ open' = Lookup
  /\ UNCHANGED <<siteRow, rows, disk, github, at, job, deployStatus, bounds, history>>

NotifyReload == pending' = TRUE

\* What becomes of the open directory when the site's directory, or the dist in
\* it, is removed.
DirGone == open' = IF open = "none" THEN "none" ELSE "stale"
DistGone == open' = IF open = "dist" THEN "stale" ELSE open

-----------------------------------------------------------------------------
(* Goroutines.                                                             *)

Idle(w) == at[w] = "idle"

\* A request is taken by an idle goroutine.
Begin(w, step, work) ==
  /\ Idle(w) /\ calls < MaxCalls
  /\ calls' = calls + 1
  /\ at' = [at EXCEPT ![w] = step]
  /\ job' = [job EXCEPT ![w] = work]
  /\ IF \A v \in Workers : Idle(v)
     THEN alone' = [alone EXCEPT ![w] = TRUE] /\ before' = [before EXCEPT ![w] = main]
     ELSE alone' = [v \in Workers |-> FALSE] /\ before' = [v \in Workers |-> NoDir]
  /\ last' = "none"
  /\ UNCHANGED <<pushes, reboots, lost>>

Goto(w, step) ==
  /\ at' = [at EXCEPT ![w] = step]
  /\ UNCHANGED <<bounds, history>>

Answers(w) ==
  /\ at' = [at EXCEPT ![w] = "idle"]
  /\ job' = [job EXCEPT ![w] = NoJob]
  /\ before' = [before EXCEPT ![w] = NoDir]
  /\ alone' = [alone EXCEPT ![w] = FALSE]
  /\ UNCHANGED <<lost, bounds>>

-----------------------------------------------------------------------------
(* deploySiteGit: a goroutine of its own, on a copy of the site's record.    *)

\* Whoever asks (the owner or a webhook) has read the record.
DeployGit(w) ==
  /\ siteRepo # NoRepo
  /\ Begin(w, "record", [NoJob EXCEPT !.repo = siteRepo, !.build = siteBuild])
  /\ UNCHANGED <<siteRow, rows, disk, github, deployStatus, plane>>

\* The row is the next one; an insert that fails leaves the deployment without.
Record(w) ==
  /\ at[w] = "record"
  /\ deployStatus' = "building"
  /\ \/ \E i \in RowIds :
          /\ rows[i] = "none" /\ \A k \in 1 .. i - 1 : rows[k] # "none"
          /\ rows' = [rows EXCEPT ![i] = "building"]
          /\ job' = [job EXCEPT ![w] = [@ EXCEPT !.row = i]]
     \/ UNCHANGED <<rows, job>>
  /\ Goto(w, "stat")
  /\ UNCHANGED <<siteRow, disk, github, plane>>

\* A failure that leaves deploySiteGit without the deferred FinishDeploy.
FailsForGood(w) ==
  /\ deployStatus' = "failed"
  /\ Goto(w, "idle")
  /\ UNCHANGED <<siteRow, rows, github, job, pending>>

Fails(w) ==
  /\ deployStatus' = "failed"
  /\ Goto(w, "finish")
  /\ UNCHANGED <<siteRow, rows, github, job, pending>>

HasGit == Exists /\ main.git # NoGit
HasBranch == HasGit /\ main.git.origin # NoRepo /\ remote[main.git.origin] # Blank

Stat(w) ==
  /\ at[w] = "stat"
  /\ Goto(w, IF HasGit THEN "fetch" ELSE "empty")
  /\ UNCHANGED <<siteRow, rows, disk, github, job, deployStatus, plane>>

EmptyDir(w) ==
  /\ at[w] = "empty"
  /\ \/ /\ main' = EmptyDirectory
        /\ DistGone
        /\ Goto(w, "clone")
        /\ UNCHANGED <<siteRow, rows, tmp, github, job, deployStatus, pending>>
     \/ Fails(w) /\ UNCHANGED <<disk, open>>

\* git clone into a directory that must be empty; .git is there before the
\* files are.
CloneBegins(w) ==
  /\ at[w] = "clone"
  /\ \/ /\ main = EmptyDirectory /\ job[w].repo # NoRepo
        /\ main' = [main EXCEPT !.git = [origin |-> job[w].repo, head |-> Blank, fetched |-> Blank]]
        /\ Goto(w, "checkout")
        /\ UNCHANGED <<siteRow, rows, tmp, github, job, deployStatus, plane>>
     \/ Fails(w) /\ UNCHANGED <<disk, open>>

\* A reset that is not hard: the head moves, the files stay.
CheckedOutSoft(commit) == [main EXCEPT !.git = [@ EXCEPT !.head = commit]]

\* The files of a commit replace those of the last one; other files stay.
CheckedOut(commit) ==
  [main EXCEPT !.tree = [p \in Paths |->
                           IF commit[p] # NoFile THEN commit[p]
                           ELSE IF main.git.head[p] # NoFile THEN NoFile ELSE main.tree[p]],
               !.git = [@ EXCEPT !.head = commit]]

\* A clone that fails takes away what it made, the contents of the directory.
CloneEnds(w) ==
  /\ at[w] = "checkout"
  /\ \/ /\ HasBranch
        /\ main' = CheckedOut(remote[main.git.origin])
        /\ Goto(w, "head")
        /\ UNCHANGED <<siteRow, rows, tmp, github, job, deployStatus, plane>>
     \/ /\ main' = IF Exists THEN EmptyDirectory ELSE NoDir
        /\ DistGone
        /\ Fails(w) /\ UNCHANGED tmp

\* git fetch origin: from where the directory was cloned, whatever the URL is.
FetchOrigin(w) ==
  /\ at[w] = "fetch"
  /\ \/ /\ HasBranch
        /\ main' = [main EXCEPT !.git = [@ EXCEPT !.fetched = remote[main.git.origin]]]
        /\ Goto(w, "reset")
        /\ UNCHANGED <<siteRow, rows, tmp, github, job, deployStatus, plane>>
     \/ Fails(w) /\ UNCHANGED <<disk, open>>

ResetHard(w) ==
  /\ at[w] = "reset"
  /\ \/ /\ HasGit /\ main.git.fetched # Blank
        /\ main' = CheckedOut(main.git.fetched)
        /\ Goto(w, "head")
        /\ UNCHANGED <<siteRow, rows, tmp, github, job, deployStatus, plane>>
     \/ Fails(w) /\ UNCHANGED <<disk, open>>

Head(w) ==
  /\ at[w] = "head"
  /\ job' = [job EXCEPT ![w] = [@ EXCEPT !.commit = IF HasGit THEN main.git.head ELSE Blank]]
  /\ Goto(w, "build")
  /\ UNCHANGED <<siteRow, rows, disk, github, deployStatus, plane>>

\* With a build command, or with the steps detected in the files: either may
\* fail.  A build that makes dist writes it anew or in place, and one that fails
\* may have removed it.
Build(w) ==
  /\ at[w] = "build"
  /\ \/ /\ IF job[w].build
           THEN /\ Exists
                /\ main' = [main EXCEPT !.dist = TRUE]
                /\ DistGone \/ UNCHANGED open
           ELSE UNCHANGED <<main, open>>
        /\ Goto(w, "store")
        /\ UNCHANGED <<siteRow, rows, tmp, github, job, deployStatus, pending>>
     \/ /\ Fails(w)
        /\ \/ /\ Exists /\ job[w].build
              /\ main' = [main EXCEPT !.dist = FALSE]
              /\ DistGone
           \/ UNCHANGED <<main, open>>
        /\ UNCHANGED tmp

\* A site with a build command gets a config that serves dist.  One without
\* gets its root_path set, which is where it was created.
StoreRoot(w) ==
  /\ at[w] = "store"
  /\ config' = IF job[w].build THEN "dist" ELSE config
  /\ Goto(w, "tell")
  /\ UNCHANGED <<siteRepo, siteBuild, rows, disk, github, job, deployStatus, plane>>

Tell(w) ==
  /\ at[w] = "tell"
  /\ deployStatus' = "success"
  /\ job' = [job EXCEPT ![w] = [@ EXCEPT !.ok = TRUE]]
  /\ NotifyReload
  /\ Goto(w, "finish")
  /\ UNCHANGED <<siteRow, rows, disk, github, open>>

\* The deferred FinishDeploy, on every path.
Finish(w) ==
  /\ at[w] = "finish"
  /\ rows' = IF job[w].row = 0 THEN rows
             ELSE [rows EXCEPT ![job[w].row] = IF job[w].ok THEN "success" ELSE "failed"]
  /\ last' = IF ~job[w].ok \/ ~alone[w] THEN "none"
             ELSE IF job[w].build THEN "dist" ELSE "main"
  /\ Answers(w)
  /\ UNCHANGED <<siteRow, disk, github, deployStatus, plane>>

GitDeployment(w) ==
  \/ DeployGit(w) \/ Record(w) \/ Stat(w) \/ EmptyDir(w) \/ CloneBegins(w) \/ CloneEnds(w)
  \/ FetchOrigin(w) \/ ResetHard(w) \/ Head(w) \/ Build(w) \/ StoreRoot(w) \/ Tell(w)
  \/ Finish(w)

-----------------------------------------------------------------------------
(* Connecting and disconnecting a repository.                              *)

ConnectGit(w) ==
  /\ at[w] = "connect"
  /\ siteRepo' = job[w].repo /\ siteBuild' = job[w].build
  /\ Goto(w, "read")
  /\ UNCHANGED <<config, rows, disk, github, job, deployStatus, plane>>

\* The record is read again, and may be another caller's by now.
ReadSite(w) ==
  /\ at[w] = "read"
  /\ job' = [job EXCEPT ![w] = [@ EXCEPT !.repo = siteRepo, !.build = siteBuild]]
  /\ Goto(w, "record")
  /\ UNCHANGED <<siteRow, rows, disk, github, deployStatus, plane>>

AskConnect(w, r, b) ==
  /\ Begin(w, "connect", [NoJob EXCEPT !.repo = r, !.build = b])
  /\ UNCHANGED <<siteRow, rows, disk, github, deployStatus, plane>>

AskDisconnect(w) ==
  /\ Begin(w, "disconnect", NoJob)
  /\ UNCHANGED <<siteRow, rows, disk, github, deployStatus, plane>>

DisconnectGit(w) ==
  /\ at[w] = "disconnect"
  /\ siteRepo' = NoRepo /\ siteBuild' = FALSE
  /\ Answers(w)
  /\ UNCHANGED <<config, rows, disk, github, deployStatus, plane, last>>

\* handleCreateRepoForSite: a new repository gets the site as its first commit.
AskCreateRepo(w, b) ==
  /\ siteRepo = NoRepo /\ ~made
  /\ made' = TRUE
  /\ Begin(w, "seed", [NoJob EXCEPT !.repo = Own, !.build = b])
  /\ UNCHANGED <<siteRow, rows, disk, remote, deployStatus, plane>>

Ends(w) ==
  /\ Answers(w)
  /\ UNCHANGED <<siteRow, rows, github, deployStatus, plane, last>>

\* The old .git is removed, and a new one made by four commands: one that fails,
\* or the panel being killed, leaves it without a commit or an origin.
Seed(w) ==
  /\ at[w] = "seed"
  /\ \/ /\ Exists
        /\ main' = [main EXCEPT !.git = [origin |-> Own, head |-> main.tree, fetched |-> Blank]]
        /\ Goto(w, "push")
        /\ UNCHANGED <<siteRow, rows, tmp, github, job, deployStatus, plane>>
     \/ /\ \/ main' = IF Exists THEN [main EXCEPT !.git = NoGit] ELSE NoDir
           \/ /\ Exists
              /\ \E commit \in {Blank, main.tree} :
                   main' = [main EXCEPT !.git = [origin |-> NoRepo, head |-> commit, fetched |-> Blank]]
        /\ Ends(w) /\ UNCHANGED tmp

SeedPush(w) ==
  /\ at[w] = "push"
  /\ \/ /\ HasGit /\ main.git.origin # NoRepo
        /\ remote' = [remote EXCEPT ![main.git.origin] = main.git.head]
        /\ Goto(w, "connect")
        /\ UNCHANGED <<siteRow, rows, disk, made, job, deployStatus, plane>>
     \/ Ends(w) /\ UNCHANGED disk

Connection(w) ==
  \/ \E r \in Repos \cup {Own}, b \in BOOLEAN : (r = Own => made) /\ AskConnect(w, r, b)
  \/ \E b \in BOOLEAN : AskCreateRepo(w, b)
  \/ AskDisconnect(w) \/ DisconnectGit(w) \/ Seed(w) \/ SeedPush(w) \/ ConnectGit(w) \/ ReadSite(w)

-----------------------------------------------------------------------------
(* handleDeploy and SiteFS.DeployZip.                                      *)

DeployZip(w, a) ==
  /\ Begin(w, "clear", [NoJob EXCEPT !.archive = a, !.left = Holds[a]])
  /\ UNCHANGED <<siteRow, rows, disk, github, deployStatus, plane>>

ZipStep(w, step) ==
  /\ Goto(w, step)
  /\ UNCHANGED <<siteRow, rows, github, deployStatus, pending>>

\* An extraction over what is left of an earlier one.
ZipClearNot(w) ==
  /\ at[w] = "clear"
  /\ ZipStep(w, "extract") /\ UNCHANGED <<disk, job, open>>

ZipClear(w) ==
  /\ at[w] = "clear"
  /\ tmp' = Blank
  /\ ZipStep(w, "extract") /\ UNCHANGED <<main, job, open>>

Extract(w) ==
  /\ at[w] = "extract"
  /\ \/ \E p \in job[w].left :
          /\ tmp' = [tmp EXCEPT ![p] = job[w].archive]
          /\ job' = [job EXCEPT ![w] = [@ EXCEPT !.left = job[w].left \ {p}]]
          /\ ZipStep(w, "extract") /\ UNCHANGED <<main, open>>
     \/ /\ job[w].left = {}
        /\ ZipStep(w, "remove") /\ UNCHANGED <<disk, job, open>>
     \/ /\ job[w].left # {}       \* a broken entry, or the budget is exceeded
        /\ ZipStep(w, "cleanup") /\ UNCHANGED <<disk, job, open>>

RemoveOld(w) ==
  /\ at[w] = "remove"
  /\ main' = NoDir
  /\ DirGone
  /\ ZipStep(w, "rename") /\ UNCHANGED <<tmp, job>>

\* A directory is renamed over nothing, or over an empty one.
Rename(w) ==
  /\ at[w] = "rename"
  /\ IF tmp # Blank /\ main \in {NoDir, EmptyDirectory}
     THEN /\ main' = [EmptyDirectory EXCEPT !.tree = tmp]
          /\ tmp' = Blank
          /\ job' = [job EXCEPT ![w] = [@ EXCEPT !.ok = TRUE]]
          /\ IF Exists THEN DirGone ELSE UNCHANGED open
     ELSE UNCHANGED <<disk, job, open>>
  /\ ZipStep(w, "cleanup")

\* The deferred RemoveAll, whoever the directory belongs to by now.
Cleanup(w) ==
  /\ at[w] = "cleanup"
  /\ tmp' = Blank
  /\ ZipStep(w, IF job[w].ok THEN "notify" ELSE "failed") /\ UNCHANGED <<main, job, open>>

\* A deployment that counts on the data plane to see the new directory.
DeployedUnsaid(w) ==
  /\ at[w] = "notify"
  /\ last' = IF alone[w] THEN "main" ELSE "none"
  /\ Answers(w)
  /\ UNCHANGED <<siteRow, rows, disk, github, deployStatus, plane>>

Deployed(w) ==
  /\ at[w] = "notify"
  /\ NotifyReload
  /\ last' = IF alone[w] THEN "main" ELSE "none"
  /\ Answers(w)
  /\ UNCHANGED <<siteRow, rows, disk, github, deployStatus, open>>

ZipFailed(w) == at[w] = "failed" /\ Ends(w) /\ UNCHANGED disk

ZipDeployment(w) ==
  \/ \E a \in Archives : DeployZip(w, a)
  \/ ZipClear(w) \/ Extract(w) \/ RemoveOld(w) \/ Rename(w) \/ Cleanup(w) \/ Deployed(w)
  \/ ZipFailed(w)

-----------------------------------------------------------------------------
(* The editor: refused on a site of a repository, when it is asked.        *)

AskEdit(w) ==
  /\ siteRepo = NoRepo
  /\ Begin(w, "edit", NoJob)
  /\ UNCHANGED <<siteRow, rows, disk, github, deployStatus, plane>>

\* A file or a folder is written, making the directory if it is not there, or
\* a file is deleted.
Edit(w) ==
  /\ at[w] = "edit"
  /\ \/ LET dir == IF Exists THEN main ELSE EmptyDirectory
        IN main' = dir \/ \E p \in Paths : main' = [dir EXCEPT !.tree = [@ EXCEPT ![p] = "panel"]]
     \/ IF Exists THEN \E p \in Paths : main' = [main EXCEPT !.tree = [@ EXCEPT ![p] = NoFile]]
                  ELSE UNCHANGED main
  /\ Ends(w) /\ UNCHANGED tmp

-----------------------------------------------------------------------------

\* Somebody pushes to a repository: its head holds one file, and not the others.
Push(r) ==
  /\ pushes < MaxPushes /\ pushes' = pushes + 1
  /\ r # Own \/ remote[Own] # Blank
  /\ \E p \in Paths : remote' = [remote EXCEPT ![r] = [Blank EXCEPT ![p] = r]]
  /\ UNCHANGED <<siteRow, rows, disk, made, at, job, deployStatus, plane, calls, reboots, history>>

\* The panel is killed: its goroutines and what it remembered are gone.  (With
\* nobody at work that is of no consequence.)
Reboot ==
  /\ \E w \in Workers : ~Idle(w)
  /\ reboots < MaxReboots /\ reboots' = reboots + 1
  /\ at' = [w \in Workers |-> "idle"]
  /\ job' = [w \in Workers |-> NoJob]
  /\ before' = [w \in Workers |-> NoDir] /\ alone' = [w \in Workers |-> FALSE]
  /\ deployStatus' = "none" /\ last' = "none"
  /\ lost' = lost \cup {i \in RowIds : rows[i] = "building"}
  /\ UNCHANGED <<siteRow, rows, disk, github, plane, calls, pushes>>

WorkerStep(w) ==
  \/ GitDeployment(w) \/ Connection(w) \/ ZipDeployment(w) \/ AskEdit(w) \/ Edit(w)

Next ==
  \/ \E w \in Workers : WorkerStep(w)
  \/ \E r \in Remotes : Push(r)
  \/ Reload \/ Reboot

Spec == Init /\ [][Next]_deployVars

-----------------------------------------------------------------------------
(* Properties.                                                             *)

\* Every variable stays in its type.
TypeOK ==
  /\ siteRepo \in Remotes \cup {NoRepo} /\ siteBuild \in BOOLEAN /\ config \in {"none", "dist"}
  /\ rows \in [RowIds -> {"none", "building", "success", "failed"}]
  /\ main \in Dirs \cup {NoDir} /\ tmp \in Trees
  /\ remote \in [Remotes -> Trees] /\ made \in BOOLEAN
  /\ at \in [Workers -> Steps] /\ job \in [Workers -> Jobs]
  /\ deployStatus \in {"none", "building", "success", "failed"}
  /\ open \in {"none", "main", "dist", "stale"} /\ pending \in BOOLEAN
  /\ calls \in 0 .. MaxCalls /\ pushes \in 0 .. MaxPushes /\ reboots \in 0 .. MaxReboots
  /\ alone \in [Workers -> BOOLEAN] /\ before \in [Workers -> Dirs \cup {NoDir}]
  /\ lost \subseteq RowIds /\ last \in {"none", "main", "dist"}

\* Neither the history of deployments nor the status the panel remembers shows
\* one that is being built and that nobody is working on: a row
\* that is being built has one goroutine, which will close it on whatever path
\* it leaves deploySiteGit, or had one that died with the panel.
RowsClose ==
  /\ deployStatus = "building" => \E w \in Workers : at[w] \in Deploying
  /\ \A i \in RowIds :
       rows[i] = "building" =>
         \/ i \in lost
         \/ \E w \in Workers :
              /\ at[w] \in Deploying /\ job[w].row = i
              /\ \A v \in Workers \ {w} : job[v].row # i

\* What a row that ends in success says was deployed is in the directory when
\* it says so: .git is at that commit, none of its files is missing or an old
\* one, and there is a dist if one was to be built; whatever the directory held
\* before, crashes and half-finished deployments included, if nobody else was
\* at work on it.
RowTellsTree ==
  \A w \in Workers :
    at[w] = "finish" /\ job[w].ok /\ alone[w] =>
      /\ HasGit /\ main.git.head = job[w].commit
      /\ \A p \in Paths : job[w].commit[p] # NoFile => main.tree[p] = job[w].commit[p]
      /\ job[w].build => main.dist

Unpacked(a) == [p \in Paths |-> IF p \in Holds[a] THEN a ELSE NoFile]

\* An upload replaces the site by exactly what is in the archive, nothing of
\* an upload that a crash interrupted, or leaves it as it was: if nobody else
\* was at work on it, and for an archive with a file in it.
ZipAllOrNothing ==
  \A w \in Workers :
    alone[w] /\ job[w].archive # NoArchive =>
      /\ at[w] = "notify" =>
           main = [EmptyDirectory EXCEPT !.tree = Unpacked(job[w].archive)]
      /\ at[w] = "failed" /\ Holds[job[w].archive] # {} => main = before[w]

\* After a deployment that succeeded, alone, the data plane has open the very
\* directory that was deployed as soon as it has reloaded, however many
\* directories took the place of one another.  Not so when the site was
\* built once: its config, which names dist, is left in place by
\* deployments without a build.
Quiet == ~pending /\ \A w \in Workers : Idle(w)

DeployedIsServed ==
  Quiet /\ last # "none" /\ (config = "dist" => last = "dist") => open = last

-----------------------------------------------------------------------------
(* The inductive invariant.                                                *)

\* Where a deployment stands tells whether it has come to its good end.
OkOf(step, work) ==
  /\ step \in Zipping => work.archive \in Archives
  /\ work.archive # NoArchive => step \in Zipping /\ work.left \subseteq Holds[work.archive]
  /\ step = "clear" => work.left = Holds[work.archive]
  /\ work.ok => step \in {"finish", "cleanup", "notify"}
  /\ step = "notify" => work.ok

OkInv == \A w \in Workers : OkOf(at[w], job[w])

\* A row that is being built is some goroutine's, and no other's.
RowInv ==
  /\ deployStatus = "building" => \E w \in Workers : at[w] \in Deploying \ {"record", "finish"}
  /\ \A w \in Workers :
       job[w].row # 0 =>
         /\ at[w] \in Deploying \ {"record"} /\ rows[job[w].row] = "building"
         /\ \A v \in Workers \ {w} : job[v].row # job[w].row
  /\ \A i \in RowIds :
       rows[i] = "building" => i \in lost \/ \E w \in Workers : job[w].row = i

HeadInPlace ==
  /\ HasGit
  /\ \A p \in Paths : main.git.head[p] # NoFile => main.tree[p] = main.git.head[p]

Fetched(w) == HeadInPlace /\ main.git.head = job[w].commit
Served == pending \/ open = Lookup

\* What a goroutine that is alone has made of the directory so far.
GitPlace(w) ==
  /\ at[w] = "head" => HeadInPlace
  /\ at[w] \in {"build", "store", "tell"} => Fetched(w)
  /\ at[w] \in {"store", "tell"} => (job[w].build => main.dist)
  /\ at[w] = "tell" => (job[w].build => config = "dist")
  /\ at[w] = "finish" /\ job[w].ok =>
       Fetched(w) /\ Served /\ (job[w].build => main.dist /\ config = "dist")

ZipPlace(w) ==
  /\ at[w] \in {"clear", "extract", "remove"} => main = before[w]
  /\ at[w] = "extract" =>
       tmp = [p \in Paths |-> IF p \in Holds[job[w].archive] \ job[w].left
                              THEN job[w].archive ELSE NoFile]
  /\ at[w] \in {"remove", "rename"} => tmp = Unpacked(job[w].archive)
  /\ at[w] = "rename" => main = NoDir
  /\ at[w] \in {"cleanup", "notify"} /\ job[w].ok =>
       main = [EmptyDirectory EXCEPT !.tree = Unpacked(job[w].archive)]
  /\ at[w] \in {"cleanup", "failed"} /\ ~job[w].ok /\ Holds[job[w].archive] # {} =>
       main = before[w]

AloneInv ==
  \A w \in Workers :
    alone[w] => /\ ~Idle(w) /\ \A v \in Workers \ {w} : Idle(v)
                /\ GitPlace(w) /\ ZipPlace(w)

LastInv ==
  last # "none" =>
    /\ \A w \in Workers : Idle(w)
    /\ Exists /\ Served /\ (last = "dist" => main.dist /\ config = "dist")

DeployInv == TypeOK /\ OkInv /\ RowInv /\ AloneInv /\ LastInv

-----------------------------------------------------------------------------

\* What gitdeploy.go says of Fetch: the directory then holds the latest code
\* of the repository it was given.  So that is where it is from.
DirHoldsRepo ==
  \A w \in Workers :
    at[w] = "finish" /\ job[w].ok /\ alone[w] => HasGit /\ main.git.origin = job[w].repo

===============================================================================
