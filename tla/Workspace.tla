------------------------------ MODULE Workspace ------------------------------
(***************************************************************************)
(* Where the next agent is launched: the registry of repositories, the     *)
(* worktrees of a git repository, and the target AppState has selected.    *)
(*                                                                         *)
(* The UI thread selects, adds, removes and launches; a refresh worker     *)
(* reads registry and worktrees beside it and answers later, tagged with   *)
(* the version it was asked under; a probe of the providers answers        *)
(* without any tag.  The selection is kept in the settings file.           *)
(*                                                                         *)
(* A slot of the UI thread is one step: nothing but the worker and the     *)
(* user's own shell runs beside it.  Each git command of a slot or of the  *)
(* worker may fail or time out.                                            *)
(***************************************************************************)
EXTENDS Naturals, Sequences, FiniteSets

CONSTANTS
  Folders,      \* folders a user can register or a worktree can get
  Top,          \* the checkout a folder lies in, None outside of git
  MainTree,     \* the checkout git calls the main worktree
  Home,         \* the home directory
  Bootstrap,    \* the folder registered at every start
  NewTrees,     \* the names createWorktree tries, in order
  Sessions,
  Providers,
  DefaultProvider,
  None,
  MaxActions,   \* bound: actions of the user
  MaxFaults     \* bound: git commands and workers that fail

ASSUME FolderAssumption ==
  /\ {MainTree, Home, Bootstrap} \subseteq Folders
  /\ None \notin Folders
  /\ Top \in [Folders -> Folders \cup {None}]
  /\ \A f \in Folders : Top[f] # None => Top[Top[f]] = Top[f]
  /\ Top[MainTree] = MainTree
  /\ NewTrees \in Seq({f \in Folders \ {MainTree} : Top[f] = f}) /\ NewTrees # <<>>

ASSUME ProviderAssumption == DefaultProvider \in Providers /\ None \notin Providers

ASSUME BoundAssumption == MaxActions \in Nat /\ MaxFaults \in Nat

VARIABLES
  folders,    \* folders that exist
  linked,     \* checkouts git lists, one of them MainTree
  repos,      \* repos table, the one updated last first
  rows,       \* sessions table
  agents,     \* sessions whose agent runs
  target,     \* what AppState has selected
  saved,      \* what the settings file holds of it
  shown,      \* repositories and worktrees in the left rail
  version,    \* m_refreshContextVersion
  job,        \* the refresh worker and its answer
  again,      \* a refresh waits in the event queue
  provider,   \* m_selectedProviderKey
  probe,      \* the provider the running probe was asked with, or None
  picked,     \* the provider the user picked last (history)
  chosen,     \* the target the user chose last, while it is there (history)
  removed,    \* repositories and worktrees the user removed (history)
  born,       \* repository ids handed out
  actions,    \* actions of the user so far
  faults      \* failures so far

disk  == <<folders, linked>>
table == <<repos, rows, agents>>
view  == <<target, saved, shown>>
probing == <<provider, probe, picked>>
vars == <<disk, table, view, version, job, again, probing, chosen, removed,
          born, actions, faults>>

Ids == 1 .. MaxActions + 2
Trees == {f \in Folders : Top[f] = f}
Repo == [id : Ids, path : Folders, boot : BOOLEAN]
Row == [repo : Ids, dir : Folders, live : BOOLEAN]

(* An id is no folder and no empty text, and the absence of a row is none. *)
ASSUME IdAssumption == (Folders \cup {None}) \cap Ids = {}
ASSUME RowAssumption == None \notin Row

(* repo, tree: empty texts are None; keep: m_preserveEmptyRepoSelection;    *)
(* home: m_launchInHomeDirectory.                                          *)
Target == [repo : Ids \cup {None}, tree : Folders \cup {None}, home : BOOLEAN,
           keep : BOOLEAN]

NoTarget == [repo |-> None, tree |-> None, home |-> FALSE, keep |-> FALSE]

(* RepoWorkspaceSnapshot: main is the path git calls the top level of the  *)
(* registered folder, which is the worktree marked isMain.                 *)
NoWorkspace == [root |-> None, trees |-> {}, main |-> None]

Idle == [pc |-> "idle", version |-> 0, repo |-> None, keep |-> FALSE,
         repos |-> <<>>, workspace |-> NoWorkspace, error |-> FALSE]

---------------------------------------------------------------------------
(* The registry. *)

IdsOf(list) == {list[k].id : k \in DOMAIN list}
FirstOf(list) == IF list = <<>> THEN None ELSE list[1].id

(* repositoryById, repositoryByPath. *)
RepoIn(list, id) == CHOOSE r \in {list[k] : k \in DOMAIN list} : r.id = id
Registered(id) == id \in IdsOf(repos)
At(path) == {k \in DOMAIN repos : repos[k].path = path}

(* The list without the repository of that id, which is there once.        *)
Without(list, id) ==
  IF id \notin IdsOf(list) THEN list
  ELSE LET k == CHOOSE k \in DOMAIN list : list[k].id = id
       IN SubSeq(list, 1, k - 1) \o SubSeq(list, k + 1, Len(list))

InsertRepository(path, boot, id) ==
  /\ born < MaxActions + 2 /\ id = born + 1 /\ born' = id
  /\ repos' = <<[id |-> id, path |-> path, boot |-> boot]>> \o repos

(* ensureRepository: a path that is there is renamed if it has to be, which *)
(* makes it the one updated last; a new one comes first as well.  id is    *)
(* the row that stands for path afterwards.                                *)
EnsureRepository(path, boot, id) ==
  IF At(path) = {} THEN InsertRepository(path, boot, id)
  ELSE
    /\ \E k \in At(path) :
         /\ id = repos[k].id
         /\ repos' = IF repos[k].boot = boot THEN repos
                     ELSE <<[repos[k] EXCEPT !.boot = boot]>> \o Without(repos, id)
    /\ UNCHANGED born

---------------------------------------------------------------------------
(* git and the worktree manager.  broken is the set of git commands that   *)
(* fail: "context" for the one that asks for the top level, "list" for the *)
(* listing.                                                                *)

(* resolveGitContext, worktreeFromPorcelainBlock: the top level git names. *)
InGit(path) == path \in folders /\ Top[path] # None

(* ensureRepoLocalState, listWorktrees, loadWorkspace: a folder that is not *)
(* there, or that git does not know, is its own root and has no worktrees. *)
LoadWorkspace(list, id, broken) ==
  IF id \notin IdsOf(list) THEN NoWorkspace
  ELSE LET path == RepoIn(list, id).path IN
       IF ~InGit(path) THEN [NoWorkspace EXCEPT !.root = path]
       ELSE [root  |-> IF "context" \in broken THEN path ELSE Top[path],
             trees |-> IF "list" \in broken THEN {} ELSE linked,
             main  |-> Top[path]]

(* defaultWorktreePath: the first name that is free. *)
FreeNames == {k \in DOMAIN NewTrees :
                /\ NewTrees[k] \notin folders
                /\ \A j \in 1 .. k - 1 : NewTrees[j] \in folders}

(* One failure: for a while git does not answer, be it to one or to both.  *)
Breaking(broken) ==
  IF broken = {} THEN UNCHANGED faults
  ELSE faults < MaxFaults /\ faults' = faults + 1

---------------------------------------------------------------------------
(* The selection. *)

(* applyWorkspaceSnapshot, setSelectedWorktreePathInternal: the selected   *)
(* worktree stays if it is listed, else the main one is taken, else the    *)
(* root.  A selection that moves to a folder ends launching at home.       *)
Follow(tgt, ws) ==
  LET next == IF tgt.tree \in ws.trees THEN tgt.tree
              ELSE IF ws.main \in ws.trees THEN ws.main ELSE ws.root
  IN [tgt EXCEPT !.tree = next, !.home = @ /\ next \in {tgt.tree, None}]

Display(list, ws) == [repos |-> list, trees |-> ws.trees, root |-> ws.root]

(* persistSelectionState ends every slot that changes the selection. *)
Persist(tgt) == target' = tgt /\ saved' = tgt

(* reload: the registry is read again; a selection that is gone falls to   *)
(* the first repository, an empty one as well unless it is to be kept.     *)
Reselected(list, tgt) ==
  IF tgt.repo \in IdsOf(list) \/ (tgt.repo = None /\ tgt.keep) THEN tgt
  ELSE [tgt EXCEPT !.repo = FirstOf(list)]

Reloaded(list, tgt, broken) ==
  LET to == Reselected(list, tgt)
      ws == LoadWorkspace(list, to.repo, broken)
  IN [target |-> Follow(to, ws), workspace |-> ws]

(* setSelectedRepoId with an id that is not empty. *)
Selecting(tgt, id) == [tgt EXCEPT !.repo = id, !.keep = FALSE, !.home = FALSE]

(* What a step that follows a failed git command shows is not the user's   *)
(* choice any more.                                                        *)
Choose(tgt, broken) == chosen' = IF broken = {} THEN tgt ELSE None
Keep(broken) == chosen' = IF broken = {} THEN chosen ELSE None

(* refreshProviderCatalogAsync: one probe at a time, less than 30 seconds   *)
(* after the last one only if forced.                                      *)
Probe == probe' = IF probe = None THEN provider ELSE probe

Broken == SUBSET {"context", "list"}
Act == actions < MaxActions /\ actions' = actions + 1

---------------------------------------------------------------------------
(* Sessions. *)

IsLive(s) == rows[s] # None /\ rows[s].live

(* hasActiveSessionForRepository, hasActiveSessionForWorktree read the     *)
(* states again before they look.  Noticed(seen): the ends it sees; one    *)
(* may be missed when tmux does not answer or the exit is held back.       *)
Noticed(seen) ==
  [s \in Sessions |-> IF s \in seen THEN [rows[s] EXCEPT !.live = FALSE] ELSE rows[s]]

Ended == {s \in Sessions : IsLive(s) /\ s \notin agents}

HasActiveSessionInFolder(now, id) ==
  \E s \in Sessions : /\ now[s] # None /\ now[s].live
                      /\ now[s].dir = RepoIn(repos, id).path

HasActiveSessionForRepository(now, id) ==
  \E s \in Sessions : now[s] # None /\ now[s].live /\ now[s].repo = id

HasActiveSessionForWorktreeOfRepo(now, tree) ==
  \E s \in Sessions : now[s] # None /\ now[s].live /\ now[s].dir = tree
                        /\ now[s].repo = target.repo

HasActiveSessionForWorktree(now, tree) ==
  \E s \in Sessions : now[s] # None /\ now[s].live /\ now[s].dir = tree

(* launchSelectedRepoSession, launchSession: an empty folder falls back to *)
(* the path of the repository.                                             *)
Owner == IF target.home /\ target.repo = None THEN FirstOf(shown.repos) ELSE target.repo

LaunchFolder ==
  IF target.home THEN Home
  ELSE IF target.tree # None THEN target.tree
  ELSE IF shown.root # None THEN shown.root
  ELSE RepoIn(repos, Owner).path

Launch(s) ==
  /\ Act
  /\ rows[s] = None /\ s \notin agents
  /\ Registered(Owner)
  /\ rows' = [rows EXCEPT ![s] = [repo |-> Owner, dir |-> LaunchFolder, live |-> TRUE]]
  /\ agents' = agents \cup {s}
  /\ version' = version + 1 /\ again' = TRUE
  /\ UNCHANGED <<disk, repos, view, job, probing, chosen, removed, born, faults>>

(* resumeSession looks for the folder first. *)
Resume(s) ==
  /\ Act
  /\ rows[s] # None /\ ~rows[s].live /\ rows[s].dir \in folders
  /\ rows' = [rows EXCEPT ![s].live = TRUE]
  /\ agents' = agents \cup {s}
  /\ version' = version + 1 /\ again' = TRUE
  /\ UNCHANGED <<disk, repos, view, job, probing, chosen, removed, born, faults>>

Terminate(s) ==
  /\ Act
  /\ IsLive(s)
  /\ rows' = Noticed({s})
  /\ agents' = agents \ {s}
  /\ version' = version + 1 /\ again' = TRUE
  /\ UNCHANGED <<disk, repos, view, job, probing, chosen, removed, born, faults>>

(* The agent ends by itself. *)
AgentEnds(s) ==
  /\ s \in agents
  /\ agents' = agents \ {s}
  /\ UNCHANGED <<disk, repos, rows, view, version, job, again, probing, chosen,
                 removed, born, actions, faults>>

---------------------------------------------------------------------------
(* The slots of the left rail. *)

SelectRepo(id) ==
  /\ Act
  /\ id \in IdsOf(shown.repos) \ {target.repo}
  /\ \E broken \in Broken :
       LET ws  == LoadWorkspace(repos, id, broken)
           tgt == Follow(Selecting(target, id), ws)
       IN /\ Breaking(broken)
          /\ Persist(tgt)
          /\ shown' = Display(shown.repos, ws)
          /\ Choose(tgt, broken)
  /\ version' = version + 1
  /\ UNCHANGED <<disk, table, job, again, probing, removed, born>>

SelectWorktree(tree) ==
  /\ Act
  /\ tree \in shown.trees \ {target.tree}
  /\ LET tgt == [target EXCEPT !.tree = tree, !.home = FALSE]
     IN /\ Persist(tgt)
        /\ chosen' = IF tree \in LoadWorkspace(repos, target.repo, {}).trees
                     THEN tgt ELSE None
  /\ version' = version + 1
  /\ UNCHANGED <<disk, table, shown, job, again, probing, removed, born, faults>>

(* clearSelectedTarget.  With nothing selected it only switches to home,   *)
(* as setLaunchInHomeDirectory does, and does not raise the version.       *)
ClearTargetUnsaved ==
  /\ Act
  /\ target.repo # None \/ target.tree # None
  /\ LET tgt == [repo |-> None, tree |-> None, home |-> TRUE, keep |-> TRUE]
     IN target' = tgt /\ UNCHANGED saved /\ Choose(tgt, {})
  /\ shown' = Display(shown.repos, NoWorkspace)
  /\ version' = version + 1
  /\ UNCHANGED <<disk, table, job, again, probing, removed, born, faults>>

ClearTarget ==
  /\ Act
  /\ target.repo # None \/ target.tree # None
  /\ LET tgt == [repo |-> None, tree |-> None, home |-> TRUE, keep |-> TRUE]
     IN Persist(tgt) /\ Choose(tgt, {})
  /\ shown' = Display(shown.repos, NoWorkspace)
  /\ version' = version + 1
  /\ UNCHANGED <<disk, table, job, again, probing, removed, born, faults>>

(* setLaunchInHomeDirectory does not raise the version.  A home launch     *)
(* chosen while nothing is selected does not last, for the next refresh    *)
(* selects the first repository: it is no choice of its own.               *)
SetLaunchInHome(home) ==
  /\ Act
  /\ target.home # home
  /\ LET tgt == [target EXCEPT !.home = home]
     IN /\ Persist(tgt)
        /\ chosen' = IF chosen = None THEN None ELSE tgt
  /\ UNCHANGED <<disk, table, shown, version, job, again, probing, removed, born,
                 faults>>

(* addRepositoryPath: ensureRepository, reload, setSelectedRepoId.  When   *)
(* reload has come to select the new repository by itself, the version is  *)
(* not raised, and an older refresh may still take it back: not a choice.  *)
AddRepository(path) ==
  /\ Act
  /\ path \in folders
  /\ \E id \in Ids, broken \in Broken :
       /\ EnsureRepository(path, FALSE, id)
       /\ Breaking(broken)
       /\ LET read  == Reloaded(repos', target, {})
              moved == read.target.repo # id
              ws    == LoadWorkspace(repos', id, broken)
              tgt   == IF moved THEN Follow(Selecting(read.target, id), ws)
                       ELSE Reloaded(repos', target, broken).target
          IN /\ Persist(tgt)
             /\ shown' = Display(repos', ws)
             /\ version' = IF moved THEN version + 1 ELSE version
             /\ IF moved THEN Choose(tgt, broken)
                ELSE chosen' = IF target.repo = id /\ broken = {} THEN chosen ELSE None
  /\ Probe
  /\ UNCHANGED <<disk, rows, agents, job, again, provider, picked, removed>>

(* deleteRepository.  The rows of its sessions go with it (ON DELETE       *)
(* CASCADE); that none of them is live was asked just before.              *)
DeleteRepository(id) ==
  /\ Act
  /\ id \in IdsOf(shown.repos)
  /\ \E seen \in SUBSET Ended, broken \in Broken :
       LET now  == Noticed(seen)
           read == Reloaded(Without(repos, id), target, broken)
       IN IF HasActiveSessionForRepository(now, id)
          THEN /\ broken = {}
               /\ rows' = now
               /\ UNCHANGED <<repos, view, version, chosen, removed, faults, probe>>
          ELSE /\ Breaking(broken)
               /\ repos' = Without(repos, id)
               /\ rows' = [s \in Sessions |->
                             IF now[s] # None /\ now[s].repo = id THEN None ELSE now[s]]
               /\ Persist(read.target)
               /\ shown' = Display(repos', read.workspace)
               /\ version' = version + 1
               /\ chosen' = IF target.repo = id \/ broken # {} THEN None ELSE chosen
               /\ removed' = removed \cup {id}
               /\ Probe
  /\ UNCHANGED <<disk, agents, job, again, provider, picked, born>>

(* createWorktree.  Git may do it and yet report a failure, by a timeout or *)
(* because the listing after it fails: then the selection stays.           *)
CreateWorktree ==
  /\ Act
  /\ Registered(target.repo) /\ InGit(RepoIn(repos, target.repo).path)
  /\ \E k \in FreeNames, result \in {"ok", "unreported"}, broken \in Broken :
       LET tree == NewTrees[k]
           ws   == [LoadWorkspace(repos, target.repo, broken) EXCEPT
                      !.trees = IF @ = {} THEN {} ELSE @ \cup {tree}]
           tgt  == [Follow(target, ws) EXCEPT !.tree = tree, !.home = FALSE]
       IN /\ folders' = folders \cup {f \in Folders : Top[f] = tree}
          /\ linked' = linked \cup {tree}
          /\ removed' = removed \ {tree}
          /\ IF result = "ok"
             THEN /\ Breaking(broken)
                  /\ Persist(tgt) /\ Choose(tgt, broken)
                  /\ shown' = Display(shown.repos, ws)
                  /\ version' = version + 1
             ELSE /\ broken = {} /\ Breaking({"list"})
                  /\ UNCHANGED <<view, version, chosen>>
  /\ UNCHANGED <<table, job, again, probing, born>>

(* deleteWorktree.  A checkout that is the top level of the selected       *)
(* repository, or that git calls the main one, is not removed.             *)
GoneWith(tree) == {f \in Folders : Top[f] = tree}

DeleteWorktree(tree) ==
  /\ Act
  /\ target.repo # None /\ tree \in shown.trees
  /\ \E seen \in SUBSET Ended, result \in {"ok", "refused", "unreported"},
        broken \in Broken :
       /\ rows' = Noticed(seen)
       /\ result # "refused" =>
            /\ ~HasActiveSessionForWorktree(rows', tree)
            /\ Registered(target.repo) /\ InGit(RepoIn(repos, target.repo).path)
            /\ tree \in linked \ {MainTree, Top[RepoIn(repos, target.repo).path]}
       /\ IF result = "refused"
          THEN broken = {} /\ UNCHANGED <<disk, view, version, chosen, removed, faults>>
          ELSE /\ folders' = folders \ GoneWith(tree)
               /\ linked' = linked \ {tree}
               /\ IF result = "ok"
                  THEN LET ws  == [LoadWorkspace(repos, target.repo, broken) EXCEPT
                                     !.trees = @ \ {tree}]
                           tgt == Follow(target, ws)
                       IN /\ Breaking(broken)
                          /\ Persist(tgt)
                          /\ shown' = Display(shown.repos, ws)
                          /\ version' = version + 1
                          /\ chosen' = IF target.tree = tree \/ broken # {}
                                       THEN None ELSE chosen
                          /\ removed' = removed \cup {tree}
                  ELSE /\ broken = {} /\ Breaking({"list"})
                       /\ chosen' = None
                       /\ UNCHANGED <<view, version, removed>>
  /\ UNCHANGED <<repos, agents, job, again, probing, born>>

---------------------------------------------------------------------------
(* The refresh worker. *)

Refresh ==
  /\ job.pc = "idle"
  /\ job' = [Idle EXCEPT !.pc = "list", !.version = version, !.repo = target.repo,
                         !.keep = target.keep]
  /\ Probe
  /\ again' = FALSE

(* The refresh key; a refresh that waits in the queue is dropped while one *)
(* is running.                                                             *)
RefreshKey ==
  /\ Refresh
  /\ UNCHANGED <<disk, table, view, version, provider, picked, chosen, removed, born,
                 actions, faults>>

RefreshQueued ==
  /\ again
  /\ IF job.pc = "idle" THEN Refresh ELSE again' = FALSE /\ UNCHANGED <<job, probe>>
  /\ UNCHANGED <<disk, table, view, version, provider, picked, chosen, removed, born,
                 actions, faults>>

(* loadRefreshSnapshot: the registry, then the worktrees and the sessions. *)
ReadRegistry ==
  /\ job.pc = "list"
  /\ LET tgt == Reselected(repos, [NoTarget EXCEPT !.repo = job.repo, !.keep = job.keep])
     IN job' = [job EXCEPT !.pc = "read", !.repos = repos, !.repo = tgt.repo]
  /\ UNCHANGED <<disk, table, view, version, again, probing, chosen, removed, born,
                 actions, faults>>

ReadWorkspace ==
  /\ job.pc = "read"
  /\ \E broken \in Broken, seen \in SUBSET Ended :
       /\ Breaking(broken)
       /\ job' = [job EXCEPT !.pc = "done",
                             !.workspace = LoadWorkspace(repos, job.repo, broken)]
       /\ rows' = Noticed(seen)
       /\ Keep(broken)
  /\ UNCHANGED <<disk, repos, agents, view, version, again, probing, removed, born,
                 actions>>

(* The worker caught an exception. *)
WorkerFails ==
  /\ job.pc \in {"list", "read"}
  /\ faults < MaxFaults /\ faults' = faults + 1
  /\ job' = [job EXCEPT !.pc = "done", !.error = TRUE]
  /\ UNCHANGED <<disk, table, view, version, again, probing, chosen, removed, born,
                 actions>>

AnyAnswer == TRUE

Current == job.version = version

(* The handler of m_refreshWatcher, with applyRefreshSnapshot. *)
Apply(answer) ==
  /\ Persist(Follow([target EXCEPT !.repo = answer.repo], answer.workspace))
  /\ shown' = Display(answer.repos, answer.workspace)

RefreshFinished ==
  /\ job.pc = "done"
  /\ job' = Idle
  /\ again' = (again \/ ~Current)
  /\ IF Current /\ ~job.error THEN Apply(job) ELSE UNCHANGED view
  /\ UNCHANGED <<disk, table, version, probing, chosen, removed, born, actions, faults>>

---------------------------------------------------------------------------
(* The providers: setSelectedProviderKey and applyProviderProbeSnapshot,   *)
(* whose answer has the provider the probe was asked with.  One that finds *)
(* no provider at all is not applied.                                      *)
PickProvider(key) ==
  /\ Act
  /\ key # provider
  /\ provider' = key /\ picked' = key
  /\ version' = version + 1
  /\ UNCHANGED <<disk, table, view, job, again, probe, chosen, removed, born, faults>>

ProbeAnswered ==
  /\ probe # None
  /\ provider' \in {probe, provider}
  /\ probe' = None
  /\ UNCHANGED <<disk, table, view, version, job, again, picked, chosen, removed, born,
                 actions, faults>>

---------------------------------------------------------------------------
(* Outside of Hydra. *)

(* The user removes a worktree nothing runs in, by git or with the folder  *)
(* alone, which git then goes on listing.                                  *)
RemovedOutside(tree) ==
  /\ Act
  /\ tree \in (linked \cap folders) \ {MainTree}
  /\ \A s \in agents : Top[rows[s].dir] # tree
  /\ folders' = folders \ GoneWith(tree)
  /\ linked' \in {linked, linked \ {tree}}
  /\ chosen' = None
  /\ UNCHANGED <<table, view, version, job, again, probing, removed, born, faults>>

(* The app ends, by itself or not, and starts again: the selection comes   *)
(* from the settings file, the bootstrap folder is registered once more,   *)
(* and the agents left behind are ended.                                   *)
Restart ==
  /\ Act
  /\ IF At(Bootstrap) = {} THEN \E id \in Ids : EnsureRepository(Bootstrap, TRUE, id)
     ELSE UNCHANGED <<repos, born>>
  /\ agents' = {}
  /\ rows' = Noticed({s \in Sessions : IsLive(s)})
  /\ target' = saved
  /\ shown' = Display(<<>>, NoWorkspace)
  /\ version' = 0 /\ job' = Idle /\ again' = TRUE
  /\ provider' = picked /\ probe' = picked
  /\ UNCHANGED <<disk, saved, picked, chosen, removed, faults>>

---------------------------------------------------------------------------
(* The first start, or one with what an earlier run has left.              *)
Init ==
  /\ linked \in {{MainTree}, {MainTree, NewTrees[1]}}
  /\ folders = {f \in Folders : Top[f] = None \/ Top[f] \in linked}
  /\ \E earlier \in SUBSET (folders \ {Bootstrap}) :
       /\ Cardinality(earlier) <= 1
       /\ repos = <<[id |-> 1, path |-> Bootstrap, boot |-> TRUE]>>
                    \o (IF earlier = {} THEN <<>>
                        ELSE <<[id |-> 2, path |-> CHOOSE f \in earlier : TRUE,
                                boot |-> FALSE]>>)
       /\ born = Len(repos)
  /\ target \in {NoTarget} \cup
       {Follow([NoTarget EXCEPT !.repo = id], LoadWorkspace(repos, id, {})) :
          id \in IdsOf(repos)}
  /\ saved = target
  /\ rows = [s \in Sessions |-> None] /\ agents = {}
  /\ shown = Display(<<>>, NoWorkspace)
  /\ version = 0 /\ job = Idle /\ again = TRUE
  /\ provider = DefaultProvider /\ picked = DefaultProvider /\ probe = DefaultProvider
  /\ chosen = None /\ removed = {} /\ actions = 0 /\ faults = 0

SessionStep ==
  \E s \in Sessions : Launch(s) \/ Resume(s) \/ Terminate(s) \/ AgentEnds(s)

RailStep ==
  \/ \E id \in Ids : SelectRepo(id) \/ DeleteRepository(id)
  \/ \E f \in Folders : \/ SelectWorktree(f) \/ DeleteWorktree(f) \/ AddRepository(f)
                        \/ RemovedOutside(f)
  \/ ClearTarget \/ CreateWorktree
  \/ \E home \in BOOLEAN : SetLaunchInHome(home)
  \/ \E key \in Providers : PickProvider(key)

WorkerStep ==
  \/ RefreshKey \/ RefreshQueued \/ ReadRegistry \/ ReadWorkspace \/ WorkerFails
  \/ RefreshFinished \/ ProbeAnswered

Next == SessionStep \/ RailStep \/ WorkerStep \/ Restart

Spec == Init /\ [][Next]_vars

---------------------------------------------------------------------------
(* Properties. *)

(* Type correctness; besides, no folder is registered twice, and a live    *)
(* row is one of a registered repository.                                  *)
TypeOK ==
  /\ folders \subseteq Folders /\ linked \subseteq Trees
  /\ repos \in Seq(Repo)
  /\ \A j, k \in DOMAIN repos : repos[j].path = repos[k].path => j = k
  /\ rows \in [Sessions -> {None} \cup Row]
  /\ \A s \in Sessions : rows[s] # None => Registered(rows[s].repo)
  /\ agents \subseteq Sessions
  /\ target \in Target /\ saved \in Target
  /\ shown.repos \in Seq(Repo) /\ shown.trees \subseteq Trees
  /\ job.pc \in {"idle", "list", "read", "done"}
  /\ {provider, picked} \subseteq Providers /\ probe \in Providers \cup {None}
  /\ chosen \in Target \cup {None}

(* No running agent loses its row with its repository: the check before    *)
(* deleteRepository keeps the cascade away from live sessions, whatever    *)
(* worker runs beside it.                                                  *)
AgentsHaveRows == \A s \in agents : IsLive(s)

(* Hydra never removes the folder an agent works in, the worktree another  *)
(* registered repository launched it in included.  An agent whose folder   *)
(* is not the top of its checkout is left out: that is one launched while  *)
(* git did not answer, and the check, which compares paths, misses it.     *)
AgentKeepsItsFolder ==
  [][\A s \in agents \cap agents' :
       /\ rows[s].dir \in folders
       /\ Top[rows[s].dir] \in {rows[s].dir, None}
       => rows[s].dir \in folders']_vars

(* What the user chose to launch in stays selected until he chooses again  *)
(* or it is gone: an older refresh does not undo it, nor does a restart.   *)
(* Not a choice (see chosen): one made while nothing was selected yet, one *)
(* a reload made first, and any after a git command failed.                *)
TargetSticks ==
  chosen # None => /\ <<target.repo, target.tree, target.home>>
                        = <<chosen.repo, chosen.tree, chosen.home>>
                   /\ saved = target

(* A repository or worktree the user removed does not come back into the   *)
(* left rail with a refresh that was under way.                            *)
RemovedStaysGone ==
  removed \cap (IdsOf(shown.repos) \cup shown.trees) = {}

(* README.md:62-64: "Select or add a repo/worktree", "Pick a provider",    *)
(* "Launch a worker session": the session is launched with the provider    *)
(* that was picked.                                                        *)
PickedProviderSticks == provider = picked

=============================================================================
