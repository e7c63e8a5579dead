---------------------------- MODULE WorkspaceProofs ----------------------------
(***************************************************************************)
(* Proofs about Workspace: no running agent loses its row when a           *)
(* repository is deleted, nor its folder when a worktree is; what the user *)
(* removed does not come back into the left rail, and what he chose to     *)
(* launch in stays selected.                                               *)
(*                                                                         *)
(* The invariant has the tables in it and what the selection and the       *)
(* worker's answer hold, because a launch writes a row from the selection. *)
(***************************************************************************)
EXTENDS Workspace, SequenceTheorems, TLAPS

WorkspaceSnapshot == [root : Folders \cup {None}, trees : SUBSET Trees,
                      main : Folders \cup {None}]
Rail == [repos : Seq(Repo), trees : SUBSET Trees, root : Folders \cup {None}]
Job == [pc : {"idle", "list", "read", "done"}, version : Nat,
        repo : Ids \cup {None}, keep : BOOLEAN, repos : Seq(Repo),
        workspace : WorkspaceSnapshot, error : BOOLEAN]

(* The tables: a row is one of a repository that is registered, and a      *)
(* running agent has a live one.                                           *)
TableOK ==
  /\ repos \in Seq(Repo)
  /\ rows \in [Sessions -> {None} \cup Row]
  /\ \A s \in Sessions : rows[s] # None => rows[s].repo \in IdsOf(repos)
  /\ agents \subseteq Sessions
  /\ AgentsHaveRows

(* What the selection, the rail and the worker hold: the folder a launch   *)
(* would take has to be one for the new row to be a row.                   *)
DiskOK == folders \subseteq Folders /\ linked \subseteq Trees
TargetOK == target \in Target /\ saved \in Target
ViewOK == TargetOK /\ shown \in Rail
JobOK == job \in Job /\ version \in Nat

IInv == TableOK /\ DiskOK /\ ViewOK /\ JobOK

-----------------------------------------------------------------------------
(* What the operators return                                               *)

LEMMA TreesAreFolders == Trees \subseteq Folders
BY DEF Trees

LEMMA ElementsTyped ==
  ASSUME NEW l \in Seq(Repo), NEW k \in DOMAIN l
  PROVE  l[k] \in Repo /\ l[k].id \in Ids /\ l[k].path \in Folders
<1>1. l[k] \in Repo
  OBVIOUS
<1>2. QED
  BY <1>1 DEF Repo

LEMMA IdsTyped == ASSUME NEW l \in Seq(Repo) PROVE IdsOf(l) \subseteq Ids
BY ElementsTyped DEF IdsOf

LEMMA FirstTyped == ASSUME NEW l \in Seq(Repo) PROVE FirstOf(l) \in Ids \cup {None}
<1>1. CASE l = <<>>
  BY <1>1 DEF FirstOf
<1>2. CASE l # <<>>
  <2>1. 1 \in DOMAIN l
    BY <1>2
  <2>2. QED
    BY <1>2, <2>1, ElementsTyped DEF FirstOf
<1>3. QED
  BY <1>1, <1>2

LEMMA RepoTyped ==
  ASSUME NEW l \in Seq(Repo), NEW id \in IdsOf(l)
  PROVE  RepoIn(l, id) \in Repo /\ RepoIn(l, id).id = id
<1> DEFINE S == {l[k] : k \in DOMAIN l}
<1>1. PICK k \in DOMAIN l : l[k].id = id
  BY DEF IdsOf
<1>2. \E r \in S : r.id = id
  BY <1>1
<1>3. RepoIn(l, id) \in S /\ RepoIn(l, id).id = id
  BY <1>2 DEF RepoIn
<1>4. QED
  BY <1>3, ElementsTyped

LEMMA LoadTyped ==
  ASSUME linked \subseteq Trees, NEW l \in Seq(Repo), NEW id, NEW broken
  PROVE  LoadWorkspace(l, id, broken) \in WorkspaceSnapshot
<1>1. CASE id \notin IdsOf(l)
  BY <1>1 DEF LoadWorkspace, NoWorkspace, WorkspaceSnapshot
<1>2. CASE id \in IdsOf(l)
  <2> DEFINE path == RepoIn(l, id).path
  <2>1. path \in Folders
    BY <1>2, RepoTyped DEF Repo
  <2>2. CASE ~InGit(path)
    BY <1>2, <2>1, <2>2 DEF LoadWorkspace, NoWorkspace, WorkspaceSnapshot
  <2>3. CASE InGit(path)
    <3>1. Top[path] \in Folders
      BY <2>1, <2>3, FolderAssumption DEF InGit
    <3>2. LoadWorkspace(l, id, broken) =
            [root  |-> IF "context" \in broken THEN path ELSE Top[path],
             trees |-> IF "list" \in broken THEN {} ELSE linked,
             main  |-> Top[path]]
      BY <1>2, <2>3 DEF LoadWorkspace
    <3>3. QED
      BY <2>1, <3>1, <3>2 DEF WorkspaceSnapshot
  <2>4. QED
    BY <2>2, <2>3
<1>3. QED
  BY <1>1, <1>2

LEMMA FollowTyped ==
  ASSUME NEW tgt \in Target, NEW ws \in WorkspaceSnapshot
  PROVE  Follow(tgt, ws) \in Target
<1> DEFINE next == IF tgt.tree \in ws.trees THEN tgt.tree
                   ELSE IF ws.main \in ws.trees THEN ws.main ELSE ws.root
<1>1. next \in Folders \cup {None}
  BY DEF WorkspaceSnapshot, Target
<1>2. Follow(tgt, ws) = [tgt EXCEPT !.tree = next,
                                    !.home = @ /\ next \in {tgt.tree, None}]
  BY DEF Follow
<1> HIDE DEF next
<1>3. \A home \in BOOLEAN : [tgt EXCEPT !.tree = next, !.home = home] \in Target
  BY <1>1 DEF Target
<1>4. (tgt.home /\ next \in {tgt.tree, None}) \in BOOLEAN
  OBVIOUS
<1>5. QED
  BY <1>2, <1>3, <1>4

LEMMA SelectingTyped ==
  ASSUME NEW tgt \in Target, NEW id \in Ids PROVE Selecting(tgt, id) \in Target
BY DEF Selecting, Target

LEMMA ReselectedTyped ==
  ASSUME NEW l \in Seq(Repo), NEW tgt \in Target PROVE Reselected(l, tgt) \in Target
BY FirstTyped DEF Reselected, Target

LEMMA DisplayTyped ==
  ASSUME NEW l \in Seq(Repo), NEW ws \in WorkspaceSnapshot PROVE Display(l, ws) \in Rail
BY DEF Display, Rail, WorkspaceSnapshot

LEMMA ReloadedTyped ==
  ASSUME linked \subseteq Trees, NEW l \in Seq(Repo), NEW tgt \in Target, NEW broken
  PROVE  /\ Reloaded(l, tgt, broken).target \in Target
         /\ Reloaded(l, tgt, broken).workspace \in WorkspaceSnapshot
<1> DEFINE to == Reselected(l, tgt)
           ws == LoadWorkspace(l, to.repo, broken)
<1>1. to \in Target /\ ws \in WorkspaceSnapshot
  BY ReselectedTyped, LoadTyped
<1>2. Reloaded(l, tgt, broken) = [target |-> Follow(to, ws), workspace |-> ws]
  BY DEF Reloaded
<1> HIDE DEF to, ws
<1>3. QED
  BY <1>1, <1>2, FollowTyped

LEMMA Nothing ==
  /\ NoWorkspace \in WorkspaceSnapshot /\ NoTarget \in Target
  /\ Idle \in Job /\ <<>> \in Seq(Repo)
<1>1. NoWorkspace \in WorkspaceSnapshot /\ NoTarget \in Target /\ <<>> \in Seq(Repo)
  BY DEF NoWorkspace, WorkspaceSnapshot, NoTarget, Target
<1>2. QED
  BY <1>1 DEF Idle, Job

-----------------------------------------------------------------------------
(* The registry                                                            *)

(* What a list is without its k-th element.                                *)
LEMMA TailAfter ==
  ASSUME NEW l \in Seq(Repo), NEW k \in 1 .. Len(l),
         NEW b, b = SubSeq(l, k + 1, Len(l))
  PROVE  /\ b \in Seq(Repo) /\ Len(b) = Len(l) - k
         /\ \A i \in 1 .. Len(l) - k : b[i] = l[k + i]
<1>0. Len(l) \in Nat /\ k + 1 \in Int /\ k \in Int /\ Len(l) \in Int
  OBVIOUS
<1>1. \A i \in k + 1 .. Len(l) : l[i] \in Repo
  OBVIOUS
<1>2. /\ b \in Seq(Repo)
      /\ Len(b) = IF k + 1 <= Len(l) THEN Len(l) - (k + 1) + 1 ELSE 0
      /\ \A i \in 1 .. Len(l) - (k + 1) + 1 : b[i] = l[(k + 1) + i - 1]
  BY <1>0, <1>1, SubSeqProperties
<1>3. Len(b) = Len(l) - k
  BY <1>0, <1>2
<1>4. ASSUME NEW i \in 1 .. Len(l) - k PROVE b[i] = l[k + i]
  <2>1. (k + 1) + i - 1 = k + i /\ i \in 1 .. Len(l) - (k + 1) + 1
    BY <1>0
  <2>2. QED
    BY <1>2, <2>1
<1>5. QED
  BY <1>2, <1>3, <1>4

LEMMA Dropped ==
  ASSUME NEW l \in Seq(Repo), NEW k \in 1 .. Len(l)
  PROVE  LET w == SubSeq(l, 1, k - 1) \o SubSeq(l, k + 1, Len(l))
         IN /\ w \in Seq(Repo) /\ Len(w) = Len(l) - 1
            /\ \A m \in 1 .. Len(l) - 1 : w[m] = IF m < k THEN l[m] ELSE l[m + 1]
<1> DEFINE a == SubSeq(l, 1, k - 1)
           b == SubSeq(l, k + 1, Len(l))
<1>0. b = SubSeq(l, k + 1, Len(l))
  OBVIOUS
<1>1. a \in Seq(Repo) /\ Len(a) = k - 1 /\ \A i \in 1 .. k - 1 : a[i] = l[i]
  BY SubSeqProperties
<1> HIDE DEF a, b
<1>2. b \in Seq(Repo) /\ Len(b) = Len(l) - k /\ \A i \in 1 .. Len(l) - k : b[i] = l[k + i]
  BY <1>0, TailAfter
<1>3. (a \o b) \in Seq(Repo) /\ Len(a \o b) = Len(l) - 1
  <2>1. (a \o b) \in Seq(Repo) /\ Len(a \o b) = Len(a) + Len(b)
    BY <1>1, <1>2, ConcatProperties
  <2>2. Len(l) \in Nat /\ k \in Nat
    OBVIOUS
  <2>3. Len(a) = k - 1
    BY <1>1
  <2>4. Len(b) = Len(l) - k
    BY <1>2
  <2>5. QED
    BY <2>1, <2>2, <2>3, <2>4
<1>4. ASSUME NEW m \in 1 .. Len(l) - 1
      PROVE  (a \o b)[m] = IF m < k THEN l[m] ELSE l[m + 1]
  <2>1. (a \o b)[m] = IF m <= Len(a) THEN a[m] ELSE b[m - Len(a)]
    BY <1>1, <1>2, ConcatProperties
  <2>2. CASE m < k
    BY <1>1, <2>1, <2>2
  <2>3. CASE ~(m < k)
    <3>1. /\ m - Len(a) \in 1 .. Len(l) - k /\ k + (m - Len(a)) = m + 1
          /\ ~(m <= Len(a))
      BY <1>1, <2>3
    <3>2. QED
      BY <1>2, <2>1, <2>3, <3>1
  <2>4. QED
    BY <2>2, <2>3
<1>5. QED
  BY <1>3, <1>4 DEF a, b

LEMMA WithoutTyped ==
  ASSUME NEW l \in Seq(Repo), NEW id
  PROVE  /\ Without(l, id) \in Seq(Repo)
         /\ IdsOf(l) \ {id} \subseteq IdsOf(Without(l, id))
<1>1. CASE id \notin IdsOf(l)
  BY <1>1 DEF Without
<1>2. CASE id \in IdsOf(l)
  <2> DEFINE k == CHOOSE j \in DOMAIN l : l[j].id = id
             w == SubSeq(l, 1, k - 1) \o SubSeq(l, k + 1, Len(l))
  <2>1. \E j \in DOMAIN l : l[j].id = id
    BY <1>2 DEF IdsOf
  <2>2. k \in DOMAIN l /\ l[k].id = id
    BY <2>1
  <2>3. Without(l, id) = w
    BY <1>2 DEF Without
  <2>4. k \in 1 .. Len(l) /\ DOMAIN l = 1 .. Len(l) /\ Len(l) \in Nat
    BY <2>2
  <2>5. w = SubSeq(l, 1, k - 1) \o SubSeq(l, k + 1, Len(l))
    OBVIOUS
  <2> HIDE DEF k, w
  <2>6. /\ w \in Seq(Repo) /\ Len(w) = Len(l) - 1
        /\ \A m \in 1 .. Len(l) - 1 : w[m] = IF m < k THEN l[m] ELSE l[m + 1]
    BY <2>4, <2>5, Dropped
  <2>7. ASSUME NEW other \in IdsOf(l) \ {id} PROVE other \in IdsOf(w)
    <3>1. PICK j \in 1 .. Len(l) : l[j].id = other
      BY <2>4 DEF IdsOf
    <3>2. j # k
      BY <2>2, <3>1
    <3>3. DOMAIN w = 1 .. Len(l) - 1
      BY <2>6
    <3>4. CASE j < k
      <4>1. j \in 1 .. Len(l) - 1 /\ w[j] = l[j]
        BY <2>4, <2>6, <3>4
      <4>2. QED
        BY <3>1, <3>3, <4>1 DEF IdsOf
    <3>5. CASE j > k
      <4>1. j - 1 \in 1 .. Len(l) - 1 /\ w[j - 1] = l[j]
        BY <2>4, <2>6, <3>5
      <4>2. QED
        BY <3>1, <3>3, <4>1 DEF IdsOf
    <3>6. QED
      BY <2>4, <3>2, <3>4, <3>5
  <2>8. QED
    BY <2>3, <2>6, <2>7
<1>3. QED
  BY <1>1, <1>2

(* Where a list has what it had when something is put first.               *)
LEMMA FirstAndRest ==
  ASSUME NEW l \in Seq(Repo), NEW r \in Repo
  PROVE  LET w == <<r>> \o l
         IN /\ 1 \in DOMAIN w /\ w[1] = r
            /\ \A i \in DOMAIN l : i + 1 \in DOMAIN w /\ w[i + 1] = l[i]
            /\ \A i \in DOMAIN w : i = 1 \/ (i - 1 \in DOMAIN l /\ w[i] = l[i - 1])
<1> DEFINE w == <<r>> \o l
<1>1. <<r>> \in Seq(Repo) /\ Len(<<r>>) = 1 /\ <<r>>[1] = r
  OBVIOUS
<1>2. /\ w \in Seq(Repo) /\ Len(w) = 1 + Len(l)
      /\ \A i \in 1 .. 1 + Len(l) : w[i] = IF i <= 1 THEN <<r>>[i] ELSE l[i - 1]
  BY <1>1, ConcatProperties
<1>3. Len(l) \in Nat /\ DOMAIN l = 1 .. Len(l)
  OBVIOUS
<1> HIDE DEF w
<1>4. DOMAIN w = 1 .. 1 + Len(l)
  BY <1>2
<1>5. 1 \in DOMAIN w /\ w[1] = r
  BY <1>1, <1>2, <1>3, <1>4
<1>6. ASSUME NEW i \in DOMAIN l PROVE i + 1 \in DOMAIN w /\ w[i + 1] = l[i]
  <2>1. i + 1 \in 1 .. 1 + Len(l) /\ ~(i + 1 <= 1) /\ (i + 1) - 1 = i
    BY <1>3
  <2>2. QED
    BY <1>2, <1>4, <2>1
<1>7. ASSUME NEW i \in DOMAIN w, i # 1 PROVE i - 1 \in DOMAIN l /\ w[i] = l[i - 1]
  <2>1. i \in 1 .. 1 + Len(l) /\ ~(i <= 1) /\ i - 1 \in 1 .. Len(l)
    BY <1>3, <1>4, <1>7
  <2>2. QED
    BY <1>2, <1>3, <2>1
<1>8. QED
  BY <1>5, <1>6, <1>7 DEF w

LEMMA PutFirst ==
  ASSUME NEW l \in Seq(Repo), NEW r \in Repo
  PROVE  /\ <<r>> \o l \in Seq(Repo)
         /\ IdsOf(<<r>> \o l) = {r.id} \cup IdsOf(l)
<1> DEFINE w == <<r>> \o l
<1>1. w \in Seq(Repo)
  BY ConcatProperties
<1>2. /\ 1 \in DOMAIN w /\ w[1] = r
      /\ \A i \in DOMAIN l : i + 1 \in DOMAIN w /\ w[i + 1] = l[i]
      /\ \A i \in DOMAIN w : i = 1 \/ (i - 1 \in DOMAIN l /\ w[i] = l[i - 1])
  BY FirstAndRest
<1> HIDE DEF w
<1>3. IdsOf(w) \subseteq {r.id} \cup IdsOf(l)
  BY <1>2 DEF IdsOf
<1>4. {r.id} \cup IdsOf(l) \subseteq IdsOf(w)
  BY <1>2 DEF IdsOf
<1>5. QED
  BY <1>1, <1>3, <1>4 DEF w

(* Registering a folder keeps every repository that is there.              *)
LEMMA EnsureKeeps ==
  ASSUME repos \in Seq(Repo), NEW path \in Folders, NEW boot \in BOOLEAN, NEW id \in Ids,
         EnsureRepository(path, boot, id)
  PROVE  repos' \in Seq(Repo) /\ IdsOf(repos) \subseteq IdsOf(repos')
<1>1. CASE At(path) = {}
  <2> DEFINE r == [id |-> id, path |-> path, boot |-> boot]
  <2>1. r \in Repo
    BY DEF Repo
  <2>2. repos' = <<r>> \o repos
    BY <1>1 DEF EnsureRepository, InsertRepository
  <2> HIDE DEF r
  <2>3. QED
    BY <2>1, <2>2, PutFirst
<1>2. CASE At(path) # {}
  <2>1. PICK k \in At(path) :
          /\ id = repos[k].id
          /\ repos' = IF repos[k].boot = boot THEN repos
                      ELSE <<[repos[k] EXCEPT !.boot = boot]>> \o Without(repos, id)
    BY <1>2 DEF EnsureRepository
  <2>2. k \in DOMAIN repos /\ repos[k] \in Repo
    BY DEF At
  <2>3. CASE repos[k].boot = boot
    BY <2>1, <2>3
  <2>4. CASE repos[k].boot # boot
    <3> DEFINE r == [repos[k] EXCEPT !.boot = boot]
    <3>1. r \in Repo /\ r.id = id
      BY <2>1, <2>2 DEF Repo
    <3>2. repos' = <<r>> \o Without(repos, id)
      BY <2>1, <2>4
    <3> HIDE DEF r
    <3>3. Without(repos, id) \in Seq(Repo) /\ IdsOf(repos) \ {id} \subseteq IdsOf(Without(repos, id))
      BY WithoutTyped
    <3>4. repos' \in Seq(Repo) /\ IdsOf(repos') = {id} \cup IdsOf(Without(repos, id))
      BY <3>1, <3>2, <3>3, PutFirst
    <3>5. QED
      BY <3>3, <3>4
  <2>5. QED
    BY <2>3, <2>4
<1>3. QED
  BY <1>1, <1>2

-----------------------------------------------------------------------------
(* The rows                                                                *)

LiveRows == {s \in Sessions : IsLive(s)}

LEMMA RowFields ==
  ASSUME NEW r \in Row
  PROVE  /\ r # None /\ r.repo \in Ids /\ r.dir \in Folders /\ r.live \in BOOLEAN
         /\ \A b \in BOOLEAN :
              /\ [r EXCEPT !.live = b] \in Row
              /\ [r EXCEPT !.live = b].repo = r.repo
              /\ [r EXCEPT !.live = b].dir = r.dir
              /\ [r EXCEPT !.live = b].live = b
BY RowAssumption DEF Row

(* A row whose end is noticed is a row still, of the same repository.      *)
LEMMA NoticedTyped ==
  ASSUME rows \in [Sessions -> {None} \cup Row], NEW seen \in SUBSET LiveRows
  PROVE  /\ Noticed(seen) \in [Sessions -> {None} \cup Row]
         /\ \A s \in Sessions :
              /\ Noticed(seen)[s] # None <=> rows[s] # None
              /\ rows[s] # None => /\ Noticed(seen)[s].repo = rows[s].repo
                                   /\ Noticed(seen)[s].dir = rows[s].dir
              /\ s \notin seen => Noticed(seen)[s] = rows[s]
<1> DEFINE n == Noticed(seen)
<1>1. n = [s \in Sessions |-> IF s \in seen THEN [rows[s] EXCEPT !.live = FALSE] ELSE rows[s]]
  BY DEF Noticed
<1> HIDE DEF n
<1>2. ASSUME NEW s \in Sessions
      PROVE  /\ n[s] \in {None} \cup Row
             /\ n[s] # None <=> rows[s] # None
             /\ rows[s] # None => n[s].repo = rows[s].repo /\ n[s].dir = rows[s].dir
             /\ s \notin seen => n[s] = rows[s]
  <2>1. CASE s \notin seen
    BY <1>1, <2>1
  <2>2. CASE s \in seen
    <3>1. rows[s] \in Row
      BY <2>2 DEF LiveRows, IsLive
    <3>2. n[s] = [rows[s] EXCEPT !.live = FALSE]
      BY <1>1, <2>2
    <3>3. n[s] \in Row /\ n[s].repo = rows[s].repo /\ n[s].dir = rows[s].dir
      BY <3>1, <3>2 DEF Row
    <3>4. n[s] # None /\ rows[s] # None
      BY <3>1, <3>3, RowFields
    <3>5. QED
      BY <2>2, <3>3, <3>4
  <2>3. QED
    BY <2>1, <2>2
<1>3. n \in [Sessions -> {None} \cup Row]
  BY <1>1, <1>2
<1>4. QED
  BY <1>2, <1>3 DEF n

(* A step that registers at most and notices the ends of agents that run   *)
(* no more keeps the tables.                                               *)
LEMMA NoticingKeeps ==
  ASSUME TableOK, NEW seen \in SUBSET LiveRows,
         repos' \in Seq(Repo), IdsOf(repos) \subseteq IdsOf(repos'),
         rows' = Noticed(seen), agents' \subseteq agents \ seen
  PROVE  TableOK'
<1>1. rows \in [Sessions -> {None} \cup Row]
  BY DEF TableOK
<1>2. /\ rows' \in [Sessions -> {None} \cup Row]
      /\ \A s \in Sessions :
           /\ rows'[s] # None <=> rows[s] # None
           /\ rows[s] # None => rows'[s].repo = rows[s].repo
           /\ s \notin seen => rows'[s] = rows[s]
  BY <1>1, NoticedTyped
<1>3. \A s \in Sessions : rows'[s] # None => rows'[s].repo \in IdsOf(repos')
  BY <1>2 DEF TableOK
<1>4. agents' \subseteq Sessions
  BY DEF TableOK
<1>5. \A s \in agents' : rows'[s] # None /\ rows'[s].live
  BY <1>2 DEF TableOK, AgentsHaveRows, IsLive
<1>6. QED
  BY <1>2, <1>3, <1>4, <1>5 DEF TableOK, AgentsHaveRows, IsLive

LEMMA SameTable == ASSUME TableOK, UNCHANGED table PROVE TableOK'
BY DEF TableOK, table, AgentsHaveRows, IsLive

(* The same for a step that leaves the rows alone.                         *)
LEMMA RegisteringKeeps ==
  ASSUME TableOK, repos' \in Seq(Repo), IdsOf(repos) \subseteq IdsOf(repos'),
         UNCHANGED <<rows, agents>>
  PROVE  TableOK'
BY DEF TableOK, AgentsHaveRows, IsLive

LEMMA EndedAreLive == Ended \subseteq LiveRows /\ Ended \cap agents = {}
BY DEF Ended, LiveRows

-----------------------------------------------------------------------------
(* The steps and the tables                                                *)

LEMMA LaunchKeepsTable ==
  ASSUME TableOK, ViewOK, NEW s \in Sessions, Launch(s)
  PROVE  TableOK'
<1> DEFINE new == [repo |-> Owner, dir |-> LaunchFolder, live |-> TRUE]
<1>1. /\ Owner \in IdsOf(repos) /\ rows' = [rows EXCEPT ![s] = new]
      /\ agents' = agents \cup {s} /\ repos' = repos
  BY DEF Launch, Registered
<1>2. Owner \in Ids
  BY <1>1, IdsTyped DEF TableOK
<1>3. LaunchFolder \in Folders
  <2>1. target.tree \in Folders \cup {None} /\ shown.root \in Folders \cup {None}
    BY DEF ViewOK, TargetOK, Target, Rail
  <2>2. RepoIn(repos, Owner).path \in Folders
    BY <1>1, RepoTyped DEF TableOK, Repo
  <2>3. Home \in Folders
    BY FolderAssumption
  <2>4. QED
    BY <2>1, <2>2, <2>3 DEF LaunchFolder
<1>4. new \in Row /\ new.repo = Owner /\ new.live = TRUE
  BY <1>2, <1>3 DEF Row
<1> HIDE DEF new
<1>5. /\ rows' \in [Sessions -> {None} \cup Row] /\ rows'[s] = new
      /\ \A x \in Sessions \ {s} : rows'[x] = rows[x]
  BY <1>1, <1>4 DEF TableOK
<1>6. new # None
  BY <1>4, RowFields
<1>7. \A x \in Sessions : rows'[x] # None => rows'[x].repo \in IdsOf(repos')
  BY <1>1, <1>4, <1>5 DEF TableOK
<1>8. agents' \subseteq Sessions
  BY <1>1 DEF TableOK
<1>9. \A x \in agents' : rows'[x] # None /\ rows'[x].live
  BY <1>1, <1>4, <1>5, <1>6 DEF TableOK, AgentsHaveRows, IsLive
<1>10. QED
  BY <1>1, <1>5, <1>7, <1>8, <1>9 DEF TableOK, AgentsHaveRows, IsLive

LEMMA ResumeKeepsTable ==
  ASSUME TableOK, NEW s \in Sessions, Resume(s)
  PROVE  TableOK'
<1> DEFINE new == [rows[s] EXCEPT !.live = TRUE]
<1>1. /\ rows[s] # None /\ rows' = [rows EXCEPT ![s].live = TRUE]
      /\ agents' = agents \cup {s} /\ repos' = repos
  BY DEF Resume
<1>2. rows[s] \in Row /\ rows \in [Sessions -> {None} \cup Row]
  BY <1>1 DEF TableOK
<1>3. new \in Row /\ new # None /\ new.repo = rows[s].repo /\ new.live = TRUE
  BY <1>2, RowFields
<1>4. rows' = [rows EXCEPT ![s] = new]
  BY <1>1
<1> HIDE DEF new
<1>5. /\ rows' \in [Sessions -> {None} \cup Row] /\ rows'[s] = new
      /\ \A x \in Sessions \ {s} : rows'[x] = rows[x]
  BY <1>2, <1>3, <1>4
<1>6. \A x \in Sessions : rows'[x] # None => rows'[x].repo \in IdsOf(repos')
  BY <1>1, <1>3, <1>5 DEF TableOK
<1>7. agents' \subseteq Sessions
  BY <1>1 DEF TableOK
<1>8. \A x \in agents' : rows'[x] # None /\ rows'[x].live
  BY <1>1, <1>3, <1>5 DEF TableOK, AgentsHaveRows, IsLive
<1>9. QED
  BY <1>1, <1>5, <1>6, <1>7, <1>8 DEF TableOK, AgentsHaveRows, IsLive

LEMMA TerminateKeepsTable ==
  ASSUME TableOK, NEW s \in Sessions, Terminate(s)
  PROVE  TableOK'
<1>1. {s} \in SUBSET LiveRows
  BY DEF Terminate, LiveRows
<1>2. /\ rows' = Noticed({s}) /\ agents' = agents \ {s} /\ repos' = repos
  BY DEF Terminate
<1>3. repos \in Seq(Repo)
  BY DEF TableOK
<1>4. QED
  BY <1>1, <1>2, <1>3, NoticingKeeps

LEMMA AgentEndsKeepsTable ==
  ASSUME TableOK, NEW s, AgentEnds(s)
  PROVE  TableOK'
BY DEF AgentEnds, TableOK, AgentsHaveRows, IsLive

LEMMA AddRepositoryKeepsTable ==
  ASSUME TableOK, NEW path \in Folders, AddRepository(path)
  PROVE  TableOK'
<1>1. PICK id \in Ids : EnsureRepository(path, FALSE, id)
  BY DEF AddRepository
<1>2. UNCHANGED <<rows, agents>>
  BY DEF AddRepository
<1>3. repos' \in Seq(Repo) /\ IdsOf(repos) \subseteq IdsOf(repos')
  BY <1>1, EnsureKeeps DEF TableOK
<1>4. QED
  BY <1>2, <1>3, RegisteringKeeps

(* The cascade: no agent runs in a row that goes, for a row whose end is   *)
(* still to be noticed counts as live.                                     *)
LEMMA DeleteRepositoryKeepsTable ==
  ASSUME TableOK, NEW id \in Ids, DeleteRepository(id)
  PROVE  TableOK'
<1>1. PICK seen \in SUBSET Ended :
        /\ agents' = agents
        /\ IF HasActiveSessionForRepository(Noticed(seen), id)
           THEN rows' = Noticed(seen) /\ UNCHANGED repos
           ELSE /\ repos' = Without(repos, id)
                /\ rows' = [s \in Sessions |->
                              IF Noticed(seen)[s] # None /\ Noticed(seen)[s].repo = id
                              THEN None ELSE Noticed(seen)[s]]
  BY DEF DeleteRepository
<1> DEFINE now == Noticed(seen)
<1>2. seen \in SUBSET LiveRows /\ seen \cap agents = {}
  BY EndedAreLive
<1>3. CASE HasActiveSessionForRepository(now, id)
  <2>1. repos' = repos /\ rows' = Noticed(seen) /\ repos \in Seq(Repo)
    BY <1>1, <1>3 DEF TableOK
  <2>2. agents' \subseteq agents \ seen
    BY <1>1, <1>2
  <2>3. QED
    BY <1>2, <2>1, <2>2, NoticingKeeps
<1>4. CASE ~HasActiveSessionForRepository(now, id)
  <2>1. /\ now \in [Sessions -> {None} \cup Row]
        /\ \A s \in Sessions :
             /\ now[s] # None <=> rows[s] # None
             /\ rows[s] # None => now[s].repo = rows[s].repo
             /\ s \notin seen => now[s] = rows[s]
    BY <1>2, NoticedTyped DEF TableOK
  <2>2. \A s \in Sessions : ~(now[s] # None /\ now[s].live /\ now[s].repo = id)
    BY <1>4 DEF HasActiveSessionForRepository
  <2>3. /\ repos' = Without(repos, id)
        /\ rows' = [s \in Sessions |->
                      IF now[s] # None /\ now[s].repo = id THEN None ELSE now[s]]
    BY <1>1, <1>4
  <2> HIDE DEF now
  <2>4. repos' \in Seq(Repo) /\ IdsOf(repos) \ {id} \subseteq IdsOf(repos')
    BY <2>3, WithoutTyped DEF TableOK
  <2>5. rows' \in [Sessions -> {None} \cup Row]
    BY <2>1, <2>3
  <2>6. ASSUME NEW s \in Sessions, rows'[s] # None PROVE rows'[s].repo \in IdsOf(repos')
    <3>1. now[s] # None /\ now[s].repo # id /\ rows'[s] = now[s]
      BY <2>3, <2>6
    <3>2. rows[s].repo \in IdsOf(repos) \ {id}
      BY <2>1, <3>1 DEF TableOK
    <3>3. QED
      BY <2>1, <2>4, <3>1, <3>2
  <2>7. ASSUME NEW s \in agents' PROVE rows'[s] # None /\ rows'[s].live
    <3>1. s \in Sessions /\ s \notin seen /\ rows[s] # None /\ rows[s].live
      BY <1>1, <1>2 DEF TableOK, AgentsHaveRows, IsLive
    <3>2. now[s] = rows[s] /\ now[s].repo # id
      BY <2>1, <2>2, <3>1
    <3>3. QED
      BY <2>3, <3>1, <3>2
  <2>8. agents' \subseteq Sessions
    BY <1>1 DEF TableOK
  <2>9. QED
    BY <2>4, <2>5, <2>6, <2>7, <2>8 DEF TableOK, AgentsHaveRows, IsLive
<1>5. QED
  BY <1>3, <1>4

LEMMA DeleteWorktreeKeepsTable ==
  ASSUME TableOK, NEW tree, DeleteWorktree(tree)
  PROVE  TableOK'
<1>1. PICK seen \in SUBSET Ended : rows' = Noticed(seen)
  BY DEF DeleteWorktree
<1>2. UNCHANGED <<repos, agents>> /\ repos \in Seq(Repo)
  BY DEF DeleteWorktree, TableOK
<1>3. seen \in SUBSET LiveRows /\ seen \cap agents = {}
  BY EndedAreLive
<1>4. agents' \subseteq agents \ seen
  BY <1>2, <1>3
<1>5. QED
  BY <1>1, <1>2, <1>3, <1>4, NoticingKeeps

LEMMA ReadWorkspaceKeepsTable ==
  ASSUME TableOK, ReadWorkspace
  PROVE  TableOK'
<1>1. PICK seen \in SUBSET Ended : rows' = Noticed(seen)
  BY DEF ReadWorkspace
<1>2. UNCHANGED <<repos, agents>> /\ repos \in Seq(Repo)
  BY DEF ReadWorkspace, TableOK
<1>3. seen \in SUBSET LiveRows /\ seen \cap agents = {}
  BY EndedAreLive
<1>4. agents' \subseteq agents \ seen
  BY <1>2, <1>3
<1>5. QED
  BY <1>1, <1>2, <1>3, <1>4, NoticingKeeps

LEMMA RestartKeepsTable ==
  ASSUME TableOK, Restart
  PROVE  TableOK'
<1>1. agents' = {} /\ rows' = Noticed(LiveRows) /\ repos \in Seq(Repo)
  BY DEF Restart, LiveRows, TableOK
<1>2. repos' \in Seq(Repo) /\ IdsOf(repos) \subseteq IdsOf(repos')
  <2>1. CASE At(Bootstrap) = {}
    <3>1. PICK id \in Ids : EnsureRepository(Bootstrap, TRUE, id)
      BY <2>1 DEF Restart
    <3>2. Bootstrap \in Folders
      BY FolderAssumption
    <3>3. QED
      BY <1>1, <3>1, <3>2, EnsureKeeps
  <2>2. CASE At(Bootstrap) # {}
    BY <1>1, <2>2 DEF Restart
  <2>3. QED
    BY <2>1, <2>2
<1>3. QED
  BY <1>1, <1>2, NoticingKeeps

-----------------------------------------------------------------------------
(* The steps and the view                                                  *)

LEMMA SameView == ASSUME ViewOK, UNCHANGED view PROVE ViewOK'
BY DEF ViewOK, TargetOK, view

LEMMA SameJob == ASSUME JobOK, UNCHANGED <<version, job>> PROVE JobOK'
BY DEF JobOK

LEMMA SameDisk == ASSUME DiskOK, UNCHANGED disk PROVE DiskOK'
BY DEF DiskOK, disk

(* A slot that selects and shows.                                          *)
LEMMA Shows ==
  ASSUME NEW tgt \in Target, Persist(tgt), shown' \in Rail
  PROVE  ViewOK'
BY DEF ViewOK, TargetOK, Persist

(* Where the steps that start or end sessions leave the view alone.        *)
LEMMA SessionKeepsView ==
  ASSUME DiskOK, ViewOK, JobOK, NEW s,
         Launch(s) \/ Resume(s) \/ Terminate(s) \/ AgentEnds(s)
  PROVE  DiskOK' /\ ViewOK' /\ JobOK'
<1>1. UNCHANGED <<disk, view, job>> /\ version' \in {version, version + 1}
  BY DEF Launch, Resume, Terminate, AgentEnds
<1>2. JobOK'
  BY <1>1 DEF JobOK
<1>3. QED
  BY <1>1, <1>2, SameDisk, SameView

LEMMA SelectRepoKeepsView ==
  ASSUME TableOK, DiskOK, ViewOK, NEW id \in Ids, SelectRepo(id)
  PROVE  ViewOK'
<1>1. PICK broken \in Broken :
        LET ws  == LoadWorkspace(repos, id, broken)
            tgt == Follow(Selecting(target, id), ws)
        IN Persist(tgt) /\ shown' = Display(shown.repos, ws)
  BY DEF SelectRepo
<1> DEFINE ws == LoadWorkspace(repos, id, broken)
           tgt == Follow(Selecting(target, id), ws)
<1>2. ws \in WorkspaceSnapshot
  BY LoadTyped DEF TableOK, DiskOK
<1>3. Selecting(target, id) \in Target
  BY SelectingTyped DEF ViewOK, TargetOK
<1>4. Persist(tgt) /\ shown' = Display(shown.repos, ws)
  BY <1>1
<1>5. tgt = Follow(Selecting(target, id), ws)
  OBVIOUS
<1> HIDE DEF ws, tgt
<1>6. tgt \in Target
  BY <1>2, <1>3, <1>5, FollowTyped
<1>7. shown' \in Rail
  BY <1>2, <1>4, DisplayTyped DEF ViewOK, Rail
<1>8. QED
  BY <1>4, <1>6, <1>7, Shows

LEMMA SelectWorktreeKeepsView ==
  ASSUME ViewOK, NEW tree \in Folders, SelectWorktree(tree)
  PROVE  ViewOK'
<1> DEFINE tgt == [target EXCEPT !.tree = tree, !.home = FALSE]
<1>1. tgt \in Target
  BY DEF ViewOK, TargetOK, Target
<1>2. Persist(tgt) /\ shown' \in Rail
  BY DEF SelectWorktree, ViewOK
<1> HIDE DEF tgt
<1>3. QED
  BY <1>1, <1>2, Shows

LEMMA ClearTargetKeepsView ==
  ASSUME ViewOK, ClearTarget
  PROVE  ViewOK'
<1> DEFINE tgt == [repo |-> None, tree |-> None, home |-> TRUE, keep |-> TRUE]
<1>1. tgt \in Target
  BY DEF Target
<1>2. Persist(tgt) /\ shown' = Display(shown.repos, NoWorkspace)
  BY DEF ClearTarget
<1>3. shown' \in Rail
  BY <1>2, DisplayTyped, Nothing DEF ViewOK, Rail
<1> HIDE DEF tgt
<1>4. QED
  BY <1>1, <1>2, <1>3, Shows

LEMMA SetLaunchInHomeKeepsView ==
  ASSUME ViewOK, NEW home \in BOOLEAN, SetLaunchInHome(home)
  PROVE  ViewOK'
<1> DEFINE tgt == [target EXCEPT !.home = home]
<1>1. tgt \in Target
  BY DEF ViewOK, TargetOK, Target
<1>2. Persist(tgt) /\ shown' \in Rail
  BY DEF SetLaunchInHome, ViewOK
<1> HIDE DEF tgt
<1>3. QED
  BY <1>1, <1>2, Shows

LEMMA AddRepositoryKeepsView ==
  ASSUME TableOK, DiskOK, ViewOK, NEW path \in Folders, AddRepository(path)
  PROVE  ViewOK'
<1>1. PICK id \in Ids, broken \in Broken :
        /\ EnsureRepository(path, FALSE, id)
        /\ LET read  == Reloaded(repos', target, {})
               moved == read.target.repo # id
               ws    == LoadWorkspace(repos', id, broken)
               tgt   == IF moved THEN Follow(Selecting(read.target, id), ws)
                        ELSE Reloaded(repos', target, broken).target
           IN Persist(tgt) /\ shown' = Display(repos', ws)
  BY DEF AddRepository
<1>2. repos' \in Seq(Repo) /\ target \in Target /\ linked \subseteq Trees
  BY <1>1, EnsureKeeps DEF TableOK, DiskOK, ViewOK, TargetOK
<1> DEFINE read == Reloaded(repos', target, {})
           ws == LoadWorkspace(repos', id, broken)
           other == Reloaded(repos', target, broken).target
           tgt == IF read.target.repo # id THEN Follow(Selecting(read.target, id), ws) ELSE other
<1>3. ws \in WorkspaceSnapshot
  BY <1>2, LoadTyped
<1>4. read.target \in Target /\ other \in Target
  BY <1>2, ReloadedTyped
<1>5. Persist(tgt) /\ shown' = Display(repos', ws)
  BY <1>1
<1>6. tgt = IF read.target.repo # id THEN Follow(Selecting(read.target, id), ws) ELSE other
  OBVIOUS
<1> HIDE DEF read, ws, other, tgt
<1>7. Follow(Selecting(read.target, id), ws) \in Target
  BY <1>3, <1>4, FollowTyped, SelectingTyped
<1>8. tgt \in Target
  BY <1>4, <1>6, <1>7
<1>9. shown' \in Rail
  BY <1>2, <1>3, <1>5, DisplayTyped
<1>10. QED
  BY <1>5, <1>8, <1>9, Shows

LEMMA DeleteRepositoryKeepsView ==
  ASSUME TableOK, DiskOK, ViewOK, NEW id \in Ids, DeleteRepository(id)
  PROVE  ViewOK'
<1>1. PICK broken \in Broken :
        \/ UNCHANGED view
        \/ LET read == Reloaded(Without(repos, id), target, broken)
           IN /\ repos' = Without(repos, id)
              /\ Persist(read.target) /\ shown' = Display(repos', read.workspace)
  BY DEF DeleteRepository
<1>2. CASE UNCHANGED view
  BY <1>2, SameView
<1>3. CASE ~UNCHANGED view
  <2> DEFINE left == Without(repos, id)
             read == Reloaded(left, target, broken)
  <2>1. left \in Seq(Repo) /\ target \in Target /\ linked \subseteq Trees
    BY WithoutTyped DEF TableOK, DiskOK, ViewOK, TargetOK
  <2>2. Persist(read.target) /\ shown' = Display(left, read.workspace)
    BY <1>1, <1>3
  <2>3. read = Reloaded(left, target, broken)
    OBVIOUS
  <2> HIDE DEF left, read
  <2>4. read.target \in Target /\ read.workspace \in WorkspaceSnapshot
    BY <2>1, <2>3, ReloadedTyped
  <2>5. shown' \in Rail
    BY <2>1, <2>2, <2>4, DisplayTyped
  <2>6. QED
    BY <2>2, <2>4, <2>5, Shows
<1>4. QED
  BY <1>2, <1>3

LEMMA CreateWorktreeKeepsView ==
  ASSUME TableOK, DiskOK, ViewOK, CreateWorktree
  PROVE  DiskOK' /\ ViewOK'
<1>1. PICK k \in FreeNames, broken \in Broken :
        LET tree == NewTrees[k]
            load == LoadWorkspace(repos, target.repo, broken)
            ws   == [load EXCEPT !.trees = IF @ = {} THEN {} ELSE @ \cup {tree}]
            tgt  == [Follow(target, ws) EXCEPT !.tree = tree, !.home = FALSE]
        IN /\ folders' = folders \cup {f \in Folders : Top[f] = tree}
           /\ linked' = linked \cup {tree}
           /\ \/ UNCHANGED view
              \/ Persist(tgt) /\ shown' = Display(shown.repos, ws)
  BY DEF CreateWorktree
<1> DEFINE tree == NewTrees[k]
           load == LoadWorkspace(repos, target.repo, broken)
           ws == [load EXCEPT !.trees = IF @ = {} THEN {} ELSE @ \cup {tree}]
           tgt == [Follow(target, ws) EXCEPT !.tree = tree, !.home = FALSE]
<1>2. tree \in Trees
  <2>1. k \in DOMAIN NewTrees
    BY DEF FreeNames
  <2>2. NewTrees[k] \in {f \in Folders \ {MainTree} : Top[f] = f}
    BY <2>1, FolderAssumption
  <2>3. QED
    BY <2>2 DEF Trees
<1>3. load \in WorkspaceSnapshot
  BY LoadTyped DEF TableOK, DiskOK
<1>4. /\ folders' = folders \cup {f \in Folders : Top[f] = tree}
      /\ linked' = linked \cup {tree}
      /\ UNCHANGED view \/ (Persist(tgt) /\ shown' = Display(shown.repos, ws))
  BY <1>1
<1>5. ws = [load EXCEPT !.trees = IF load.trees = {} THEN {} ELSE load.trees \cup {tree}]
  OBVIOUS
<1>6. tgt = [Follow(target, ws) EXCEPT !.tree = tree, !.home = FALSE]
  OBVIOUS
<1> HIDE DEF tree, load, ws, tgt
<1>7. ws \in WorkspaceSnapshot
  BY <1>2, <1>3, <1>5 DEF WorkspaceSnapshot
<1>8. tgt \in Target
  <2>1. Follow(target, ws) \in Target
    BY <1>7, FollowTyped DEF ViewOK, TargetOK
  <2>2. tree \in Folders
    BY <1>2, TreesAreFolders
  <2>3. QED
    BY <1>6, <2>1, <2>2 DEF Target
<1>9. DiskOK'
  BY <1>2, <1>4 DEF DiskOK
<1>10. CASE UNCHANGED view
  BY <1>9, <1>10, SameView
<1>11. CASE Persist(tgt) /\ shown' = Display(shown.repos, ws)
  <2>1. shown' \in Rail
    BY <1>7, <1>11, DisplayTyped DEF ViewOK, Rail
  <2>2. QED
    BY <1>8, <1>9, <1>11, <2>1, Shows
<1>12. QED
  BY <1>4, <1>10, <1>11

LEMMA DeleteWorktreeKeepsView ==
  ASSUME TableOK, DiskOK, ViewOK, NEW tree, DeleteWorktree(tree)
  PROVE  DiskOK' /\ ViewOK'
<1>1. PICK broken \in Broken :
        LET load == LoadWorkspace(repos, target.repo, broken)
            ws   == [load EXCEPT !.trees = @ \ {tree}]
        IN /\ \/ UNCHANGED disk
              \/ folders' = folders \ GoneWith(tree) /\ linked' = linked \ {tree}
           /\ \/ UNCHANGED view
              \/ Persist(Follow(target, ws)) /\ shown' = Display(shown.repos, ws)
  BY DEF DeleteWorktree
<1> DEFINE load == LoadWorkspace(repos, target.repo, broken)
           ws == [load EXCEPT !.trees = @ \ {tree}]
<1>2. load \in WorkspaceSnapshot
  BY LoadTyped DEF TableOK, DiskOK
<1>3. UNCHANGED view \/ (Persist(Follow(target, ws)) /\ shown' = Display(shown.repos, ws))
  BY <1>1
<1>4. ws = [load EXCEPT !.trees = load.trees \ {tree}]
  OBVIOUS
<1> HIDE DEF load, ws
<1>5. ws \in WorkspaceSnapshot
  BY <1>2, <1>4 DEF WorkspaceSnapshot
<1>6. Follow(target, ws) \in Target
  BY <1>5, FollowTyped DEF ViewOK, TargetOK
<1>7. DiskOK'
  BY <1>1 DEF DiskOK, disk
<1>8. CASE UNCHANGED view
  BY <1>7, <1>8, SameView
<1>9. CASE Persist(Follow(target, ws)) /\ shown' = Display(shown.repos, ws)
  <2>1. shown' \in Rail
    BY <1>5, <1>9, DisplayTyped DEF ViewOK, Rail
  <2>2. QED
    BY <1>6, <1>7, <1>9, <2>1, Shows
<1>10. QED
  BY <1>3, <1>8, <1>9

LEMMA RestartKeepsView ==
  ASSUME ViewOK, Restart
  PROVE  ViewOK' /\ JobOK'
<1>1. target' = saved /\ saved' = saved /\ shown' = Display(<<>>, NoWorkspace)
  BY DEF Restart
<1>2. shown' \in Rail
  BY <1>1, DisplayTyped, Nothing
<1>3. JobOK'
  BY Nothing DEF Restart, JobOK
<1>4. QED
  BY <1>1, <1>2, <1>3 DEF ViewOK, TargetOK

LEMMA RefreshKeepsJob ==
  ASSUME ViewOK, JobOK, Refresh
  PROVE  job' \in Job
<1>1. job' = [Idle EXCEPT !.pc = "list", !.version = version, !.repo = target.repo,
                          !.keep = target.keep]
  BY DEF Refresh
<1>2. target.repo \in Ids \cup {None} /\ target.keep \in BOOLEAN /\ version \in Nat
  BY DEF ViewOK, TargetOK, Target, JobOK
<1>3. QED
  BY <1>1, <1>2, Nothing DEF Job

LEMMA ReadRegistryKeepsJob ==
  ASSUME TableOK, JobOK, ReadRegistry
  PROVE  job' \in Job
<1> DEFINE asked == [NoTarget EXCEPT !.repo = job.repo, !.keep = job.keep]
           found == Reselected(repos, asked)
<1>1. asked \in Target
  <2>1. job.repo \in Ids \cup {None} /\ job.keep \in BOOLEAN
    BY DEF JobOK, Job
  <2>2. QED
    BY <2>1 DEF NoTarget, Target
<1>2. found = Reselected(repos, asked)
  OBVIOUS
<1>3. job' = [job EXCEPT !.pc = "read", !.repos = repos, !.repo = found.repo]
  BY DEF ReadRegistry
<1> HIDE DEF asked, found
<1>4. found \in Target /\ repos \in Seq(Repo)
  BY <1>1, <1>2, ReselectedTyped DEF TableOK
<1>5. found.repo \in Ids \cup {None}
  BY <1>4 DEF Target
<1>6. QED
  BY <1>3, <1>4, <1>5 DEF JobOK, Job

LEMMA ReadWorkspaceKeepsJob ==
  ASSUME TableOK, DiskOK, JobOK, ReadWorkspace
  PROVE  job' \in Job
<1>1. PICK broken \in Broken :
        job' = [job EXCEPT !.pc = "done", !.workspace = LoadWorkspace(repos, job.repo, broken)]
  BY DEF ReadWorkspace
<1> DEFINE load == LoadWorkspace(repos, job.repo, broken)
<1>2. load \in WorkspaceSnapshot
  BY LoadTyped DEF TableOK, DiskOK
<1>3. job' = [job EXCEPT !.pc = "done", !.workspace = load]
  BY <1>1
<1> HIDE DEF load
<1>4. QED
  BY <1>2, <1>3 DEF JobOK, Job

LEMMA RefreshFinishedKeepsView ==
  ASSUME ViewOK, JobOK, RefreshFinished
  PROVE  ViewOK' /\ JobOK'
<1>1. /\ job' = Idle /\ version' = version
      /\ UNCHANGED view \/ Apply(job)
  BY DEF RefreshFinished
<1>2. JobOK'
  BY <1>1, Nothing DEF JobOK
<1>3. CASE UNCHANGED view
  BY <1>2, <1>3, SameView
<1>4. CASE Apply(job)
  <2>1. /\ job.repo \in Ids \cup {None} /\ job.repos \in Seq(Repo)
        /\ job.workspace \in WorkspaceSnapshot
    BY DEF JobOK, Job
  <2> DEFINE asked == [target EXCEPT !.repo = job.repo]
  <2>2. asked \in Target
    BY <2>1 DEF ViewOK, TargetOK, Target
  <2>3. Persist(Follow(asked, job.workspace)) /\ shown' = Display(job.repos, job.workspace)
    BY <1>4 DEF Apply
  <2> HIDE DEF asked
  <2>4. Follow(asked, job.workspace) \in Target /\ shown' \in Rail
    BY <2>1, <2>2, <2>3, FollowTyped, DisplayTyped
  <2>5. QED
    BY <1>2, <2>3, <2>4, Shows
<1>5. QED
  BY <1>1, <1>3, <1>4

-----------------------------------------------------------------------------
(* The invariant                                                           *)

LEMMA InitInv == Init => IInv
<1> SUFFICES ASSUME Init PROVE IInv
  OBVIOUS
<1>1. DiskOK
  <2>1. 1 \in DOMAIN NewTrees
    BY FolderAssumption
  <2>2. NewTrees[1] \in Trees /\ MainTree \in Trees
    BY <2>1, FolderAssumption DEF Trees
  <2>3. linked \in {{MainTree}, {MainTree, NewTrees[1]}} /\ folders \subseteq Folders
    BY DEF Init
  <2>4. QED
    BY <2>2, <2>3 DEF DiskOK
<1>2. repos \in Seq(Repo)
  <2>1. PICK earlier \in SUBSET (folders \ {Bootstrap}) :
          repos = <<[id |-> 1, path |-> Bootstrap, boot |-> TRUE]>>
                    \o (IF earlier = {} THEN <<>>
                        ELSE <<[id |-> 2, path |-> CHOOSE f \in earlier : TRUE,
                                boot |-> FALSE]>>)
    BY DEF Init
  <2> DEFINE first == [id |-> 1, path |-> Bootstrap, boot |-> TRUE]
             second == [id |-> 2, path |-> CHOOSE f \in earlier : TRUE, boot |-> FALSE]
             rest == IF earlier = {} THEN <<>> ELSE <<second>>
  <2>2. 1 \in Ids /\ 2 \in Ids
    BY BoundAssumption DEF Ids
  <2>3. first \in Repo
    BY <2>2, FolderAssumption DEF Repo
  <2>4. rest \in Seq(Repo)
    <3>1. CASE earlier = {}
      BY <3>1
    <3>2. CASE earlier # {}
      <4>1. (CHOOSE f \in earlier : TRUE) \in Folders
        BY <1>1, <3>2 DEF DiskOK
      <4>2. second \in Repo
        BY <2>2, <4>1 DEF Repo
      <4>3. rest = <<second>>
        BY <3>2
      <4> HIDE DEF second, rest
      <4>4. QED
        BY <4>2, <4>3
    <3>3. QED
      BY <3>1, <3>2
  <2>5. repos = <<first>> \o rest
    BY <2>1
  <2> HIDE DEF first, rest
  <2>6. QED
    BY <2>3, <2>4, <2>5, PutFirst
<1>3. TableOK
  BY <1>2 DEF Init, TableOK, AgentsHaveRows
<1>4. ViewOK
  <2>1. NoTarget \in Target /\ NoWorkspace \in WorkspaceSnapshot /\ <<>> \in Seq(Repo)
    BY Nothing
  <2>2. ASSUME NEW id \in IdsOf(repos)
        PROVE  Follow([NoTarget EXCEPT !.repo = id], LoadWorkspace(repos, id, {})) \in Target
    <3> DEFINE tgt == [NoTarget EXCEPT !.repo = id]
               ws == LoadWorkspace(repos, id, {})
    <3>1. id \in Ids
      BY <1>2, IdsTyped
    <3>2. tgt \in Target
      BY <3>1 DEF NoTarget, Target
    <3>3. ws \in WorkspaceSnapshot
      BY <1>1, <1>2, LoadTyped DEF DiskOK
    <3> HIDE DEF tgt, ws
    <3>4. Follow(tgt, ws) \in Target
      BY <3>2, <3>3, FollowTyped
    <3>5. QED
      BY <3>4 DEF tgt, ws
  <2>3. target \in Target /\ saved = target
    BY <2>1, <2>2 DEF Init
  <2>4. shown \in Rail
    BY <2>1, DisplayTyped DEF Init
  <2>5. QED
    BY <2>3, <2>4 DEF ViewOK, TargetOK
<1>5. JobOK
  BY Nothing DEF Init, JobOK
<1>6. QED
  BY <1>1, <1>3, <1>4, <1>5 DEF IInv

LEMMA SessionStepInv == ASSUME IInv, SessionStep PROVE IInv'
<1> USE DEF IInv
<1>1. PICK s \in Sessions : Launch(s) \/ Resume(s) \/ Terminate(s) \/ AgentEnds(s)
  BY DEF SessionStep
<1>2. DiskOK' /\ ViewOK' /\ JobOK'
  BY <1>1, SessionKeepsView
<1>3. TableOK'
  BY <1>1, LaunchKeepsTable, ResumeKeepsTable, TerminateKeepsTable, AgentEndsKeepsTable
<1>4. QED
  BY <1>2, <1>3

(* A slot of the rail raises the version at most, and asks no worker.      *)
LEMMA RailKeepsJob == ASSUME JobOK, RailStep PROVE JobOK'
<1> DEFINE Raised == job' = job /\ version' \in {version, version + 1}
<1>1. ASSUME NEW id, SelectRepo(id) PROVE Raised
  BY <1>1 DEF SelectRepo
<1>2. ASSUME NEW id, DeleteRepository(id) PROVE Raised
  BY <1>2 DEF DeleteRepository
<1>3. ASSUME NEW f, SelectWorktree(f) PROVE Raised
  BY <1>3 DEF SelectWorktree
<1>4. ASSUME NEW f, DeleteWorktree(f) PROVE Raised
  BY <1>4 DEF DeleteWorktree
<1>5. ASSUME NEW f, AddRepository(f) PROVE Raised
  BY <1>5 DEF AddRepository
<1>6. ASSUME NEW f, RemovedOutside(f) PROVE Raised
  BY <1>6 DEF RemovedOutside
<1>7. ASSUME ClearTarget PROVE Raised
  BY <1>7 DEF ClearTarget
<1>8. ASSUME CreateWorktree PROVE Raised
  BY <1>8 DEF CreateWorktree
<1>9. ASSUME NEW home, SetLaunchInHome(home) PROVE Raised
  BY <1>9 DEF SetLaunchInHome
<1>10. ASSUME NEW key, PickProvider(key) PROVE Raised
  BY <1>10 DEF PickProvider
<1>11. Raised
  BY <1>1, <1>2, <1>3, <1>4, <1>5, <1>6, <1>7, <1>8, <1>9, <1>10 DEF RailStep
<1>12. QED
  BY <1>11 DEF JobOK

LEMMA RailStepInv == ASSUME IInv, RailStep PROVE IInv'
<1> USE DEF IInv
<1>1. JobOK'
  BY RailKeepsJob
<1>2. ASSUME NEW id \in Ids, SelectRepo(id) PROVE IInv'
  <2>1. UNCHANGED <<disk, table>>
    BY <1>2 DEF SelectRepo
  <2>2. QED
    BY <1>1, <1>2, <2>1, SelectRepoKeepsView, SameDisk, SameTable
<1>3. ASSUME NEW id \in Ids, DeleteRepository(id) PROVE IInv'
  <2>1. UNCHANGED disk
    BY <1>3 DEF DeleteRepository
  <2>2. QED
    BY <1>1, <1>3, <2>1, DeleteRepositoryKeepsTable, DeleteRepositoryKeepsView, SameDisk
<1>4. ASSUME NEW f \in Folders, SelectWorktree(f) PROVE IInv'
  <2>1. UNCHANGED <<disk, table>>
    BY <1>4 DEF SelectWorktree
  <2>2. QED
    BY <1>1, <1>4, <2>1, SelectWorktreeKeepsView, SameDisk, SameTable
<1>5. ASSUME NEW f \in Folders, DeleteWorktree(f) PROVE IInv'
  BY <1>1, <1>5, DeleteWorktreeKeepsTable, DeleteWorktreeKeepsView
<1>6. ASSUME NEW f \in Folders, AddRepository(f) PROVE IInv'
  <2>1. UNCHANGED disk
    BY <1>6 DEF AddRepository
  <2>2. QED
    BY <1>1, <1>6, <2>1, AddRepositoryKeepsTable, AddRepositoryKeepsView, SameDisk
<1>7. ASSUME NEW f \in Folders, RemovedOutside(f) PROVE IInv'
  <2>1. UNCHANGED <<table, view>>
    BY <1>7 DEF RemovedOutside
  <2>2. DiskOK'
    BY <1>7 DEF RemovedOutside, DiskOK
  <2>3. QED
    BY <1>1, <2>1, <2>2, SameTable, SameView
<1>8. ASSUME ClearTarget PROVE IInv'
  <2>1. UNCHANGED <<disk, table>>
    BY <1>8 DEF ClearTarget
  <2>2. QED
    BY <1>1, <1>8, <2>1, ClearTargetKeepsView, SameDisk, SameTable
<1>9. ASSUME CreateWorktree PROVE IInv'
  <2>1. UNCHANGED table
    BY <1>9 DEF CreateWorktree
  <2>2. QED
    BY <1>1, <1>9, <2>1, CreateWorktreeKeepsView, SameTable
<1>10. ASSUME NEW home \in BOOLEAN, SetLaunchInHome(home) PROVE IInv'
  <2>1. UNCHANGED <<disk, table>>
    BY <1>10 DEF SetLaunchInHome
  <2>2. QED
    BY <1>1, <1>10, <2>1, SetLaunchInHomeKeepsView, SameDisk, SameTable
<1>11. ASSUME NEW key, PickProvider(key) PROVE IInv'
  <2>1. UNCHANGED <<disk, table, view>>
    BY <1>11 DEF PickProvider
  <2>2. QED
    BY <1>1, <2>1, SameDisk, SameTable, SameView
<1>12. QED
  BY <1>2, <1>3, <1>4, <1>5, <1>6, <1>7, <1>8, <1>9, <1>10, <1>11 DEF RailStep

LEMMA WorkerStepInv == ASSUME IInv, WorkerStep PROVE IInv'
<1> USE DEF IInv
<1>1. ASSUME RefreshKey PROVE IInv'
  <2>1. Refresh /\ UNCHANGED <<disk, table, view, version>>
    BY <1>1 DEF RefreshKey
  <2>2. JobOK'
    BY <2>1, RefreshKeepsJob DEF JobOK
  <2>3. QED
    BY <2>1, <2>2, SameDisk, SameTable, SameView
<1>2. ASSUME RefreshQueued PROVE IInv'
  <2>1. (Refresh \/ job' = job) /\ UNCHANGED <<disk, table, view, version>>
    BY <1>2 DEF RefreshQueued
  <2>2. JobOK'
    BY <2>1, RefreshKeepsJob DEF JobOK
  <2>3. QED
    BY <2>1, <2>2, SameDisk, SameTable, SameView
<1>3. ASSUME ReadRegistry PROVE IInv'
  <2>1. UNCHANGED <<disk, table, view, version>>
    BY <1>3 DEF ReadRegistry
  <2>2. JobOK'
    BY <1>3, <2>1, ReadRegistryKeepsJob DEF JobOK
  <2>3. QED
    BY <2>1, <2>2, SameDisk, SameTable, SameView
<1>4. ASSUME ReadWorkspace PROVE IInv'
  <2>1. UNCHANGED <<disk, view, version>>
    BY <1>4 DEF ReadWorkspace
  <2>2. JobOK'
    BY <1>4, <2>1, ReadWorkspaceKeepsJob DEF JobOK
  <2>3. QED
    BY <1>4, <2>1, <2>2, ReadWorkspaceKeepsTable, SameDisk, SameView
<1>5. ASSUME WorkerFails PROVE IInv'
  <2>1. UNCHANGED <<disk, table, view, version>>
    BY <1>5 DEF WorkerFails
  <2>2. JobOK'
    BY <1>5, <2>1 DEF WorkerFails, JobOK, Job
  <2>3. QED
    BY <2>1, <2>2, SameDisk, SameTable, SameView
<1>6. ASSUME RefreshFinished PROVE IInv'
  <2>1. UNCHANGED <<disk, table>>
    BY <1>6 DEF RefreshFinished
  <2>2. QED
    BY <1>6, <2>1, RefreshFinishedKeepsView, SameDisk, SameTable
<1>7. ASSUME ProbeAnswered PROVE IInv'
  <2>1. UNCHANGED <<disk, table, view, version, job>>
    BY <1>7 DEF ProbeAnswered
  <2>2. QED
    BY <2>1, SameDisk, SameTable, SameView, SameJob
<1>8. QED
  BY <1>1, <1>2, <1>3, <1>4, <1>5, <1>6, <1>7 DEF WorkerStep

LEMMA NextInv == IInv /\ [Next]_vars => IInv'
<1> SUFFICES ASSUME IInv, [Next]_vars PROVE IInv'
  OBVIOUS
<1>1. CASE SessionStep
  BY <1>1, SessionStepInv
<1>2. CASE RailStep
  BY <1>2, RailStepInv
<1>3. CASE WorkerStep
  BY <1>3, WorkerStepInv
<1>4. CASE Restart
  <2>1. UNCHANGED disk
    BY <1>4 DEF Restart
  <2>2. QED
    BY <1>4, <2>1, RestartKeepsTable, RestartKeepsView, SameDisk DEF IInv
<1>5. CASE UNCHANGED vars
  <2>1. UNCHANGED <<disk, table, view, version, job>>
    BY <1>5 DEF vars
  <2>2. QED
    BY <2>1, SameDisk, SameTable, SameView, SameJob DEF IInv
<1>6. QED
  BY <1>1, <1>2, <1>3, <1>4, <1>5 DEF Next

(* The tables and the view stay what a launch can build on.                *)
THEOREM WorkspaceInvariant == Spec => []IInv
<1>1. QED
  BY InitInv, NextInv, PTL DEF Spec

(* No running agent loses its row: the cascade of deleteRepository takes   *)
(* only rows whose sessions have ended.                                    *)
THEOREM RowsStayWithAgents == Spec => []AgentsHaveRows
<1>1. IInv => AgentsHaveRows
  BY DEF IInv, TableOK
<1>2. QED
  BY <1>1, WorkspaceInvariant, PTL

-----------------------------------------------------------------------------
(* The folders of running agents                                           *)

FolderStays ==
  \A s \in agents \cap agents' :
    /\ rows[s].dir \in folders
    /\ Top[rows[s].dir] \in {rows[s].dir, None}
    => rows[s].dir \in folders'

LEMMA MoreFolders == ASSUME folders \subseteq folders' PROVE FolderStays
BY DEF FolderStays

LEMMA DeleteWorktreeKeepsFolder ==
  ASSUME TableOK, NEW tree \in Folders, DeleteWorktree(tree)
  PROVE  FolderStays
<1>1. PICK seen \in SUBSET Ended, result \in {"ok", "refused", "unreported"} :
        /\ rows' = Noticed(seen)
        /\ result # "refused" => ~HasActiveSessionForWorktree(rows', tree)
        /\ IF result = "refused" THEN UNCHANGED disk
           ELSE folders' = folders \ GoneWith(tree)
  BY DEF DeleteWorktree
<1>2. CASE result = "refused"
  BY <1>1, <1>2, MoreFolders DEF disk
<1>3. CASE result # "refused"
  <2>1. /\ folders' = folders \ GoneWith(tree)
        /\ \A s \in Sessions : ~(rows'[s] # None /\ rows'[s].live /\ rows'[s].dir = tree)
    BY <1>1, <1>3 DEF HasActiveSessionForWorktree
  <2>2. seen \in SUBSET LiveRows /\ seen \cap agents = {}
    BY EndedAreLive
  <2>3. ASSUME NEW s \in agents PROVE rows[s].dir # tree
    <3>1. s \in Sessions /\ s \notin seen /\ rows[s] # None /\ rows[s].live
      BY <2>2, <2>3 DEF TableOK, AgentsHaveRows, IsLive
    <3>2. rows'[s] = rows[s]
      BY <1>1, <2>2, <3>1, NoticedTyped DEF TableOK
    <3>3. QED
      BY <2>1, <3>1, <3>2
  <2>4. tree # None
    BY FolderAssumption
  <2>5. QED
    BY <2>1, <2>3, <2>4 DEF FolderStays, GoneWith
<1>4. QED
  BY <1>2, <1>3

LEMMA RemovedOutsideKeepsFolder ==
  ASSUME NEW tree, RemovedOutside(tree)
  PROVE  FolderStays
BY DEF RemovedOutside, FolderStays, GoneWith

LEMMA StepKeepsFolder == IInv /\ [Next]_vars => [FolderStays]_vars
<1> SUFFICES ASSUME IInv, Next PROVE FolderStays
  BY DEF IInv
<1>1. CASE SessionStep
  <2>1. UNCHANGED disk
    BY <1>1 DEF SessionStep, Launch, Resume, Terminate, AgentEnds
  <2>2. QED
    BY <2>1, MoreFolders DEF disk
<1>2. CASE RailStep
  <2>1. ASSUME NEW f \in Folders, DeleteWorktree(f) PROVE FolderStays
    BY <2>1, DeleteWorktreeKeepsFolder DEF IInv
  <2>2. ASSUME NEW f \in Folders, RemovedOutside(f) PROVE FolderStays
    BY <2>2, RemovedOutsideKeepsFolder
  <2>3. ASSUME CreateWorktree PROVE FolderStays
    <3>1. folders \subseteq folders'
      BY <2>3 DEF CreateWorktree
    <3>2. QED
      BY <3>1, MoreFolders
  <2>4. ASSUME NEW id \in Ids, SelectRepo(id) \/ DeleteRepository(id) PROVE UNCHANGED disk
    BY <2>4 DEF SelectRepo, DeleteRepository
  <2>5. ASSUME NEW f \in Folders, SelectWorktree(f) \/ AddRepository(f) PROVE UNCHANGED disk
    BY <2>5 DEF SelectWorktree, AddRepository
  <2>6. ASSUME NEW home, NEW key, ClearTarget \/ SetLaunchInHome(home) \/ PickProvider(key)
        PROVE  UNCHANGED disk
    BY <2>6 DEF ClearTarget, SetLaunchInHome, PickProvider
  <2>7. UNCHANGED disk => FolderStays
    BY MoreFolders DEF disk
  <2>8. QED
    BY <1>2, <2>1, <2>2, <2>3, <2>4, <2>5, <2>6, <2>7 DEF RailStep
<1>3. CASE WorkerStep
  <2>1. UNCHANGED disk
    BY <1>3 DEF WorkerStep, RefreshKey, RefreshQueued, ReadRegistry, ReadWorkspace, WorkerFails,
                RefreshFinished, ProbeAnswered
  <2>2. QED
    BY <2>1, MoreFolders DEF disk
<1>4. CASE Restart
  <2>1. UNCHANGED disk
    BY <1>4 DEF Restart
  <2>2. QED
    BY <2>1, MoreFolders DEF disk
<1>5. QED
  BY <1>1, <1>2, <1>3, <1>4 DEF Next

(* Nothing Hydra or the user does takes the folder away an agent works in. *)
THEOREM FoldersStayWithAgents == Spec => AgentKeepsItsFolder
<1>1. [FolderStays]_vars <=>
        [\A s \in agents \cap agents' :
           /\ rows[s].dir \in folders
           /\ Top[rows[s].dir] \in {rows[s].dir, None}
           => rows[s].dir \in folders']_vars
  BY DEF FolderStays
<1>2. QED
  BY <1>1, WorkspaceInvariant, StepKeepsFolder, PTL DEF Spec, AgentKeepsItsFolder

-----------------------------------------------------------------------------
(* What the user removes from the registry or from git does not come back  *)
(* into the left rail: the versions of AppState let no answer through that *)
(* was read before the removal.                                            *)

(* Ids are handed out once and no repository is listed twice, what is gone *)
(* is in no table, and no answer that is still current has read it before. *)
Unique(l) == \A j, k \in DOMAIN l : l[j].id = l[k].id => j = k

IdsOK ==
  /\ born \in Nat
  /\ Unique(repos)
  /\ IdsOf(repos) \cup IdsOf(shown.repos) \cup IdsOf(job.repos) \subseteq 1 .. born
  /\ removed \subseteq Folders \cup 1 .. born

NotThere == removed \cap (IdsOf(repos) \cup linked) = {}

AnswerOK ==
  /\ job.version <= version
  /\ job.version = version =>
       removed \cap (IdsOf(job.repos) \cup job.workspace.trees) = {}

GoneInv == IdsOK /\ NotThere /\ AnswerOK /\ RemovedStaysGone

LEMMA WithoutUnique ==
  ASSUME NEW l \in Seq(Repo), Unique(l), NEW id
  PROVE  /\ Unique(Without(l, id))
         /\ IdsOf(Without(l, id)) = IdsOf(l) \ {id}
<1>1. CASE id \notin IdsOf(l)
  BY <1>1 DEF Without
<1>2. CASE id \in IdsOf(l)
  <2> DEFINE k == CHOOSE j \in DOMAIN l : l[j].id = id
             w == SubSeq(l, 1, k - 1) \o SubSeq(l, k + 1, Len(l))
             old(m) == IF m < k THEN m ELSE m + 1
  <2>1. \E j \in DOMAIN l : l[j].id = id
    BY <1>2 DEF IdsOf
  <2>2. k \in DOMAIN l /\ l[k].id = id
    BY <2>1
  <2>3. Without(l, id) = w
    BY <1>2 DEF Without
  <2>4. k \in 1 .. Len(l) /\ DOMAIN l = 1 .. Len(l) /\ Len(l) \in Nat
    BY <2>2
  <2>5. w = SubSeq(l, 1, k - 1) \o SubSeq(l, k + 1, Len(l))
    OBVIOUS
  <2> HIDE DEF k, w
  <2>6. /\ w \in Seq(Repo) /\ Len(w) = Len(l) - 1
        /\ \A m \in 1 .. Len(l) - 1 : w[m] = IF m < k THEN l[m] ELSE l[m + 1]
    BY <2>4, <2>5, Dropped
  <2>7. DOMAIN w = 1 .. Len(l) - 1
    BY <2>6
  <2>8. ASSUME NEW m \in DOMAIN w
        PROVE  old(m) \in DOMAIN l /\ old(m) # k /\ w[m] = l[old(m)]
    <3>1. old(m) \in 1 .. Len(l) /\ old(m) # k
      BY <2>4, <2>7
    <3>2. w[m] = l[old(m)]
      BY <2>6, <2>7
    <3>3. QED
      BY <2>4, <3>1, <3>2
  <2>9. \A m, n \in DOMAIN w : old(m) = old(n) => m = n
    BY <2>4, <2>7
  <2> HIDE DEF old
  <2>10. Unique(w)
    BY <2>8, <2>9 DEF Unique
  <2>11. IdsOf(w) \subseteq IdsOf(l) \ {id}
    BY <2>2, <2>8 DEF Unique, IdsOf
  <2>12. QED
    BY <2>3, <2>10, <2>11, WithoutTyped
<1>3. QED
  BY <1>1, <1>2

LEMMA PutFirstUnique ==
  ASSUME NEW l \in Seq(Repo), Unique(l), NEW r \in Repo, r.id \notin IdsOf(l)
  PROVE  Unique(<<r>> \o l)
<1> DEFINE w == <<r>> \o l
<1>1. w \in Seq(Repo)
  BY ConcatProperties
<1>2. /\ w[1] = r
      /\ \A i \in DOMAIN w : i = 1 \/ (i - 1 \in DOMAIN l /\ w[i] = l[i - 1])
  BY FirstAndRest
<1> HIDE DEF w
<1>3. ASSUME NEW i \in DOMAIN w, NEW j \in DOMAIN w, w[i].id = w[j].id PROVE i = j
  <2>1. i \in Int /\ j \in Int
    BY <1>1
  <2>2. CASE i = 1 \/ j = 1
    BY <1>2, <1>3, <2>2 DEF IdsOf
  <2>3. CASE i # 1 /\ j # 1
    <3>1. i - 1 = j - 1
      BY <1>2, <1>3, <2>3 DEF Unique
    <3>2. QED
      BY <2>1, <3>1
  <2>4. QED
    BY <2>2, <2>3
<1>4. QED
  BY <1>3 DEF Unique, w

(* A registered folder keeps its id or gets one that was never used.       *)
LEMMA EnsureUnique ==
  ASSUME repos \in Seq(Repo), Unique(repos), born \in Nat, IdsOf(repos) \subseteq 1 .. born,
         NEW path \in Folders, NEW boot \in BOOLEAN, NEW id \in Ids,
         EnsureRepository(path, boot, id)
  PROVE  /\ Unique(repos')
         /\ \/ IdsOf(repos') = IdsOf(repos) /\ born' = born
            \/ IdsOf(repos') = IdsOf(repos) \cup {born + 1} /\ born' = born + 1
<1>1. CASE At(path) = {}
  <2> DEFINE r == [id |-> id, path |-> path, boot |-> boot]
  <2>1. r \in Repo /\ r.id = id
    BY DEF Repo
  <2>2. repos' = <<r>> \o repos /\ id = born + 1 /\ born' = id
    BY <1>1 DEF EnsureRepository, InsertRepository
  <2> HIDE DEF r
  <2>3. id \notin IdsOf(repos)
    BY <2>2
  <2>4. QED
    BY <2>1, <2>2, <2>3, PutFirst, PutFirstUnique
<1>2. CASE At(path) # {}
  <2>1. PICK k \in At(path) :
          /\ id = repos[k].id
          /\ repos' = IF repos[k].boot = boot THEN repos
                      ELSE <<[repos[k] EXCEPT !.boot = boot]>> \o Without(repos, id)
    BY <1>2 DEF EnsureRepository
  <2>2. born' = born
    BY <1>2 DEF EnsureRepository
  <2>3. k \in DOMAIN repos /\ repos[k] \in Repo
    BY DEF At
  <2>4. CASE repos[k].boot = boot
    BY <2>1, <2>2, <2>4
  <2>5. CASE repos[k].boot # boot
    <3> DEFINE r == [repos[k] EXCEPT !.boot = boot]
    <3>1. r \in Repo /\ r.id = id
      BY <2>1, <2>3 DEF Repo
    <3>2. repos' = <<r>> \o Without(repos, id)
      BY <2>1, <2>5
    <3> HIDE DEF r
    <3>3. Without(repos, id) \in Seq(Repo) /\ Unique(Without(repos, id))
          /\ IdsOf(Without(repos, id)) = IdsOf(repos) \ {id}
      BY WithoutTyped, WithoutUnique
    <3>4. id \in IdsOf(repos)
      BY <2>1, <2>3 DEF IdsOf
    <3>5. Unique(repos') /\ IdsOf(repos') = {id} \cup (IdsOf(repos) \ {id})
      BY <3>1, <3>2, <3>3, PutFirst, PutFirstUnique
    <3>6. QED
      BY <2>2, <3>4, <3>5
  <2>6. QED
    BY <2>4, <2>5
<1>3. QED
  BY <1>1, <1>2

LEMMA LoadTrees ==
  ASSUME NEW l, NEW id, NEW broken
  PROVE  LoadWorkspace(l, id, broken).trees \subseteq linked
<1>1. NoWorkspace.trees = {} /\ \A f : [NoWorkspace EXCEPT !.root = f].trees = {}
  BY DEF NoWorkspace
<1>2. CASE id \notin IdsOf(l)
  BY <1>1, <1>2 DEF LoadWorkspace
<1>3. CASE id \in IdsOf(l) /\ ~InGit(RepoIn(l, id).path)
  BY <1>1, <1>3 DEF LoadWorkspace
<1>4. CASE id \in IdsOf(l) /\ InGit(RepoIn(l, id).path)
  <2> DEFINE path == RepoIn(l, id).path
  <2>1. LoadWorkspace(l, id, broken) =
          [root  |-> IF "context" \in broken THEN path ELSE Top[path],
           trees |-> IF "list" \in broken THEN {} ELSE linked,
           main  |-> Top[path]]
    BY <1>4 DEF LoadWorkspace
  <2>2. LoadWorkspace(l, id, broken).trees = IF "list" \in broken THEN {} ELSE linked
    BY <2>1
  <2>3. QED
    BY <2>2
<1>5. QED
  BY <1>2, <1>3, <1>4

LEMMA Displayed ==
  ASSUME NEW l, NEW ws
  PROVE  Display(l, ws).repos = l /\ Display(l, ws).trees = ws.trees
BY DEF Display

LEMMA Versions ==
  ASSUME JobOK
  PROVE  version \in Nat /\ job.version \in Nat
BY DEF JobOK, Job

(* A step that removes nothing and shows nothing but what is in the tables *)
(* or was shown.                                                           *)
LEMMA NothingRemoved ==
  ASSUME JobOK, GoneInv, UNCHANGED <<repos, born, removed, job>>,
         version' \in {version, version + 1}, linked' \subseteq linked,
         shown'.repos = shown.repos, shown'.trees \subseteq shown.trees \cup linked
  PROVE  GoneInv'
<1>1. IdsOK'
  BY DEF GoneInv, IdsOK
<1>2. NotThere'
  BY DEF GoneInv, NotThere
<1>3. AnswerOK'
  BY Versions DEF GoneInv, AnswerOK
<1>4. RemovedStaysGone'
  BY DEF GoneInv, NotThere, RemovedStaysGone
<1>5. QED
  BY <1>1, <1>2, <1>3, <1>4 DEF GoneInv

(* The same for a step that has the tables and the rail as they are.       *)
LEMMA NothingShown ==
  ASSUME JobOK, GoneInv, UNCHANGED <<linked, repos, born, removed, job, shown>>,
         version' \in {version, version + 1}
  PROVE  GoneInv'
BY NothingRemoved

LEMMA SessionStepGone == ASSUME IInv, GoneInv, SessionStep PROVE GoneInv'
<1>1. PICK s \in Sessions : Launch(s) \/ Resume(s) \/ Terminate(s) \/ AgentEnds(s)
  BY DEF SessionStep
<1>2. /\ UNCHANGED <<linked, repos, born, removed, job, shown>>
      /\ version' \in {version, version + 1}
  BY <1>1 DEF Launch, Resume, Terminate, AgentEnds, disk, view
<1>3. QED
  BY <1>2, NothingShown DEF IInv

LEMMA SelectRepoGone ==
  ASSUME JobOK, GoneInv, NEW id, SelectRepo(id)
  PROVE  GoneInv'
<1>1. PICK broken : shown' = Display(shown.repos, LoadWorkspace(repos, id, broken))
  BY DEF SelectRepo
<1>2. UNCHANGED <<linked, repos, born, removed, job>> /\ version' = version + 1
  BY DEF SelectRepo, disk, table
<1>3. shown'.repos = shown.repos /\ shown'.trees \subseteq linked
  BY <1>1, Displayed, LoadTrees
<1>4. QED
  BY <1>2, <1>3, NothingRemoved

LEMMA ClearTargetGone ==
  ASSUME JobOK, GoneInv, ClearTarget
  PROVE  GoneInv'
<1>1. shown' = Display(shown.repos, NoWorkspace) /\ NoWorkspace.trees = {}
  BY DEF ClearTarget, NoWorkspace
<1>2. UNCHANGED <<linked, repos, born, removed, job>> /\ version' = version + 1
  BY DEF ClearTarget, disk, table
<1>3. shown'.repos = shown.repos /\ shown'.trees = {}
  BY <1>1, Displayed
<1>4. QED
  BY <1>2, <1>3, NothingRemoved

(* A repository that is added has an id no removed one had; an answer that *)
(* is current may be older than it, but has nothing that was removed.      *)
LEMMA AddRepositoryGone ==
  ASSUME TableOK, JobOK, GoneInv, NEW path \in Folders, AddRepository(path)
  PROVE  GoneInv'
<1>1. PICK id \in Ids, broken \in Broken :
        /\ EnsureRepository(path, FALSE, id)
        /\ shown' = Display(repos', LoadWorkspace(repos', id, broken))
        /\ version' \in {version, version + 1}
  BY DEF AddRepository
<1>2. UNCHANGED <<linked, removed, job>>
  BY DEF AddRepository, disk
<1>3. shown'.repos = repos' /\ shown'.trees \subseteq linked
  BY <1>1, Displayed, LoadTrees
<1>4. /\ repos \in Seq(Repo) /\ Unique(repos) /\ born \in Nat
      /\ IdsOf(repos) \subseteq 1 .. born
  BY DEF TableOK, GoneInv, IdsOK
<1>5. /\ Unique(repos')
      /\ \/ IdsOf(repos') = IdsOf(repos) /\ born' = born
         \/ IdsOf(repos') = IdsOf(repos) \cup {born + 1} /\ born' = born + 1
  BY <1>1, <1>4, EnsureUnique
<1>6. born' \in Nat /\ 1 .. born \subseteq 1 .. born'
  BY <1>4, <1>5
<1>7. IdsOf(repos') \subseteq 1 .. born'
  BY <1>4, <1>5
<1>8. IdsOK'
  <2>1. IdsOf(shown'.repos) \subseteq 1 .. born' /\ IdsOf(job'.repos) \subseteq 1 .. born'
    BY <1>2, <1>3, <1>6, <1>7 DEF GoneInv, IdsOK
  <2>2. removed' \subseteq Folders \cup 1 .. born'
    BY <1>2, <1>6 DEF GoneInv, IdsOK
  <2>3. QED
    BY <1>5, <1>6, <1>7, <2>1, <2>2 DEF IdsOK
<1>9. removed \cap IdsOf(repos') = {}
  <2>1. CASE IdsOf(repos') = IdsOf(repos)
    BY <2>1 DEF GoneInv, NotThere
  <2>2. CASE IdsOf(repos') = IdsOf(repos) \cup {born + 1} /\ born' = born + 1
    <3>1. born + 1 \in Ids
      BY <1>1, <1>4, <1>5, <2>2, IdsTyped, EnsureKeeps
    <3>2. born + 1 \notin Folders /\ born + 1 \notin 1 .. born
      BY <1>4, <3>1, IdAssumption
    <3>3. born + 1 \notin removed
      BY <3>2 DEF GoneInv, IdsOK
    <3>4. QED
      BY <2>2, <3>3 DEF GoneInv, NotThere
  <2>3. QED
    BY <1>5, <2>1, <2>2
<1>10. NotThere'
  BY <1>2, <1>9 DEF GoneInv, NotThere
<1>11. AnswerOK'
  BY <1>1, <1>2, Versions DEF GoneInv, AnswerOK
<1>12. RemovedStaysGone'
  BY <1>2, <1>3, <1>9 DEF GoneInv, NotThere, RemovedStaysGone
<1>13. QED
  BY <1>8, <1>10, <1>11, <1>12 DEF GoneInv

(* What is removed raises the version: an answer under way is not current. *)
LEMMA DeleteRepositoryGone ==
  ASSUME IInv, GoneInv, NEW id \in Ids, DeleteRepository(id)
  PROVE  GoneInv'
<1>1. PICK broken \in Broken :
        \/ UNCHANGED <<repos, view, version, removed>>
        \/ /\ repos' = Without(repos, id)
           /\ shown' = Display(repos', Reloaded(Without(repos, id), target, broken).workspace)
           /\ version' = version + 1
           /\ removed' = removed \cup {id}
  BY DEF DeleteRepository
<1>2. UNCHANGED <<linked, job, born>> /\ id \in IdsOf(shown.repos)
  BY DEF DeleteRepository, disk
<1>3. CASE UNCHANGED <<repos, view, version, removed>>
  BY <1>2, <1>3, NothingShown DEF view, IInv
<1>4. CASE ~UNCHANGED <<repos, view, version, removed>>
  <2>1. /\ repos' = Without(repos, id) /\ version' = version + 1
        /\ removed' = removed \cup {id}
        /\ shown' = Display(repos', Reloaded(Without(repos, id), target, broken).workspace)
    BY <1>1, <1>4
  <2>2. Unique(repos') /\ IdsOf(repos') = IdsOf(repos) \ {id}
    BY <2>1, WithoutUnique DEF IInv, TableOK, GoneInv, IdsOK
  <2>3. shown'.repos = repos' /\ shown'.trees \subseteq linked
    BY <2>1, Displayed, LoadTrees DEF Reloaded
  <2>4. id \notin linked
    BY IdAssumption, TreesAreFolders DEF IInv, DiskOK
  <2>5. id \in 1 .. born
    BY <1>2 DEF GoneInv, IdsOK
  <2>6. IdsOK'
    BY <1>2, <2>1, <2>2, <2>3, <2>5 DEF GoneInv, IdsOK
  <2>7. NotThere'
    BY <1>2, <2>1, <2>2, <2>4 DEF GoneInv, NotThere
  <2>8. AnswerOK'
    BY <1>2, <2>1, Versions DEF IInv, GoneInv, AnswerOK
  <2>9. RemovedStaysGone'
    BY <1>2, <2>3, <2>7 DEF NotThere, RemovedStaysGone
  <2>10. QED
    BY <2>6, <2>7, <2>8, <2>9 DEF GoneInv
<1>5. QED
  BY <1>3, <1>4

LEMMA CreateWorktreeGone ==
  ASSUME JobOK, GoneInv, CreateWorktree
  PROVE  GoneInv'
<1>1. PICK k \in FreeNames, broken \in Broken :
        LET tree == NewTrees[k]
            load == LoadWorkspace(repos, target.repo, broken)
            ws   == [load EXCEPT !.trees = IF @ = {} THEN {} ELSE @ \cup {tree}]
        IN /\ linked' = linked \cup {tree}
           /\ removed' = removed \ {tree}
           /\ \/ UNCHANGED <<view, version>>
              \/ shown' = Display(shown.repos, ws) /\ version' = version + 1
  BY DEF CreateWorktree
<1> DEFINE tree == NewTrees[k]
           load == LoadWorkspace(repos, target.repo, broken)
           ws == [load EXCEPT !.trees = IF @ = {} THEN {} ELSE @ \cup {tree}]
<1>2. ws.trees \subseteq load.trees \cup {tree} /\ load.trees \subseteq linked
  <2>1. load.trees \subseteq linked
    BY LoadTrees
  <2>2. ws.trees \subseteq load.trees \cup {tree}
    BY DEF LoadWorkspace, NoWorkspace
  <2>3. QED
    BY <2>1, <2>2
<1>3. /\ linked' = linked \cup {tree} /\ removed' = removed \ {tree}
      /\ \/ UNCHANGED <<view, version>>
         \/ shown' = Display(shown.repos, ws) /\ version' = version + 1
  BY <1>1
<1> HIDE DEF tree, load, ws
<1>4. UNCHANGED <<repos, born, job>>
  BY DEF CreateWorktree, table
<1>5. /\ shown'.repos = shown.repos
      /\ shown'.trees \subseteq shown.trees \cup linked \cup {tree}
  <2>1. CASE UNCHANGED <<view, version>>
    BY <2>1 DEF view
  <2>2. CASE shown' = Display(shown.repos, ws)
    BY <1>2, <2>2, Displayed
  <2>3. QED
    BY <1>3, <2>1, <2>2
<1>6. IdsOK'
  BY <1>3, <1>4, <1>5 DEF GoneInv, IdsOK
<1>7. NotThere'
  BY <1>3, <1>4 DEF GoneInv, NotThere
<1>8. AnswerOK'
  BY <1>3, <1>4, Versions DEF GoneInv, AnswerOK
<1>9. RemovedStaysGone'
  BY <1>3, <1>5 DEF GoneInv, NotThere, RemovedStaysGone
<1>10. QED
  BY <1>6, <1>7, <1>8, <1>9 DEF GoneInv

LEMMA DeleteWorktreeGone ==
  ASSUME IInv, GoneInv, NEW tree \in Folders, DeleteWorktree(tree)
  PROVE  GoneInv'
<1>1. PICK broken \in Broken :
        LET load == LoadWorkspace(repos, target.repo, broken)
            ws   == [load EXCEPT !.trees = @ \ {tree}]
        IN \/ linked' \subseteq linked /\ UNCHANGED <<view, version, removed>>
           \/ /\ linked' = linked \ {tree}
              /\ shown' = Display(shown.repos, ws) /\ version' = version + 1
              /\ removed' = removed \cup {tree}
  BY DEF DeleteWorktree, disk
<1> DEFINE load == LoadWorkspace(repos, target.repo, broken)
           ws == [load EXCEPT !.trees = @ \ {tree}]
<1>2. load.trees \subseteq linked
  BY LoadTrees
<1>3. ws.trees \subseteq load.trees \ {tree}
  BY DEF LoadWorkspace, NoWorkspace
<1>4. \/ linked' \subseteq linked /\ UNCHANGED <<view, version, removed>>
      \/ /\ linked' = linked \ {tree}
         /\ shown' = Display(shown.repos, ws) /\ version' = version + 1
         /\ removed' = removed \cup {tree}
  BY <1>1
<1> HIDE DEF load, ws
<1>5. UNCHANGED <<repos, born, job>>
  BY DEF DeleteWorktree
<1>6. CASE linked' \subseteq linked /\ UNCHANGED <<view, version, removed>>
  BY <1>5, <1>6, NothingRemoved DEF view, IInv
<1>7. CASE /\ linked' = linked \ {tree}
           /\ shown' = Display(shown.repos, ws) /\ version' = version + 1
           /\ removed' = removed \cup {tree}
  <2>1. shown'.repos = shown.repos /\ shown'.trees \subseteq linked \ {tree}
    BY <1>2, <1>3, <1>7, Displayed
  <2>2. tree \notin IdsOf(repos) /\ tree \notin IdsOf(shown.repos)
    <3>1. repos \in Seq(Repo) /\ shown.repos \in Seq(Repo)
      BY DEF IInv, TableOK, ViewOK, Rail
    <3>2. QED
      BY <3>1, IdsTyped, IdAssumption
  <2>3. IdsOK'
    BY <1>5, <1>7, <2>1 DEF GoneInv, IdsOK
  <2>4. NotThere'
    BY <1>5, <1>7, <2>2 DEF GoneInv, NotThere
  <2>5. AnswerOK'
    BY <1>5, <1>7, Versions DEF IInv, GoneInv, AnswerOK
  <2>6. RemovedStaysGone'
    BY <1>7, <2>1, <2>2 DEF GoneInv, NotThere, RemovedStaysGone
  <2>7. QED
    BY <2>3, <2>4, <2>5, <2>6 DEF GoneInv
<1>8. QED
  BY <1>4, <1>6, <1>7

LEMMA RailStepGone == ASSUME IInv, GoneInv, RailStep PROVE GoneInv'
<1>1. ASSUME NEW id \in Ids, SelectRepo(id) \/ DeleteRepository(id) PROVE GoneInv'
  BY <1>1, SelectRepoGone, DeleteRepositoryGone DEF IInv
<1>2. ASSUME NEW f \in Folders, DeleteWorktree(f) \/ AddRepository(f) PROVE GoneInv'
  BY <1>2, DeleteWorktreeGone, AddRepositoryGone DEF IInv
<1>3. ASSUME ClearTarget \/ CreateWorktree PROVE GoneInv'
  BY <1>3, ClearTargetGone, CreateWorktreeGone DEF IInv
<1>4. ASSUME NEW f \in Folders, SelectWorktree(f) PROVE GoneInv'
  <2>1. /\ UNCHANGED <<linked, repos, born, removed, job, shown>> /\ version' = version + 1
    BY <1>4 DEF SelectWorktree, disk, table
  <2>2. QED
    BY <2>1, NothingShown DEF IInv
<1>5. ASSUME NEW f \in Folders, RemovedOutside(f) PROVE GoneInv'
  <2>1. /\ UNCHANGED <<repos, born, removed, job, shown, version>> /\ linked' \subseteq linked
    BY <1>5 DEF RemovedOutside, table, view
  <2>2. QED
    BY <2>1, NothingRemoved DEF IInv
<1>6. ASSUME NEW home, SetLaunchInHome(home) PROVE GoneInv'
  <2>1. UNCHANGED <<linked, repos, born, removed, job, shown, version>>
    BY <1>6 DEF SetLaunchInHome, disk, table
  <2>2. QED
    BY <2>1, NothingShown DEF IInv
<1>7. ASSUME NEW key, PickProvider(key) PROVE GoneInv'
  <2>1. /\ UNCHANGED <<linked, repos, born, removed, job, shown>> /\ version' = version + 1
    BY <1>7 DEF PickProvider, disk, table, view
  <2>2. QED
    BY <2>1, NothingShown DEF IInv
<1>8. QED
  BY <1>1, <1>2, <1>3, <1>4, <1>5, <1>6, <1>7 DEF RailStep

LEMMA NoAnswer == Idle.version = 0 /\ IdsOf(Idle.repos) = {} /\ Idle.workspace.trees = {}
BY DEF Idle, NoWorkspace, IdsOf

(* A step of the worker: what it takes in was in the tables just then.     *)
LEMMA Answers ==
  ASSUME GoneInv, UNCHANGED <<linked, repos, born, removed, version, shown>>,
         IdsOf(job'.repos) \subseteq 1 .. born, job'.version <= version,
         job'.version = version =>
           removed \cap (IdsOf(job'.repos) \cup job'.workspace.trees) = {}
  PROVE  GoneInv'
BY DEF GoneInv, IdsOK, NotThere, AnswerOK, RemovedStaysGone

LEMMA RefreshAsks ==
  ASSUME JobOK, GoneInv, Refresh, UNCHANGED <<linked, repos, born, removed, version, shown>>
  PROVE  GoneInv'
<1>1. job' = [Idle EXCEPT !.pc = "list", !.version = version, !.repo = target.repo,
                          !.keep = target.keep]
  BY DEF Refresh
<1>2. /\ job'.version = version /\ job'.repos = Idle.repos
      /\ job'.workspace = Idle.workspace
  BY <1>1 DEF Idle
<1>3. QED
  BY <1>2, NoAnswer, Versions, Answers

LEMMA ReadRegistryAnswers ==
  ASSUME JobOK, GoneInv, ReadRegistry
  PROVE  GoneInv'
<1>1. PICK id : job' = [job EXCEPT !.pc = "read", !.repos = repos, !.repo = id]
  BY DEF ReadRegistry
<1>2. UNCHANGED <<linked, repos, born, removed, version, shown>>
  BY DEF ReadRegistry, disk, table, view
<1>3. /\ job'.version = job.version /\ job'.repos = repos
      /\ job'.workspace = job.workspace
  BY <1>1 DEF JobOK, Job
<1>4. /\ IdsOf(repos) \subseteq 1 .. born /\ job.version <= version
      /\ removed \cap IdsOf(repos) = {}
      /\ job.version = version => removed \cap job.workspace.trees = {}
  BY DEF GoneInv, IdsOK, NotThere, AnswerOK
<1>5. QED
  BY <1>2, <1>3, <1>4, Answers

LEMMA ReadWorkspaceAnswers ==
  ASSUME JobOK, GoneInv, ReadWorkspace
  PROVE  GoneInv'
<1>1. PICK broken :
        job' = [job EXCEPT !.pc = "done", !.workspace = LoadWorkspace(repos, job.repo, broken)]
  BY DEF ReadWorkspace
<1>2. UNCHANGED <<linked, repos, born, removed, version, shown>>
  BY DEF ReadWorkspace, disk, view
<1>3. /\ job'.version = job.version /\ job'.repos = job.repos
      /\ job'.workspace = LoadWorkspace(repos, job.repo, broken)
  BY <1>1 DEF JobOK, Job
<1>4. job'.workspace.trees \subseteq linked
  BY <1>3, LoadTrees
<1>5. /\ IdsOf(job.repos) \subseteq 1 .. born /\ job.version <= version
      /\ removed \cap linked = {}
      /\ job.version = version => removed \cap IdsOf(job.repos) = {}
  BY DEF GoneInv, IdsOK, NotThere, AnswerOK
<1>6. QED
  BY <1>2, <1>3, <1>4, <1>5, Answers

LEMMA RefreshFinishedGone ==
  ASSUME JobOK, GoneInv, RefreshFinished
  PROVE  GoneInv'
<1>1. /\ job' = Idle
      /\ IF Current /\ ~job.error THEN Apply(job) ELSE UNCHANGED view
  BY DEF RefreshFinished
<1>2. UNCHANGED <<linked, repos, born, removed, version>>
  BY DEF RefreshFinished, disk, table
<1>3. \/ shown' = shown
      \/ /\ job.version = version
         /\ shown'.repos = job.repos /\ shown'.trees = job.workspace.trees
  BY <1>1, Displayed DEF view, Apply, Current
<1>4. IdsOf(shown'.repos) \subseteq 1 .. born
  BY <1>3 DEF GoneInv, IdsOK
<1>5. removed \cap (IdsOf(shown'.repos) \cup shown'.trees) = {}
  BY <1>3 DEF GoneInv, AnswerOK, RemovedStaysGone
<1>6. /\ IdsOf(job'.repos) = {} /\ job'.workspace.trees = {}
      /\ job'.version <= version
  BY <1>1, NoAnswer, Versions
<1>7. IdsOK'
  BY <1>2, <1>4, <1>6 DEF GoneInv, IdsOK
<1>8. QED
  BY <1>2, <1>5, <1>6, <1>7 DEF GoneInv, NotThere, AnswerOK, RemovedStaysGone

LEMMA WorkerStepGone == ASSUME IInv, GoneInv, WorkerStep PROVE GoneInv'
<1>1. ASSUME RefreshKey \/ RefreshQueued PROVE GoneInv'
  <2>1. /\ UNCHANGED <<linked, repos, born, removed, version, shown>>
        /\ Refresh \/ job' = job
    BY <1>1 DEF RefreshKey, RefreshQueued, disk, table, view
  <2>2. QED
    BY <2>1, RefreshAsks, NothingShown DEF IInv
<1>2. ASSUME WorkerFails PROVE GoneInv'
  <2>1. UNCHANGED <<linked, repos, born, removed, version, shown>>
    BY <1>2 DEF WorkerFails, disk, table, view
  <2>2. job' = [job EXCEPT !.pc = "done", !.error = TRUE]
    BY <1>2 DEF WorkerFails
  <2>3. /\ job'.version = job.version /\ job'.repos = job.repos
        /\ job'.workspace = job.workspace
    BY <2>2 DEF IInv, JobOK, Job
  <2>4. QED
    BY <2>1, <2>3, Answers DEF GoneInv, IdsOK, AnswerOK
<1>3. ASSUME ProbeAnswered PROVE GoneInv'
  <2>1. UNCHANGED <<linked, repos, born, removed, version, shown, job>>
    BY <1>3 DEF ProbeAnswered, disk, table, view
  <2>2. QED
    BY <2>1, NothingShown DEF IInv
<1>4. QED
  BY <1>1, <1>2, <1>3, ReadRegistryAnswers, ReadWorkspaceAnswers, RefreshFinishedGone
  DEF WorkerStep, IInv

LEMMA RestartGone == ASSUME IInv, GoneInv, Restart PROVE GoneInv'
<1>1. /\ shown' = Display(<<>>, NoWorkspace) /\ version' = 0 /\ job' = Idle
      /\ UNCHANGED <<linked, removed>>
  BY DEF Restart, disk
<1>2. shown'.repos = <<>> /\ shown'.trees = {} /\ IdsOf(shown'.repos) = {}
  BY <1>1, Displayed DEF NoWorkspace, IdsOf
<1>3. /\ repos \in Seq(Repo) /\ Unique(repos) /\ born \in Nat
      /\ IdsOf(repos) \subseteq 1 .. born
  BY DEF IInv, TableOK, GoneInv, IdsOK
<1>4. /\ Unique(repos')
      /\ \/ IdsOf(repos') = IdsOf(repos) /\ born' = born
         \/ /\ IdsOf(repos') = IdsOf(repos) \cup {born + 1} /\ born' = born + 1
            /\ born + 1 \in Ids
  <2>1. CASE At(Bootstrap) = {}
    <3>1. PICK id \in Ids : EnsureRepository(Bootstrap, TRUE, id)
      BY <2>1 DEF Restart
    <3>2. Bootstrap \in Folders
      BY FolderAssumption
    <3>3. repos' \in Seq(Repo)
      BY <1>3, <3>1, <3>2, EnsureKeeps
    <3>4. IdsOf(repos') \subseteq Ids
      BY <3>3, IdsTyped
    <3>5. QED
      BY <1>3, <3>1, <3>2, <3>4, EnsureUnique
  <2>2. CASE At(Bootstrap) # {}
    BY <1>3, <2>2 DEF Restart
  <2>3. QED
    BY <2>1, <2>2
<1>5. born' \in Nat /\ 1 .. born \subseteq 1 .. born' /\ IdsOf(repos') \subseteq 1 .. born'
  BY <1>3, <1>4
<1>6. IdsOK'
  BY <1>1, <1>2, <1>4, <1>5, NoAnswer DEF GoneInv, IdsOK
<1>7. NotThere'
  <2>1. removed \cap IdsOf(repos') = {}
    <3>1. CASE IdsOf(repos') = IdsOf(repos)
      BY <3>1 DEF GoneInv, NotThere
    <3>2. CASE IdsOf(repos') = IdsOf(repos) \cup {born + 1} /\ born + 1 \in Ids
      <4>1. born + 1 \notin Folders /\ born + 1 \notin 1 .. born
        BY <1>3, <3>2, IdAssumption
      <4>2. born + 1 \notin removed
        BY <4>1 DEF GoneInv, IdsOK
      <4>3. QED
        BY <3>2, <4>2 DEF GoneInv, NotThere
    <3>3. QED
      BY <1>4, <3>1, <3>2
  <2>2. QED
    BY <1>1, <2>1 DEF GoneInv, NotThere
<1>8. AnswerOK'
  BY <1>1, NoAnswer DEF AnswerOK
<1>9. RemovedStaysGone'
  BY <1>2 DEF RemovedStaysGone
<1>10. QED
  BY <1>6, <1>7, <1>8, <1>9 DEF GoneInv

(* The first start hands out its ids in the order of the list.             *)
LEMMA InitIds ==
  ASSUME Init PROVE DOMAIN repos = 1 .. Len(repos) /\ \A k \in DOMAIN repos : repos[k].id = k
<1>1. PICK earlier :
        repos = <<[id |-> 1, path |-> Bootstrap, boot |-> TRUE]>>
                  \o (IF earlier = {} THEN <<>>
                      ELSE <<[id |-> 2, path |-> CHOOSE f \in earlier : TRUE,
                              boot |-> FALSE]>>)
  BY DEF Init
<1>2. CASE earlier = {}
  <2>1. repos = <<[id |-> 1, path |-> Bootstrap, boot |-> TRUE]>>
    BY <1>1, <1>2
  <2>2. QED
    BY <2>1
<1>3. CASE earlier # {}
  <2> DEFINE first == [id |-> 1, path |-> Bootstrap, boot |-> TRUE]
             second == [id |-> 2, path |-> CHOOSE f \in earlier : TRUE, boot |-> FALSE]
  <2>1. repos = <<first>> \o <<second>> /\ first.id = 1 /\ second.id = 2
    BY <1>1, <1>3
  <2> HIDE DEF first, second
  <2>2. DOMAIN repos = 1 .. 2 /\ repos[1] = first /\ repos[2] = second
    BY <2>1
  <2>3. repos[1].id = 1 /\ repos[2].id = 2
    BY <2>1, <2>2
  <2>4. ASSUME NEW k \in DOMAIN repos PROVE k = 1 \/ k = 2
    BY <2>2
  <2>5. QED
    BY <2>3, <2>4
<1>4. QED
  BY <1>2, <1>3

LEMMA InitGone == Init => GoneInv
<1> SUFFICES ASSUME Init PROVE GoneInv
  OBVIOUS
<1>1. Len(repos) \in Nat /\ born = Len(repos) /\ DOMAIN repos = 1 .. Len(repos)
  BY InitInv DEF Init, IInv, TableOK
<1>2. \A k \in DOMAIN repos : repos[k].id = k
  BY InitIds
<1>3. Unique(repos) /\ IdsOf(repos) \subseteq 1 .. born
  BY <1>1, <1>2 DEF Unique, IdsOf
<1>4. shown = Display(<<>>, NoWorkspace) /\ job = Idle /\ version = 0 /\ removed = {}
  BY DEF Init
<1>5. IdsOf(shown.repos) = {}
  BY <1>4, Displayed DEF IdsOf
<1>6. QED
  BY <1>1, <1>3, <1>4, <1>5, NoAnswer
  DEF GoneInv, IdsOK, NotThere, AnswerOK, RemovedStaysGone

LEMMA NextGone == IInv /\ GoneInv /\ [Next]_vars => GoneInv'
<1> SUFFICES ASSUME IInv, GoneInv, [Next]_vars PROVE GoneInv'
  OBVIOUS
<1>1. CASE UNCHANGED vars
  <2>1. UNCHANGED <<linked, repos, born, removed, job, shown, version>>
    BY <1>1 DEF vars, disk, table, view
  <2>2. QED
    BY <2>1, NothingShown DEF IInv
<1>2. CASE Next
  BY <1>2, SessionStepGone, RailStepGone, WorkerStepGone, RestartGone DEF Next
<1>3. QED
  BY <1>1, <1>2

(* What the user removed does not come back into the left rail with an     *)
(* answer that was under way.                                              *)
THEOREM RemovedNeverShown == Spec => []RemovedStaysGone
<1>1. GoneInv => RemovedStaysGone
  BY DEF GoneInv
<1>2. QED
  BY <1>1, InitGone, NextGone, WorkspaceInvariant, PTL DEF Spec

-----------------------------------------------------------------------------
(* What the user chose stays selected.                                     *)

(* git lists the checkout of every folder that is there, and every id      *)
(* handed out is registered still or was removed.                          *)
LinkedOK == \A f \in folders : Top[f] # None => Top[f] \in linked

HandedOK == \A id \in Ids : id <= born => id \in IdsOf(repos) \cup removed

(* What the selection of a repository in l settles to, as long as git      *)
(* answers: a checkout git lists, or the folder itself outside of git.     *)
Place(l, tgt) ==
  \/ tgt.repo = None /\ tgt.keep /\ tgt.tree = None
  \/ \E k \in DOMAIN l :
       /\ l[k].id = tgt.repo
       /\ IF InGit(l[k].path) THEN tgt.tree \in linked ELSE tgt.tree = l[k].path

(* What Follow leaves as it is.                                            *)
Fits(tree, ws) == tree \in ws.trees \/ (ws.main \notin ws.trees /\ ws.root = tree)

(* An answer that is still current was asked for what is selected.         *)
AnswerFits ==
  job.version = version =>
    /\ job.pc \in {"list", "read"} => job.repo = target.repo
    /\ job.pc = "list" => job.keep = target.keep
    /\ job.pc = "done" /\ ~job.error =>
         job.repo = target.repo /\ Fits(target.tree, job.workspace)

Chose(tgt) == <<target.repo, target.tree, target.home>> = <<tgt.repo, tgt.tree, tgt.home>>

ChosenOK ==
  chosen # None => /\ Chose(chosen) /\ saved = target
                   /\ Place(repos, target)
                   /\ AnswerFits

StickInv == LinkedOK /\ HandedOK /\ ChosenOK

(* An id that is listed once names its repository.                         *)
LEMMA RepoFound ==
  ASSUME NEW l \in Seq(Repo), Unique(l), NEW k \in DOMAIN l
  PROVE  RepoIn(l, l[k].id) = l[k] /\ l[k].id \in IdsOf(l)
<1> DEFINE S == {l[j] : j \in DOMAIN l}
<1>1. \E r \in S : r.id = l[k].id
  OBVIOUS
<1>2. RepoIn(l, l[k].id) \in S /\ RepoIn(l, l[k].id).id = l[k].id
  BY <1>1 DEF RepoIn
<1>3. PICK j \in DOMAIN l : RepoIn(l, l[k].id) = l[j]
  BY <1>2
<1>4. j = k
  BY <1>2, <1>3 DEF Unique
<1>5. QED
  BY <1>3, <1>4 DEF IdsOf

(* What git says of a registered folder, when it answers.                  *)
LEMMA Loaded ==
  ASSUME NEW l \in Seq(Repo), Unique(l), NEW k \in DOMAIN l, NEW ws,
         ws = LoadWorkspace(l, l[k].id, {})
  PROVE  /\ InGit(l[k].path) =>
              /\ ws.trees = linked
              /\ ws.main = Top[l[k].path] /\ ws.root = Top[l[k].path]
         /\ ~InGit(l[k].path) =>
              ws.trees = {} /\ ws.main = None /\ ws.root = l[k].path
<1>1. RepoIn(l, l[k].id) = l[k] /\ l[k].id \in IdsOf(l)
  BY RepoFound
<1>2. CASE InGit(l[k].path)
  <2>1. ws = [root |-> Top[l[k].path], trees |-> linked, main |-> Top[l[k].path]]
    BY <1>1, <1>2 DEF LoadWorkspace
  <2>2. QED
    BY <1>2, <2>1
<1>3. CASE ~InGit(l[k].path)
  <2>1. ws = [NoWorkspace EXCEPT !.root = l[k].path]
    BY <1>1, <1>3 DEF LoadWorkspace
  <2>2. QED
    BY <1>3, <2>1 DEF NoWorkspace
<1>4. QED
  BY <1>2, <1>3

(* A selection that fits what git says is in its place, and the other way  *)
(* round.                                                                  *)
LEMMA Settles ==
  ASSUME LinkedOK, NEW l \in Seq(Repo), Unique(l), NEW tgt, tgt.repo \in IdsOf(l),
         Fits(tgt.tree, LoadWorkspace(l, tgt.repo, {}))
  PROVE  Place(l, tgt)
<1>1. PICK k \in DOMAIN l : l[k].id = tgt.repo
  BY DEF IdsOf
<1> DEFINE ws == LoadWorkspace(l, tgt.repo, {})
<1>2. /\ InGit(l[k].path) =>
           /\ ws.trees = linked
           /\ ws.main = Top[l[k].path] /\ ws.root = Top[l[k].path]
      /\ ~InGit(l[k].path) =>
           ws.trees = {} /\ ws.main = None /\ ws.root = l[k].path
  BY <1>1, Loaded
<1>3. Fits(tgt.tree, ws)
  OBVIOUS
<1> HIDE DEF ws
<1>4. InGit(l[k].path) => tgt.tree \in linked
  BY <1>2, <1>3 DEF Fits, InGit, LinkedOK
<1>5. ~InGit(l[k].path) => tgt.tree = l[k].path
  BY <1>2, <1>3 DEF Fits
<1>6. QED
  BY <1>1, <1>4, <1>5 DEF Place

LEMMA PlaceFits ==
  ASSUME NEW l \in Seq(Repo), Unique(l), NEW tgt, Place(l, tgt)
  PROVE  /\ tgt.repo \in IdsOf(l) \/ (tgt.repo = None /\ tgt.keep)
         /\ Fits(tgt.tree, LoadWorkspace(l, tgt.repo, {}))
<1>1. CASE tgt.repo = None /\ tgt.keep /\ tgt.tree = None
  <2>1. None \notin IdsOf(l)
    BY IdsTyped, IdAssumption
  <2>2. LoadWorkspace(l, tgt.repo, {}) = NoWorkspace
    BY <1>1, <2>1 DEF LoadWorkspace
  <2>3. QED
    BY <1>1, <2>2 DEF Fits, NoWorkspace
<1>2. ASSUME NEW k \in DOMAIN l, l[k].id = tgt.repo,
             IF InGit(l[k].path) THEN tgt.tree \in linked ELSE tgt.tree = l[k].path
      PROVE  /\ tgt.repo \in IdsOf(l)
             /\ Fits(tgt.tree, LoadWorkspace(l, tgt.repo, {}))
  BY <1>2, Loaded, RepoFound DEF Fits
<1>3. QED
  BY <1>1, <1>2 DEF Place

LEMMA FollowFits ==
  ASSUME NEW tgt \in Target, NEW ws
  PROVE  /\ Fits(Follow(tgt, ws).tree, ws)
         /\ Follow(tgt, ws).repo = tgt.repo /\ Follow(tgt, ws).keep = tgt.keep
         /\ Fits(tgt.tree, ws) => Follow(tgt, ws) = tgt
<1> DEFINE next == IF tgt.tree \in ws.trees THEN tgt.tree
                   ELSE IF ws.main \in ws.trees THEN ws.main ELSE ws.root
           home == tgt.home /\ next \in {tgt.tree, None}
<1>1. Follow(tgt, ws) = [tgt EXCEPT !.tree = next, !.home = home]
  BY DEF Follow
<1>2. Fits(next, ws)
  BY DEF Fits
<1>3. Fits(tgt.tree, ws) => next = tgt.tree
  BY DEF Fits
<1> HIDE DEF next
<1>4. tgt.home \in BOOLEAN
  BY DEF Target
<1>5. next = tgt.tree => home = tgt.home
  <2>1. next = tgt.tree => (home <=> tgt.home)
    OBVIOUS
  <2>2. home \in BOOLEAN
    OBVIOUS
  <2>3. QED
    BY <1>4, <2>1, <2>2, Zenon
<1> HIDE DEF home
<1>6. /\ Follow(tgt, ws).tree = next
      /\ Follow(tgt, ws).repo = tgt.repo /\ Follow(tgt, ws).keep = tgt.keep
  BY <1>1 DEF Target
<1>7. next = tgt.tree => Follow(tgt, ws) = tgt
  BY <1>1, <1>5 DEF Target
<1>8. QED
  BY <1>2, <1>3, <1>6, <1>7

(* What is in its place is what a reload leaves selected.                  *)
LEMMA PlaceStays ==
  ASSUME NEW l \in Seq(Repo), Unique(l), NEW tgt \in Target, Place(l, tgt)
  PROVE  /\ Reselected(l, tgt) = tgt
         /\ Follow(tgt, LoadWorkspace(l, tgt.repo, {})) = tgt
         /\ Reloaded(l, tgt, {}).target = tgt
<1>1. /\ tgt.repo \in IdsOf(l) \/ (tgt.repo = None /\ tgt.keep)
      /\ Fits(tgt.tree, LoadWorkspace(l, tgt.repo, {}))
  BY PlaceFits
<1>2. Reselected(l, tgt) = tgt
  BY <1>1 DEF Reselected
<1>3. Follow(tgt, LoadWorkspace(l, tgt.repo, {})) = tgt
  BY <1>1, FollowFits
<1>4. Reloaded(l, tgt, {}).target = tgt
  BY <1>2, <1>3 DEF Reloaded
<1>5. QED
  BY <1>2, <1>3, <1>4

-----------------------------------------------------------------------------
(* The steps and the choice                                                *)

LEMMA NotChosen == ASSUME chosen' = None PROVE ChosenOK'
BY DEF ChosenOK

(* A slot that selects, and takes the selection for a choice, raises the   *)
(* version.                                                                *)
LEMMA Chooses ==
  ASSUME JobOK, job.version <= version, job' = job, version' = version + 1,
         saved' = target', Place(repos, target)',
         chosen' # None => Chose(chosen)'
  PROVE  ChosenOK'
<1>1. job'.version # version'
  BY Versions
<1>2. QED
  BY <1>1 DEF ChosenOK, AnswerFits

(* A step that leaves the selection alone, and its place.                  *)
LEMMA StaysChosen ==
  ASSUME JobOK, job.version <= version, ChosenOK,
         UNCHANGED <<target, saved, chosen, job>>,
         version' \in {version, version + 1},
         chosen # None /\ Place(repos, target) => Place(repos, target)'
  PROVE  ChosenOK'
<1>1. CASE chosen = None
  BY <1>1, NotChosen
<1>2. CASE chosen # None
  <2>1. Chose(chosen)' /\ saved' = target' /\ Place(repos, target)'
    BY <1>2 DEF ChosenOK, Chose
  <2>2. AnswerFits'
    BY <1>2, Versions DEF ChosenOK, AnswerFits
  <2>3. QED
    BY <2>1, <2>2 DEF ChosenOK
<1>3. QED
  BY <1>1, <1>2

LEMMA SamePlace ==
  ASSUME UNCHANGED disk, Place(repos', target') PROVE Place(repos, target)'
BY DEF Place, InGit, disk

LEMMA SameLinked == ASSUME LinkedOK, UNCHANGED disk PROVE LinkedOK'
BY DEF LinkedOK, disk

LEMMA SameHanded == ASSUME HandedOK, UNCHANGED <<repos, removed, born>> PROVE HandedOK'
BY DEF HandedOK

LEMMA VersionOfJob == ASSUME GoneInv PROVE job.version <= version
BY DEF GoneInv, AnswerOK

(* A step that has the tables and the selection as they are.               *)
LEMMA NothingChosen ==
  ASSUME JobOK, GoneInv, StickInv,
         UNCHANGED <<disk, repos, target, saved, chosen, job, removed, born>>,
         version' \in {version, version + 1}
  PROVE  StickInv'
<1>1. Place(repos, target) => Place(repos, target)'
  BY SamePlace
<1>2. QED
  BY <1>1, VersionOfJob, StaysChosen, SameLinked, SameHanded DEF StickInv

LEMMA SessionStepStick == ASSUME IInv, GoneInv, StickInv, SessionStep PROVE StickInv'
<1>1. PICK s \in Sessions : Launch(s) \/ Resume(s) \/ Terminate(s) \/ AgentEnds(s)
  BY DEF SessionStep
<1>2. /\ UNCHANGED <<disk, repos, target, saved, chosen, job, removed, born>>
      /\ version' \in {version, version + 1}
  BY <1>1 DEF Launch, Resume, Terminate, AgentEnds, view
<1>3. QED
  BY <1>2, NothingChosen DEF IInv

(* What the rail lists is registered: nothing that was removed is in it.   *)
LEMMA ShownAreThere ==
  ASSUME IInv, GoneInv, StickInv
  PROVE  IdsOf(shown.repos) \subseteq IdsOf(repos)
<1>1. IdsOf(shown.repos) \subseteq Ids
  BY IdsTyped DEF IInv, ViewOK, Rail
<1>2. \A id \in IdsOf(shown.repos) : id <= born /\ id \notin removed
  BY DEF GoneInv, IdsOK, RemovedStaysGone
<1>3. QED
  BY <1>1, <1>2 DEF StickInv, HandedOK

LEMMA SelectRepoStick ==
  ASSUME IInv, GoneInv, StickInv, NEW id \in Ids, SelectRepo(id)
  PROVE  StickInv'
<1>1. /\ id \in IdsOf(repos) /\ repos \in Seq(Repo) /\ Unique(repos)
      /\ target \in Target
  BY ShownAreThere DEF SelectRepo, IInv, TableOK, ViewOK, TargetOK, GoneInv, IdsOK
<1>2. PICK broken \in Broken :
        LET tgt == Follow(Selecting(target, id), LoadWorkspace(repos, id, broken))
        IN Persist(tgt) /\ Choose(tgt, broken)
  BY DEF SelectRepo
<1>3. /\ UNCHANGED <<disk, repos, job, removed, born>> /\ version' = version + 1
  BY DEF SelectRepo, table
<1>4. LinkedOK' /\ HandedOK'
  BY <1>3, SameLinked, SameHanded DEF StickInv
<1>5. CASE broken # {}
  BY <1>2, <1>4, <1>5, NotChosen DEF Choose, StickInv
<1>6. CASE broken = {}
  <2> DEFINE ws == LoadWorkspace(repos, id, {})
             tgt == Follow(Selecting(target, id), ws)
  <2>1. Selecting(target, id) \in Target /\ Selecting(target, id).repo = id
    BY <1>1, SelectingTyped DEF Selecting, Target
  <2>2. Fits(tgt.tree, ws) /\ tgt.repo = id
    BY <2>1, FollowFits
  <2>3. target' = tgt /\ saved' = tgt /\ chosen' = tgt
    BY <1>2, <1>6 DEF Persist, Choose
  <2>4. tgt.repo \in IdsOf(repos) /\ Fits(tgt.tree, LoadWorkspace(repos, tgt.repo, {}))
    BY <1>1, <2>2
  <2> HIDE DEF tgt, ws
  <2>5. Place(repos, tgt)
    BY <1>1, <2>4, Settles DEF StickInv
  <2>6. Place(repos, target)'
    BY <1>3, <2>3, <2>5, SamePlace
  <2>7. ChosenOK'
    BY <1>3, <2>3, <2>6, VersionOfJob, Chooses DEF IInv, Chose
  <2>8. QED
    BY <1>4, <2>7 DEF StickInv
<1>7. QED
  BY <1>5, <1>6

LEMMA SelectWorktreeStick ==
  ASSUME IInv, GoneInv, StickInv, NEW tree \in Folders, SelectWorktree(tree)
  PROVE  StickInv'
<1> DEFINE tgt == [target EXCEPT !.tree = tree, !.home = FALSE]
           ws == LoadWorkspace(repos, target.repo, {})
<1>1. /\ UNCHANGED <<disk, repos, job, removed, born>> /\ version' = version + 1
      /\ target' = tgt /\ saved' = tgt
      /\ chosen' = IF tree \in ws.trees THEN tgt ELSE None
  BY DEF SelectWorktree, table, Persist
<1>2. tgt.repo = target.repo /\ tgt.tree = tree
  BY DEF IInv, ViewOK, TargetOK, Target
<1>3. LinkedOK' /\ HandedOK'
  BY <1>1, SameLinked, SameHanded DEF StickInv
<1>4. CASE tree \notin ws.trees
  BY <1>1, <1>3, <1>4, NotChosen DEF StickInv
<1>5. CASE tree \in ws.trees
  <2>1. target.repo \in IdsOf(repos)
    BY <1>5 DEF LoadWorkspace, NoWorkspace
  <2>2. Fits(tgt.tree, LoadWorkspace(repos, tgt.repo, {}))
    BY <1>2, <1>5 DEF Fits
  <2> HIDE DEF tgt, ws
  <2>3. Place(repos, tgt)
    BY <1>2, <2>1, <2>2, Settles DEF StickInv, IInv, TableOK, GoneInv, IdsOK
  <2>4. Place(repos, target)'
    BY <1>1, <2>3, SamePlace
  <2>5. ChosenOK'
    BY <1>1, <1>5, <2>4, VersionOfJob, Chooses DEF IInv, Chose
  <2>6. QED
    BY <1>3, <2>5 DEF StickInv
<1>6. QED
  BY <1>4, <1>5

LEMMA ClearTargetStick ==
  ASSUME IInv, GoneInv, StickInv, ClearTarget
  PROVE  StickInv'
<1> DEFINE tgt == [repo |-> None, tree |-> None, home |-> TRUE, keep |-> TRUE]
<1>1. /\ UNCHANGED <<disk, repos, job, removed, born>> /\ version' = version + 1
      /\ target' = tgt /\ saved' = tgt /\ chosen' = tgt
  BY DEF ClearTarget, table, Persist, Choose
<1>2. Place(repos, target)'
  BY <1>1 DEF Place
<1>3. ChosenOK'
  BY <1>1, <1>2, VersionOfJob, Chooses DEF IInv, Chose
<1>4. QED
  BY <1>1, <1>3, SameLinked, SameHanded DEF StickInv

(* Launching at home is no other place, so an answer that is current is    *)
(* one for it too.                                                         *)
LEMMA SetLaunchInHomeStick ==
  ASSUME IInv, GoneInv, StickInv, NEW home \in BOOLEAN, SetLaunchInHome(home)
  PROVE  StickInv'
<1> DEFINE tgt == [target EXCEPT !.home = home]
<1>1. /\ UNCHANGED <<disk, repos, job, removed, born, version>>
      /\ target' = tgt /\ saved' = tgt
      /\ chosen' = IF chosen = None THEN None ELSE tgt
  BY DEF SetLaunchInHome, table, Persist
<1>2. tgt.repo = target.repo /\ tgt.tree = target.tree /\ tgt.keep = target.keep
  BY DEF IInv, ViewOK, TargetOK, Target
<1> HIDE DEF tgt
<1>3. LinkedOK' /\ HandedOK'
  BY <1>1, SameLinked, SameHanded DEF StickInv
<1>4. CASE chosen = None
  BY <1>1, <1>3, <1>4, NotChosen DEF StickInv
<1>5. CASE chosen # None
  <2>1. Place(repos, target) /\ AnswerFits
    BY <1>5 DEF StickInv, ChosenOK
  <2>2. Place(repos, tgt)
    BY <1>2, <2>1 DEF Place
  <2>3. Place(repos, target)'
    BY <1>1, <2>2, SamePlace
  <2>4. AnswerFits'
    BY <1>1, <1>2, <2>1 DEF AnswerFits
  <2>5. Chose(chosen)' /\ saved' = target'
    BY <1>1, <1>5 DEF Chose
  <2>6. QED
    BY <1>3, <2>3, <2>4, <2>5 DEF StickInv, ChosenOK
<1>6. QED
  BY <1>4, <1>5

(* What the registry does with the repositories that stay.                 *)
LEMMA WithoutRest ==
  ASSUME NEW l \in Seq(Repo), Unique(l), NEW id
  PROVE  LET w == Without(l, id)
         IN /\ \A j \in DOMAIN l : l[j].id # id => \E i \in DOMAIN w : w[i] = l[j]
            /\ \A i \in DOMAIN w : \E j \in DOMAIN l : w[i] = l[j]
<1> DEFINE w == Without(l, id)
<1>1. w \in Seq(Repo) /\ Unique(w) /\ IdsOf(w) = IdsOf(l) \ {id}
  BY WithoutTyped, WithoutUnique
<1>2. ASSUME NEW i \in DOMAIN w PROVE \E j \in DOMAIN l : w[i] = l[j]
  <2>1. CASE id \notin IdsOf(l)
    BY <2>1 DEF Without
  <2>2. CASE id \in IdsOf(l)
    <3> DEFINE k == CHOOSE j \in DOMAIN l : l[j].id = id
    <3>1. \E j \in DOMAIN l : l[j].id = id
      BY <2>2 DEF IdsOf
    <3>2. k \in 1 .. Len(l)
      BY <3>1
    <3>3. w = SubSeq(l, 1, k - 1) \o SubSeq(l, k + 1, Len(l))
      BY <2>2 DEF Without
    <3> HIDE DEF k, w
    <3>4. /\ Len(w) = Len(l) - 1
          /\ \A m \in 1 .. Len(l) - 1 : w[m] = IF m < k THEN l[m] ELSE l[m + 1]
      BY <3>2, <3>3, Dropped
    <3>5. Len(l) \in Nat /\ DOMAIN l = 1 .. Len(l) /\ DOMAIN w = 1 .. Len(w)
      BY <1>1
    <3>6. i \in 1 .. Len(l) - 1 /\ i \in DOMAIN l /\ i + 1 \in DOMAIN l
      BY <3>4, <3>5
    <3>7. QED
      BY <3>4, <3>6
  <2>3. QED
    BY <2>1, <2>2
<1> HIDE DEF w
<1>3. ASSUME NEW j \in DOMAIN l, l[j].id # id PROVE \E i \in DOMAIN w : w[i] = l[j]
  <2>1. l[j].id \in IdsOf(w)
    BY <1>1, <1>3 DEF IdsOf
  <2>2. PICK i \in DOMAIN w : w[i].id = l[j].id
    BY <2>1 DEF IdsOf
  <2>3. PICK m \in DOMAIN l : w[i] = l[m]
    BY <1>2
  <2>4. m = j
    BY <2>2, <2>3 DEF Unique
  <2>5. QED
    BY <2>3, <2>4
<1>4. QED
  BY <1>2, <1>3 DEF w

(* Every registered repository keeps its folder, and the folder asked for  *)
(* is registered under id.  No folder is registered twice.                 *)
Paths(l) == \A j, k \in DOMAIN l : l[j].path = l[k].path => j = k

LEMMA EnsurePaths ==
  ASSUME repos \in Seq(Repo), Unique(repos), Paths(repos),
         NEW path \in Folders, NEW boot \in BOOLEAN, NEW id \in Ids,
         EnsureRepository(path, boot, id)
  PROVE  /\ \A j \in DOMAIN repos : \E i \in DOMAIN repos' :
              repos'[i].id = repos[j].id /\ repos'[i].path = repos[j].path
         /\ id \in IdsOf(repos')
         /\ Paths(repos')
<1>1. CASE At(path) = {}
  <2> DEFINE r == [id |-> id, path |-> path, boot |-> boot]
  <2>1. r \in Repo /\ r.id = id /\ r.path = path
    BY DEF Repo
  <2>2. repos' = <<r>> \o repos
    BY <1>1 DEF EnsureRepository, InsertRepository
  <2> HIDE DEF r
  <2>3. \A j \in DOMAIN repos : repos[j].path # path
    BY <1>1 DEF At
  <2>4. /\ 1 \in DOMAIN repos' /\ repos'[1] = r
        /\ \A i \in DOMAIN repos : i + 1 \in DOMAIN repos' /\ repos'[i + 1] = repos[i]
        /\ \A i \in DOMAIN repos' :
             i = 1 \/ (i - 1 \in DOMAIN repos /\ repos'[i] = repos[i - 1])
    BY <2>1, <2>2, FirstAndRest
  <2>5. id \in IdsOf(repos')
    BY <2>1, <2>4 DEF IdsOf
  <2>6. repos' \in Seq(Repo)
    BY EnsureKeeps
  <2>7. ASSUME NEW i \in DOMAIN repos', NEW j \in DOMAIN repos',
               repos'[i].path = repos'[j].path
        PROVE  i = j
    <3>1. i \in Int /\ j \in Int
      BY <2>6
    <3>2. CASE i = 1 \/ j = 1
      BY <2>1, <2>3, <2>4, <2>7, <3>2
    <3>3. CASE i # 1 /\ j # 1
      <4>1. i - 1 = j - 1
        BY <2>4, <2>7, <3>3 DEF Paths
      <4>2. QED
        BY <3>1, <4>1
    <3>4. QED
      BY <3>2, <3>3
  <2>8. QED
    BY <2>4, <2>5, <2>7 DEF Paths
<1>2. CASE At(path) # {}
  <2>1. PICK k \in At(path) :
          /\ id = repos[k].id
          /\ repos' = IF repos[k].boot = boot THEN repos
                      ELSE <<[repos[k] EXCEPT !.boot = boot]>> \o Without(repos, id)
    BY <1>2 DEF EnsureRepository
  <2>2. k \in DOMAIN repos /\ repos[k] \in Repo
    BY DEF At
  <2>3. CASE repos[k].boot = boot
    BY <2>1, <2>2, <2>3 DEF IdsOf
  <2>4. CASE repos[k].boot # boot
    <3> DEFINE r == [repos[k] EXCEPT !.boot = boot]
               rest == Without(repos, id)
    <3>1. r \in Repo /\ r.id = id /\ r.path = repos[k].path
      BY <2>1, <2>2 DEF Repo
    <3>2. repos' = <<r>> \o rest
      BY <2>1, <2>4
    <3>3. rest \in Seq(Repo) /\ Unique(rest) /\ IdsOf(rest) = IdsOf(repos) \ {id}
      BY WithoutTyped, WithoutUnique
    <3>4. /\ \A j \in DOMAIN repos : repos[j].id # id =>
               \E i \in DOMAIN rest : rest[i] = repos[j]
          /\ \A i \in DOMAIN rest : \E j \in DOMAIN repos : rest[i] = repos[j]
      BY WithoutRest
    <3> HIDE DEF r, rest
    <3>5. /\ 1 \in DOMAIN repos' /\ repos'[1] = r
          /\ \A i \in DOMAIN rest : i + 1 \in DOMAIN repos' /\ repos'[i + 1] = rest[i]
          /\ \A i \in DOMAIN repos' :
               i = 1 \/ (i - 1 \in DOMAIN rest /\ repos'[i] = rest[i - 1])
      BY <3>1, <3>2, <3>3, FirstAndRest
    <3>6. ASSUME NEW j \in DOMAIN repos
          PROVE  \E i \in DOMAIN repos' :
                   repos'[i].id = repos[j].id /\ repos'[i].path = repos[j].path
      <4>1. CASE repos[j].id = id
        <5>1. j = k
          BY <2>1, <2>2, <4>1 DEF Unique
        <5>2. QED
          BY <3>1, <3>5, <4>1, <5>1
      <4>2. CASE repos[j].id # id
        BY <3>4, <3>5, <4>2
      <4>3. QED
        BY <4>1, <4>2
    <3>7. id \in IdsOf(repos')
      BY <3>1, <3>5 DEF IdsOf
    <3>8. \A i \in DOMAIN rest : rest[i].path # r.path
      <4>1. SUFFICES ASSUME NEW i \in DOMAIN rest, rest[i].path = r.path PROVE FALSE
        OBVIOUS
      <4>2. PICK j \in DOMAIN repos : rest[i] = repos[j]
        BY <3>4
      <4>3. j = k
        BY <2>2, <3>1, <4>1, <4>2 DEF Paths
      <4>4. id \in IdsOf(rest)
        BY <2>1, <4>2, <4>3 DEF IdsOf
      <4>5. QED
        BY <3>3, <4>4
    <3>9. Paths(rest)
      <4>1. SUFFICES ASSUME NEW i \in DOMAIN rest, NEW j \in DOMAIN rest,
                            rest[i].path = rest[j].path
                     PROVE  i = j
        BY DEF Paths
      <4>2. rest[i] = rest[j]
        BY <3>4, <4>1 DEF Paths
      <4>3. QED
        BY <3>3, <4>2 DEF Unique
    <3>10. repos' \in Seq(Repo)
      BY EnsureKeeps
    <3>11. ASSUME NEW i \in DOMAIN repos', NEW j \in DOMAIN repos',
                  repos'[i].path = repos'[j].path
           PROVE  i = j
      <4>1. i \in Int /\ j \in Int
        BY <3>10
      <4>2. CASE i = 1 \/ j = 1
        BY <3>5, <3>8, <3>11, <4>2
      <4>3. CASE i # 1 /\ j # 1
        <5>1. i - 1 = j - 1
          BY <3>5, <3>9, <3>11, <4>3 DEF Paths
        <5>2. QED
          BY <4>1, <5>1
      <4>4. QED
        BY <4>2, <4>3
    <3>12. QED
      BY <3>6, <3>7, <3>11 DEF Paths
  <2>5. QED
    BY <2>3, <2>4
<1>3. QED
  BY <1>1, <1>2

LEMMA WithoutPaths ==
  ASSUME NEW l \in Seq(Repo), Unique(l), Paths(l), NEW id
  PROVE  Paths(Without(l, id))
<1> DEFINE w == Without(l, id)
<1>1. Unique(w) /\ \A i \in DOMAIN w : \E j \in DOMAIN l : w[i] = l[j]
  BY WithoutUnique, WithoutRest
<1> HIDE DEF w
<1>2. ASSUME NEW i \in DOMAIN w, NEW j \in DOMAIN w, w[i].path = w[j].path PROVE i = j
  <2>1. w[i] = w[j]
    BY <1>1, <1>2 DEF Paths
  <2>2. QED
    BY <1>1, <2>1 DEF Unique
<1>3. QED
  BY <1>2 DEF Paths, w

-----------------------------------------------------------------------------
(* The types                                                               *)

(* What a step chooses is what it selects.                                 *)
LEMMA ChosenFrom == ASSUME Next PROVE chosen' \in {chosen, None, target'}
<1>1. CASE SessionStep
  BY <1>1 DEF SessionStep, Launch, Resume, Terminate, AgentEnds
<1>2. CASE WorkerStep
  BY <1>2 DEF WorkerStep, RefreshKey, RefreshQueued, ReadRegistry, ReadWorkspace,
              WorkerFails, RefreshFinished, ProbeAnswered, Keep
<1>3. CASE Restart
  BY <1>3 DEF Restart
<1>4. CASE RailStep
  <2>1. ASSUME NEW id \in Ids, SelectRepo(id) \/ DeleteRepository(id)
        PROVE  chosen' \in {chosen, None, target'}
    BY <2>1 DEF SelectRepo, DeleteRepository, Choose, Persist
  <2>2. ASSUME NEW f \in Folders, SelectWorktree(f) \/ RemovedOutside(f)
        PROVE  chosen' \in {chosen, None, target'}
    BY <2>2 DEF SelectWorktree, RemovedOutside, Persist
  <2>3. ASSUME NEW f \in Folders, DeleteWorktree(f)
        PROVE  chosen' \in {chosen, None, target'}
    BY <2>3 DEF DeleteWorktree
  <2>4. ASSUME NEW f \in Folders, AddRepository(f)
        PROVE  chosen' \in {chosen, None, target'}
    BY <2>4 DEF AddRepository, Choose, Persist
  <2>5. ASSUME ClearTarget \/ CreateWorktree
        PROVE  chosen' \in {chosen, None, target'}
    BY <2>5 DEF ClearTarget, CreateWorktree, Choose, Persist
  <2>6. ASSUME NEW home \in BOOLEAN, NEW key \in Providers,
               SetLaunchInHome(home) \/ PickProvider(key)
        PROVE  chosen' \in {chosen, None, target'}
    BY <2>6 DEF SetLaunchInHome, PickProvider, Persist
  <2>7. ASSUME NEW home \in BOOLEAN, SetLaunchInHome(home)
        PROVE  chosen' \in {chosen, None, target'}
    BY <2>7 DEF SetLaunchInHome, Persist
  <2>8. QED
    BY <1>4, <2>1, <2>2, <2>3, <2>4, <2>5, <2>6, <2>7 DEF RailStep
<1>5. QED
  BY <1>1, <1>2, <1>3, <1>4 DEF Next

ProbeOK == {provider, picked} \subseteq Providers /\ probe \in Providers \cup {None}

LEMMA ProbeKept == ASSUME ProbeOK, Next PROVE ProbeOK'
<1>1. ASSUME NEW s, Launch(s) \/ Resume(s) \/ Terminate(s) \/ AgentEnds(s) PROVE ProbeOK'
  BY <1>1 DEF Launch, Resume, Terminate, AgentEnds, probing, ProbeOK
<1>2. ASSUME NEW x, \/ SelectRepo(x) \/ DeleteRepository(x) \/ SelectWorktree(x)
                    \/ DeleteWorktree(x) \/ AddRepository(x) \/ RemovedOutside(x)
                    \/ SetLaunchInHome(x)
      PROVE ProbeOK'
  BY <1>2 DEF SelectRepo, DeleteRepository, SelectWorktree, DeleteWorktree, AddRepository,
              RemovedOutside, SetLaunchInHome, Probe, probing, ProbeOK
<1>3. ASSUME NEW key \in Providers, PickProvider(key) PROVE ProbeOK'
  BY <1>3 DEF PickProvider, ProbeOK
<1>4. ASSUME ClearTarget \/ CreateWorktree PROVE ProbeOK'
  BY <1>4 DEF ClearTarget, CreateWorktree, probing, ProbeOK
<1>5. CASE WorkerStep
  BY <1>5 DEF WorkerStep, RefreshKey, RefreshQueued, Refresh, ReadRegistry, ReadWorkspace,
              WorkerFails, RefreshFinished, ProbeAnswered, Probe, probing, ProbeOK
<1>6. CASE Restart
  BY <1>6 DEF Restart, ProbeOK
<1>7. QED
  BY <1>1, <1>2, <1>3, <1>4, <1>5, <1>6 DEF Next, SessionStep, RailStep

LEMMA PathsKept ==
  ASSUME IInv, GoneInv, Paths(repos), Next PROVE Paths(repos')
<1>1. repos \in Seq(Repo) /\ Unique(repos)
  BY DEF IInv, TableOK, GoneInv, IdsOK
<1>2. ASSUME NEW id, NEW path \in Folders, NEW boot \in BOOLEAN, id \in Ids,
             EnsureRepository(path, boot, id)
      PROVE  Paths(repos')
  BY <1>1, <1>2, EnsurePaths
<1>3. ASSUME NEW id \in Ids, DeleteRepository(id) PROVE Paths(repos')
  <2>1. repos' = repos \/ repos' = Without(repos, id)
    BY <1>3 DEF DeleteRepository
  <2>2. QED
    BY <1>1, <2>1, WithoutPaths
<1>4. ASSUME NEW f \in Folders, AddRepository(f) PROVE Paths(repos')
  BY <1>2, <1>4 DEF AddRepository
<1>5. CASE Restart
  <2>1. Bootstrap \in Folders
    BY FolderAssumption
  <2>2. QED
    BY <1>2, <1>5, <2>1 DEF Restart
<1>6. CASE SessionStep
  BY <1>6 DEF SessionStep, Launch, Resume, Terminate, AgentEnds, table
<1>7. CASE WorkerStep
  BY <1>7 DEF WorkerStep, RefreshKey, RefreshQueued, ReadRegistry, ReadWorkspace,
              WorkerFails, RefreshFinished, ProbeAnswered, table
<1>8. ASSUME NEW x, \/ SelectRepo(x) \/ SelectWorktree(x) \/ DeleteWorktree(x)
                    \/ RemovedOutside(x) \/ SetLaunchInHome(x) \/ PickProvider(x)
      PROVE repos' = repos
  BY <1>8 DEF SelectRepo, SelectWorktree, DeleteWorktree, RemovedOutside,
              SetLaunchInHome, PickProvider, table
<1>9. ASSUME ClearTarget \/ CreateWorktree PROVE repos' = repos
  BY <1>9 DEF ClearTarget, CreateWorktree, table
<1>10. QED
  BY <1>3, <1>4, <1>5, <1>6, <1>7, <1>8, <1>9 DEF Next, RailStep

(* What TypeOK has beyond the invariant above.                             *)
TypesInv == Paths(repos) /\ ProbeOK /\ chosen \in Target \cup {None}

LEMMA InitTypes == Init => TypesInv
<1> SUFFICES ASSUME Init PROVE TypesInv
  OBVIOUS
<1>1. ProbeOK /\ chosen = None
  BY ProviderAssumption DEF Init, ProbeOK
<1>2. PICK earlier \in SUBSET (folders \ {Bootstrap}) :
        repos = <<[id |-> 1, path |-> Bootstrap, boot |-> TRUE]>>
                  \o (IF earlier = {} THEN <<>>
                      ELSE <<[id |-> 2, path |-> CHOOSE f \in earlier : TRUE,
                              boot |-> FALSE]>>)
  BY DEF Init
<1>3. CASE earlier = {}
  <2>1. repos = <<[id |-> 1, path |-> Bootstrap, boot |-> TRUE]>>
    BY <1>2, <1>3
  <2>2. \A k \in DOMAIN repos : k = 1
    BY <2>1
  <2>3. QED
    BY <1>1, <2>2 DEF Paths, TypesInv
<1>4. CASE earlier # {}
  <2> DEFINE first == [id |-> 1, path |-> Bootstrap, boot |-> TRUE]
             other == CHOOSE f \in earlier : TRUE
             second == [id |-> 2, path |-> other, boot |-> FALSE]
  <2>1. other \in earlier
    BY <1>4
  <2>2. repos = <<first>> \o <<second>> /\ first.path # second.path
    BY <1>2, <1>4, <2>1
  <2> HIDE DEF first, second
  <2>3. DOMAIN repos = 1 .. 2 /\ repos[1] = first /\ repos[2] = second
    BY <2>2
  <2>4. ASSUME NEW k \in DOMAIN repos PROVE k = 1 \/ k = 2
    BY <2>3
  <2>5. QED
    BY <1>1, <2>2, <2>3, <2>4 DEF Paths, TypesInv
<1>5. QED
  BY <1>3, <1>4

LEMMA NextTypes == IInv /\ GoneInv /\ TypesInv /\ [Next]_vars => TypesInv'
<1> SUFFICES ASSUME IInv, GoneInv, TypesInv, [Next]_vars PROVE TypesInv'
  OBVIOUS
<1>1. CASE UNCHANGED vars
  BY <1>1 DEF vars, table, probing, TypesInv, ProbeOK
<1>2. CASE Next
  <2>1. target' \in Target
    BY NextInv DEF IInv, ViewOK, TargetOK
  <2>2. Paths(repos') /\ ProbeOK' /\ chosen' \in {chosen, None, target'}
    BY <1>2, PathsKept, ProbeKept, ChosenFrom DEF TypesInv
  <2>3. QED
    BY <2>1, <2>2 DEF TypesInv
<1>3. QED
  BY <1>1, <1>2

LEMMA WorkspaceAlways == Spec => [](IInv /\ GoneInv /\ TypesInv)
<1>1. QED
  BY InitInv, InitGone, InitTypes, NextInv, NextGone, NextTypes, PTL DEF Spec

(* Every variable keeps its type; besides, no folder is registered twice   *)
(* (ensureRepository) and the repository of a row is registered.           *)
THEOREM WorkspaceTypes == Spec => []TypeOK
<1>1. IInv /\ TypesInv => TypeOK
  BY DEF IInv, TableOK, DiskOK, ViewOK, TargetOK, JobOK, Rail, Job, TypesInv, Paths,
         ProbeOK, TypeOK, Registered
<1>2. QED
  BY <1>1, WorkspaceAlways, PTL

-----------------------------------------------------------------------------
(* The registry, the worktrees and the choice                              *)

LEMMA EnsurePlace ==
  ASSUME TableOK, GoneInv, TypesInv, NEW path \in Folders, NEW boot \in BOOLEAN,
         NEW id \in Ids, EnsureRepository(path, boot, id), NEW tgt, Place(repos, tgt)
  PROVE  Place(repos', tgt)
<1>1. \A j \in DOMAIN repos : \E i \in DOMAIN repos' :
        repos'[i].id = repos[j].id /\ repos'[i].path = repos[j].path
  BY EnsurePaths DEF TableOK, GoneInv, IdsOK, TypesInv
<1>2. QED
  BY <1>1 DEF Place

LEMMA EnsureHanded ==
  ASSUME TableOK, GoneInv, HandedOK, NEW path \in Folders, NEW boot \in BOOLEAN,
         NEW id \in Ids, EnsureRepository(path, boot, id), removed' = removed
  PROVE  HandedOK'
<1>1. \/ IdsOf(repos') = IdsOf(repos) /\ born' = born
      \/ IdsOf(repos') = IdsOf(repos) \cup {born + 1} /\ born' = born + 1
  BY EnsureUnique DEF TableOK, GoneInv, IdsOK
<1>2. born \in Nat /\ Ids \subseteq Nat
  BY BoundAssumption DEF GoneInv, IdsOK, Ids
<1>3. QED
  BY <1>1, <1>2 DEF HandedOK

(* A repository that is added is selected; when the reload came first, the *)
(* choice stays only if it is that repository already.                     *)
LEMMA AddRepositoryStick ==
  ASSUME IInv, GoneInv, TypesInv, StickInv, NEW path \in Folders, AddRepository(path)
  PROVE  StickInv'
<1>1. PICK id \in Ids, broken \in Broken :
        /\ EnsureRepository(path, FALSE, id)
        /\ LET read  == Reloaded(repos', target, {})
               moved == read.target.repo # id
               ws    == LoadWorkspace(repos', id, broken)
               tgt   == IF moved THEN Follow(Selecting(read.target, id), ws)
                        ELSE Reloaded(repos', target, broken).target
           IN /\ Persist(tgt)
              /\ version' = IF moved THEN version + 1 ELSE version
              /\ IF moved THEN Choose(tgt, broken)
                 ELSE chosen' = IF target.repo = id /\ broken = {} THEN chosen ELSE None
  BY DEF AddRepository
<1>2. UNCHANGED <<disk, job, removed>>
  BY DEF AddRepository
<1>3. /\ repos \in Seq(Repo) /\ Unique(repos) /\ Paths(repos) /\ target \in Target
      /\ born \in Nat /\ IdsOf(repos) \subseteq 1 .. born
  BY DEF IInv, TableOK, ViewOK, TargetOK, GoneInv, IdsOK, TypesInv
<1>4. repos' \in Seq(Repo) /\ Unique(repos') /\ id \in IdsOf(repos')
  BY <1>1, <1>3, EnsureKeeps, EnsureUnique, EnsurePaths
<1>5. LinkedOK' /\ HandedOK'
  BY <1>1, <1>2, SameLinked, EnsureHanded DEF StickInv, IInv
<1>6. CASE chosen' = None
  BY <1>5, <1>6, NotChosen DEF StickInv
<1>7. CASE chosen' # None /\ Reloaded(repos', target, {}).target.repo # id
  <2> DEFINE read == Reloaded(repos', target, {})
             ws == LoadWorkspace(repos', id, {})
             tgt == Follow(Selecting(read.target, id), ws)
  <2>1. /\ broken = {} /\ target' = tgt /\ saved' = tgt /\ chosen' = tgt
        /\ version' = version + 1
    BY <1>1, <1>7 DEF Choose, Persist
  <2>2. read.target \in Target
    BY <1>3, <1>4, ReloadedTyped DEF IInv, DiskOK
  <2> HIDE DEF read
  <2>3. Selecting(read.target, id) \in Target /\ Selecting(read.target, id).repo = id
    BY <2>2, SelectingTyped DEF Selecting, Target
  <2>4. Fits(tgt.tree, ws) /\ tgt.repo = id
    BY <2>3, FollowFits
  <2>5. tgt.repo \in IdsOf(repos') /\ Fits(tgt.tree, LoadWorkspace(repos', tgt.repo, {}))
    BY <1>4, <2>4
  <2> HIDE DEF tgt, ws
  <2>6. Place(repos', tgt)
    BY <1>4, <2>5, Settles DEF StickInv
  <2>7. Place(repos, target)'
    BY <1>2, <2>1, <2>6, SamePlace
  <2>8. ChosenOK'
    BY <1>2, <2>1, <2>7, VersionOfJob, Chooses DEF IInv, Chose
  <2>9. QED
    BY <1>5, <2>8 DEF StickInv
<1>8. CASE chosen' # None /\ Reloaded(repos', target, {}).target.repo = id
  <2>1. /\ broken = {} /\ chosen' = chosen /\ version' = version
        /\ Persist(Reloaded(repos', target, {}).target)
    BY <1>1, <1>8
  <2>2. Place(repos, target) /\ saved = target
    BY <1>8, <2>1 DEF StickInv, ChosenOK
  <2>3. Place(repos', target)
    BY <1>1, <2>2, EnsurePlace DEF IInv
  <2>4. target' = target /\ saved' = saved
    BY <1>3, <1>4, <2>1, <2>2, <2>3, PlaceStays DEF Persist
  <2>5. Place(repos, target)'
    BY <1>2, <2>3, <2>4, SamePlace
  <2>6. ChosenOK'
    BY <1>2, <2>1, <2>4, <2>5, VersionOfJob, StaysChosen DEF IInv, StickInv
  <2>7. QED
    BY <1>5, <2>6 DEF StickInv
<1>9. QED
  BY <1>6, <1>7, <1>8

(* A repository that is deleted is not the chosen one, which stays.        *)
LEMMA DeleteRepositoryStick ==
  ASSUME IInv, GoneInv, TypesInv, StickInv, NEW id \in Ids, DeleteRepository(id)
  PROVE  StickInv'
<1>1. PICK broken \in Broken :
        \/ UNCHANGED <<repos, view, version, chosen, removed>>
        \/ /\ repos' = Without(repos, id)
           /\ Persist(Reloaded(Without(repos, id), target, broken).target)
           /\ version' = version + 1
           /\ chosen' = IF target.repo = id \/ broken # {} THEN None ELSE chosen
           /\ removed' = removed \cup {id}
  BY DEF DeleteRepository
<1>2. UNCHANGED <<disk, job, born>>
  BY DEF DeleteRepository
<1>3. CASE UNCHANGED <<repos, view, version, chosen, removed>>
  BY <1>2, <1>3, NothingChosen DEF view, IInv
<1>4. CASE /\ repos' = Without(repos, id)
           /\ Persist(Reloaded(Without(repos, id), target, broken).target)
           /\ version' = version + 1
           /\ chosen' = IF target.repo = id \/ broken # {} THEN None ELSE chosen
           /\ removed' = removed \cup {id}
  <2>1. repos \in Seq(Repo) /\ Unique(repos) /\ target \in Target
    BY DEF IInv, TableOK, ViewOK, TargetOK, GoneInv, IdsOK
  <2>2. /\ repos' \in Seq(Repo) /\ Unique(repos') /\ IdsOf(repos') = IdsOf(repos) \ {id}
        /\ \A j \in DOMAIN repos : repos[j].id # id =>
             \E i \in DOMAIN repos' : repos'[i] = repos[j]
    BY <1>4, <2>1, WithoutTyped, WithoutUnique, WithoutRest
  <2>3. LinkedOK' /\ HandedOK'
    BY <1>2, <1>4, <2>2, SameLinked DEF StickInv, HandedOK
  <2>4. CASE chosen' = None
    BY <2>3, <2>4, NotChosen DEF StickInv
  <2>5. CASE chosen' # None
    <3>1. target.repo # id /\ broken = {} /\ chosen' = chosen
      BY <1>4, <2>5
    <3>2. Place(repos, target) /\ saved = target
      BY <2>5, <3>1 DEF StickInv, ChosenOK
    <3>3. Place(repos', target)
      BY <2>2, <3>1, <3>2 DEF Place
    <3>4. target' = target /\ saved' = saved
      BY <1>4, <2>1, <2>2, <3>1, <3>2, <3>3, PlaceStays DEF Persist
    <3>5. Place(repos, target)'
      BY <1>2, <3>3, <3>4, SamePlace
    <3>6. ChosenOK'
      BY <1>2, <1>4, <3>1, <3>4, <3>5, VersionOfJob, StaysChosen DEF IInv, StickInv
    <3>7. QED
      BY <2>3, <3>6 DEF StickInv
  <2>6. QED
    BY <2>4, <2>5
<1>5. QED
  BY <1>1, <1>3, <1>4

(* A selection in its place in a repository git knows is a checkout.       *)
LEMMA PlaceInGit ==
  ASSUME NEW l \in Seq(Repo), Unique(l), NEW tgt, Place(l, tgt), tgt.repo \in IdsOf(l),
         InGit(RepoIn(l, tgt.repo).path)
  PROVE  /\ tgt.tree \in linked
         /\ \E k \in DOMAIN l : l[k].id = tgt.repo /\ InGit(l[k].path)
                                /\ l[k] = RepoIn(l, tgt.repo)
<1>1. None \notin IdsOf(l)
  BY IdsTyped, IdAssumption
<1>2. PICK k \in DOMAIN l :
        /\ l[k].id = tgt.repo
        /\ IF InGit(l[k].path) THEN tgt.tree \in linked ELSE tgt.tree = l[k].path
  BY <1>1 DEF Place
<1>3. RepoIn(l, tgt.repo) = l[k]
  BY <1>2, RepoFound
<1>4. QED
  BY <1>2, <1>3

LEMMA CreateWorktreeStick ==
  ASSUME IInv, GoneInv, TypesInv, StickInv, CreateWorktree
  PROVE  StickInv'
<1>1. PICK k \in FreeNames, broken \in Broken :
        LET tree == NewTrees[k]
            ws   == [LoadWorkspace(repos, target.repo, broken) EXCEPT
                       !.trees = IF @ = {} THEN {} ELSE @ \cup {tree}]
            tgt  == [Follow(target, ws) EXCEPT !.tree = tree, !.home = FALSE]
        IN /\ folders' = folders \cup {f \in Folders : Top[f] = tree}
           /\ linked' = linked \cup {tree}
           /\ removed' = removed \ {tree}
           /\ \/ Persist(tgt) /\ Choose(tgt, broken) /\ version' = version + 1
              \/ UNCHANGED <<view, version, chosen>>
  BY DEF CreateWorktree
<1> DEFINE tree == NewTrees[k]
           ws == [LoadWorkspace(repos, target.repo, broken) EXCEPT
                    !.trees = IF @ = {} THEN {} ELSE @ \cup {tree}]
           tgt == [Follow(target, ws) EXCEPT !.tree = tree, !.home = FALSE]
<1>2. /\ UNCHANGED <<repos, job, born>>
      /\ target.repo \in IdsOf(repos) /\ InGit(RepoIn(repos, target.repo).path)
  BY DEF CreateWorktree, table, Registered
<1>3. /\ folders' = folders \cup {f \in Folders : Top[f] = tree}
      /\ linked' = linked \cup {tree}
      /\ removed' = removed \ {tree}
      /\ \/ Persist(tgt) /\ Choose(tgt, broken) /\ version' = version + 1
         \/ UNCHANGED <<view, version, chosen>>
  BY <1>1
<1>4. /\ repos \in Seq(Repo) /\ Unique(repos) /\ target \in Target
      /\ job.version <= version /\ JobOK
  BY VersionOfJob DEF IInv, TableOK, ViewOK, TargetOK, GoneInv, IdsOK
<1>5. tgt.repo = target.repo /\ tgt.tree = tree
  BY <1>4, FollowFits DEF Follow, Target
<1>6. tree \in Folders
  BY FolderAssumption DEF FreeNames
<1> HIDE DEF tree, ws, tgt
<1>7. LinkedOK'
  BY <1>3 DEF StickInv, LinkedOK
<1>8. HandedOK'
  BY <1>2, <1>3, <1>6, IdAssumption DEF StickInv, HandedOK
<1>9. \A j \in DOMAIN repos : InGit(repos[j].path) => InGit(repos[j].path)'
  BY <1>2, <1>3 DEF InGit
<1>10. CASE Persist(tgt) /\ Choose(tgt, broken) /\ version' = version + 1
  <2>1. PICK j \in DOMAIN repos : repos[j].id = target.repo
    BY <1>2 DEF IdsOf
  <2>2. InGit(repos[j].path)
    BY <1>2, <1>4, <2>1, RepoFound
  <2>3. target' = tgt /\ saved' = tgt /\ (chosen' # None => chosen' = tgt)
    BY <1>10 DEF Persist, Choose
  <2>4. Place(repos, target)'
    BY <1>2, <1>3, <1>5, <1>9, <2>1, <2>2, <2>3 DEF Place
  <2>5. ChosenOK'
    BY <1>2, <1>4, <1>10, <2>3, <2>4, Chooses DEF Chose
  <2>6. QED
    BY <1>7, <1>8, <2>5 DEF StickInv
<1>11. CASE UNCHANGED <<view, version, chosen>>
  <2>1. UNCHANGED <<target, saved>>
    BY <1>11 DEF view
  <2>2. ASSUME Place(repos, target) PROVE Place(repos, target)'
    <3>1. /\ target.tree \in linked
          /\ \E j \in DOMAIN repos : repos[j].id = target.repo /\ InGit(repos[j].path)
      BY <1>2, <1>4, <2>2, PlaceInGit
    <3>2. QED
      BY <1>2, <1>3, <1>9, <2>1, <3>1 DEF Place
  <2>3. ChosenOK'
    BY <1>2, <1>4, <1>11, <2>1, <2>2, StaysChosen DEF StickInv
  <2>4. QED
    BY <1>7, <1>8, <2>3 DEF StickInv
<1>12. QED
  BY <1>3, <1>10, <1>11

(* A worktree that is removed is not the chosen one, which git still lists. *)
LEMMA DeleteWorktreeStick ==
  ASSUME IInv, GoneInv, TypesInv, StickInv, NEW tree \in Folders, DeleteWorktree(tree)
  PROVE  StickInv'
<1>1. PICK broken \in Broken :
        LET ws == [LoadWorkspace(repos, target.repo, broken) EXCEPT !.trees = @ \ {tree}]
        IN \/ UNCHANGED <<disk, view, version, chosen, removed>>
           \/ /\ target.repo \in IdsOf(repos) /\ InGit(RepoIn(repos, target.repo).path)
              /\ tree # Top[RepoIn(repos, target.repo).path]
              /\ folders' = folders \ GoneWith(tree) /\ linked' = linked \ {tree}
              /\ \/ chosen' = None /\ UNCHANGED removed
                 \/ /\ Persist(Follow(target, ws)) /\ version' = version + 1
                    /\ chosen' = IF target.tree = tree \/ broken # {} THEN None ELSE chosen
                    /\ removed' = removed \cup {tree}
  BY DEF DeleteWorktree, Registered
<1> DEFINE load == LoadWorkspace(repos, target.repo, broken)
           ws == [load EXCEPT !.trees = @ \ {tree}]
<1>2. \/ UNCHANGED <<disk, view, version, chosen, removed>>
      \/ /\ target.repo \in IdsOf(repos) /\ InGit(RepoIn(repos, target.repo).path)
         /\ tree # Top[RepoIn(repos, target.repo).path]
         /\ folders' = folders \ GoneWith(tree) /\ linked' = linked \ {tree}
         /\ \/ chosen' = None /\ UNCHANGED removed
            \/ /\ Persist(Follow(target, ws)) /\ version' = version + 1
               /\ chosen' = IF target.tree = tree \/ broken # {} THEN None ELSE chosen
               /\ removed' = removed \cup {tree}
  BY <1>1
<1>3. UNCHANGED <<repos, job, born>>
  BY DEF DeleteWorktree
<1> HIDE DEF load, ws
<1>4. CASE UNCHANGED <<disk, view, version, chosen, removed>>
  BY <1>3, <1>4, NothingChosen DEF view, IInv
<1>5. CASE ~UNCHANGED <<disk, view, version, chosen, removed>>
  <2>1. /\ target.repo \in IdsOf(repos) /\ InGit(RepoIn(repos, target.repo).path)
        /\ tree # Top[RepoIn(repos, target.repo).path]
        /\ folders' = folders \ GoneWith(tree) /\ linked' = linked \ {tree}
        /\ removed \subseteq removed'
    BY <1>2, <1>5
  <2>2. LinkedOK'
    BY <2>1, FolderAssumption DEF StickInv, LinkedOK, GoneWith, IInv, DiskOK
  <2>3. HandedOK'
    BY <1>3, <2>1 DEF StickInv, HandedOK
  <2>4. CASE chosen' = None
    BY <2>2, <2>3, <2>4, NotChosen DEF StickInv
  <2>5. CASE chosen' # None
    <3>1. /\ Persist(Follow(target, ws)) /\ version' = version + 1
          /\ target.tree # tree /\ broken = {} /\ chosen' = chosen
      BY <1>2, <1>5, <2>5
    <3>2. Place(repos, target) /\ saved = target
      BY <2>5, <3>1 DEF StickInv, ChosenOK
    <3>3. repos \in Seq(Repo) /\ Unique(repos) /\ target \in Target
      BY DEF IInv, TableOK, ViewOK, TargetOK, GoneInv, IdsOK
    <3>4. PICK j \in DOMAIN repos :
            /\ repos[j].id = target.repo /\ InGit(repos[j].path)
            /\ repos[j] = RepoIn(repos, target.repo) /\ target.tree \in linked
      BY <2>1, <3>2, <3>3, PlaceInGit
    <3>5. load.trees = linked
      BY <3>1, <3>3, <3>4, Loaded DEF load
    <3>6. ws.trees = linked \ {tree}
      <4>1. load \in WorkspaceSnapshot
        BY <3>3, LoadTyped DEF load, IInv, DiskOK
      <4>2. QED
        BY <3>5, <4>1 DEF ws, WorkspaceSnapshot
    <3>7. Follow(target, ws) = target
      BY <3>1, <3>3, <3>4, <3>6, FollowFits DEF Fits
    <3>8. target' = target /\ saved' = saved
      BY <3>1, <3>2, <3>7 DEF Persist
    <3>9. InGit(repos[j].path)'
      BY <1>3, <2>1, <3>4 DEF InGit, GoneWith
    <3>10. Place(repos, target)'
      BY <1>3, <2>1, <3>1, <3>4, <3>8, <3>9 DEF Place
    <3>11. ChosenOK'
      BY <1>3, <3>1, <3>8, <3>10, VersionOfJob, StaysChosen DEF IInv, StickInv
    <3>12. QED
      BY <2>2, <2>3, <3>11 DEF StickInv
  <2>6. QED
    BY <2>4, <2>5
<1>6. QED
  BY <1>4, <1>5

LEMMA RemovedOutsideStick ==
  ASSUME IInv, StickInv, NEW tree \in Folders, RemovedOutside(tree)
  PROVE  StickInv'
<1>1. /\ folders' = folders \ GoneWith(tree) /\ linked' \in {linked, linked \ {tree}}
      /\ chosen' = None /\ UNCHANGED <<repos, removed, born>>
  BY DEF RemovedOutside, table
<1>2. LinkedOK'
  <2>1. SUFFICES ASSUME NEW f \in folders', Top[f] # None PROVE Top[f] \in linked'
    BY DEF LinkedOK
  <2>2. f \in folders /\ f \in Folders /\ Top[f] # tree
    BY <1>1, <2>1 DEF GoneWith, IInv, DiskOK
  <2>3. QED
    BY <1>1, <2>1, <2>2 DEF StickInv, LinkedOK
<1>3. QED
  BY <1>1, <1>2, SameHanded, NotChosen DEF StickInv

LEMMA RailStepStick ==
  ASSUME IInv, GoneInv, TypesInv, StickInv, RailStep PROVE StickInv'
<1>1. ASSUME NEW id \in Ids, SelectRepo(id) \/ DeleteRepository(id) PROVE StickInv'
  BY <1>1, SelectRepoStick, DeleteRepositoryStick
<1>2. ASSUME NEW f \in Folders, \/ SelectWorktree(f) \/ DeleteWorktree(f)
                                \/ AddRepository(f) \/ RemovedOutside(f)
      PROVE StickInv'
  BY <1>2, SelectWorktreeStick, DeleteWorktreeStick, AddRepositoryStick,
     RemovedOutsideStick
<1>3. ASSUME ClearTarget \/ CreateWorktree PROVE StickInv'
  BY <1>3, ClearTargetStick, CreateWorktreeStick
<1>4. ASSUME NEW home \in BOOLEAN, SetLaunchInHome(home) PROVE StickInv'
  BY <1>4, SetLaunchInHomeStick
<1>5. ASSUME NEW key \in Providers, PickProvider(key) PROVE StickInv'
  <2>1. /\ UNCHANGED <<disk, repos, target, saved, chosen, job, removed, born>>
        /\ version' = version + 1
    BY <1>5 DEF PickProvider, table, view
  <2>2. QED
    BY <2>1, NothingChosen DEF IInv
<1>6. QED
  BY <1>1, <1>2, <1>3, <1>4, <1>5 DEF RailStep

(* A step of the worker: what it asks for or reads is of what is selected, *)
(* when its answer is current.                                             *)
LEMMA AnswerStays ==
  ASSUME StickInv, UNCHANGED <<disk, repos, target, saved, removed, born>>,
         chosen' \in {chosen, None},
         ChosenOK /\ chosen # None /\ chosen' # None => AnswerFits'
  PROVE  StickInv'
<1>1. LinkedOK' /\ HandedOK'
  BY SameLinked, SameHanded DEF StickInv
<1>2. Place(repos, target) => Place(repos, target)'
  BY SamePlace
<1>3. ChosenOK'
  BY <1>2 DEF StickInv, ChosenOK, Chose
<1>4. QED
  BY <1>1, <1>3 DEF StickInv

LEMMA ReadRegistryStick ==
  ASSUME IInv, GoneInv, StickInv, ReadRegistry PROVE StickInv'
<1> DEFINE tgt == [NoTarget EXCEPT !.repo = job.repo, !.keep = job.keep]
<1>1. /\ UNCHANGED <<disk, repos, target, saved, removed, born, chosen, version>>
      /\ job.pc = "list"
      /\ job' = [job EXCEPT !.pc = "read", !.repos = repos,
                            !.repo = Reselected(repos, tgt).repo]
  BY DEF ReadRegistry, table, view
<1>2. tgt.repo = job.repo /\ tgt.keep = job.keep
  BY DEF NoTarget
<1> HIDE DEF tgt
<1>3. /\ job'.pc = "read" /\ job'.version = job.version
      /\ job'.repo = Reselected(repos, tgt).repo
  BY <1>1 DEF IInv, JobOK, Job
<1>4. ASSUME ChosenOK, chosen # None, job.version = version
      PROVE  job'.repo = target.repo
  <2>1. job.repo = target.repo /\ job.keep = target.keep /\ Place(repos, target)
    BY <1>1, <1>4 DEF ChosenOK, AnswerFits
  <2>2. target.repo \in IdsOf(repos) \/ (target.repo = None /\ target.keep)
    BY <2>1, PlaceFits DEF IInv, TableOK, GoneInv, IdsOK
  <2>3. Reselected(repos, tgt) = tgt
    BY <1>2, <2>1, <2>2 DEF Reselected
  <2>4. QED
    BY <1>2, <1>3, <2>1, <2>3
<1>5. QED
  BY <1>1, <1>3, <1>4, AnswerStays DEF AnswerFits

LEMMA ReadWorkspaceStick ==
  ASSUME IInv, GoneInv, StickInv, ReadWorkspace PROVE StickInv'
<1>1. PICK broken \in Broken :
        /\ job' = [job EXCEPT !.pc = "done",
                              !.workspace = LoadWorkspace(repos, job.repo, broken)]
        /\ Keep(broken)
  BY DEF ReadWorkspace
<1>2. /\ UNCHANGED <<disk, repos, target, saved, removed, born, version>>
      /\ job.pc = "read"
  BY DEF ReadWorkspace, view
<1>3. chosen' \in {chosen, None} /\ (chosen' # None => broken = {})
  BY <1>1 DEF Keep
<1>4. /\ job'.pc = "done" /\ job'.version = job.version /\ job'.repo = job.repo
      /\ job'.workspace = LoadWorkspace(repos, job.repo, broken)
  BY <1>1 DEF IInv, JobOK, Job
<1>5. ASSUME ChosenOK, chosen # None, chosen' # None, job.version = version
      PROVE  job'.repo = target.repo /\ Fits(target.tree, job'.workspace)
  <2>1. job.repo = target.repo /\ Place(repos, target)
    BY <1>2, <1>5 DEF ChosenOK, AnswerFits
  <2>2. Fits(target.tree, LoadWorkspace(repos, target.repo, {}))
    BY <2>1, PlaceFits DEF IInv, TableOK, GoneInv, IdsOK
  <2>3. QED
    BY <1>3, <1>4, <1>5, <2>1, <2>2
<1>6. ChosenOK /\ chosen # None /\ chosen' # None => AnswerFits'
  BY <1>2, <1>4, <1>5 DEF AnswerFits, Fits
<1>7. QED
  BY <1>2, <1>3, <1>6, AnswerStays

LEMMA RefreshFinishedStick ==
  ASSUME IInv, GoneInv, StickInv, RefreshFinished PROVE StickInv'
<1>1. /\ UNCHANGED <<disk, repos, removed, born, chosen, version>>
      /\ job' = Idle /\ job.pc = "done"
      /\ IF job.version = version /\ ~job.error THEN Apply(job) ELSE UNCHANGED view
  BY DEF RefreshFinished, table, Current
<1>2. AnswerFits'
  BY <1>1 DEF AnswerFits, Idle
<1>3. CASE chosen = None
  BY <1>1, <1>3, NotChosen, SameLinked, SameHanded DEF StickInv
<1>4. CASE chosen # None
  <2>1. saved = target /\ Place(repos, target) /\ AnswerFits
    BY <1>4 DEF StickInv, ChosenOK
  <2>2. CASE UNCHANGED view
    BY <1>1, <1>2, <2>2, AnswerStays DEF view
  <2>3. CASE job.version = version /\ ~job.error /\ Apply(job)
    <3>1. job.repo = target.repo /\ Fits(target.tree, job.workspace)
      BY <1>1, <2>1, <2>3 DEF AnswerFits
    <3>2. target \in Target
      BY DEF IInv, ViewOK, TargetOK
    <3>3. [target EXCEPT !.repo = job.repo] = target
      BY <3>1, <3>2 DEF Target
    <3>4. target' = target /\ saved' = target
      BY <2>3, <3>1, <3>2, <3>3, FollowFits DEF Apply, Persist
    <3>5. QED
      BY <1>1, <1>2, <2>1, <3>4, AnswerStays
  <2>4. QED
    BY <1>1, <2>2, <2>3
<1>5. QED
  BY <1>3, <1>4

LEMMA WorkerStepStick ==
  ASSUME IInv, GoneInv, StickInv, WorkerStep PROVE StickInv'
<1>1. ASSUME RefreshKey \/ RefreshQueued PROVE StickInv'
  <2>1. /\ UNCHANGED <<disk, repos, target, saved, removed, born, chosen, version>>
        /\ Refresh \/ job' = job
    BY <1>1 DEF RefreshKey, RefreshQueued, table, view
  <2>2. CASE job' = job
    BY <2>1, <2>2, NothingChosen DEF IInv
  <2>3. CASE Refresh
    <3>1. job' = [Idle EXCEPT !.pc = "list", !.version = version,
                              !.repo = target.repo, !.keep = target.keep]
      BY <2>3 DEF Refresh
    <3>2. job'.pc = "list" /\ job'.repo = target.repo /\ job'.keep = target.keep
      BY <3>1 DEF Idle
    <3>3. AnswerFits'
      BY <2>1, <3>2 DEF AnswerFits
    <3>4. QED
      BY <2>1, <3>3, AnswerStays
  <2>4. QED
    BY <2>1, <2>2, <2>3
<1>2. ASSUME WorkerFails PROVE StickInv'
  <2>1. /\ UNCHANGED <<disk, repos, target, saved, removed, born, chosen, version>>
        /\ job' = [job EXCEPT !.pc = "done", !.error = TRUE]
    BY <1>2 DEF WorkerFails, table, view
  <2>2. job'.pc = "done" /\ job'.error = TRUE
    BY <2>1 DEF IInv, JobOK, Job
  <2>3. AnswerFits'
    BY <2>2 DEF AnswerFits
  <2>4. QED
    BY <2>1, <2>3, AnswerStays
<1>3. ASSUME ProbeAnswered PROVE StickInv'
  <2>1. UNCHANGED <<disk, repos, target, saved, chosen, job, removed, born, version>>
    BY <1>3 DEF ProbeAnswered, table, view
  <2>2. QED
    BY <2>1, NothingChosen DEF IInv
<1>4. QED
  BY <1>1, <1>2, <1>3, ReadRegistryStick, ReadWorkspaceStick, RefreshFinishedStick
  DEF WorkerStep

(* A restart takes the selection from the settings file, which has it.     *)
LEMMA RestartStick ==
  ASSUME IInv, GoneInv, TypesInv, StickInv, Restart PROVE StickInv'
<1>1. /\ UNCHANGED <<disk, saved, chosen, removed>>
      /\ target' = saved /\ job' = Idle
  BY DEF Restart
<1>2. \/ UNCHANGED <<repos, born>>
      \/ \E id \in Ids : EnsureRepository(Bootstrap, TRUE, id)
  BY DEF Restart
<1>3. Bootstrap \in Folders
  BY FolderAssumption
<1>4. HandedOK'
  BY <1>1, <1>2, <1>3, SameHanded, EnsureHanded DEF StickInv, IInv
<1>5. LinkedOK'
  BY <1>1, SameLinked DEF StickInv
<1>6. CASE chosen = None
  BY <1>1, <1>4, <1>5, <1>6, NotChosen DEF StickInv
<1>7. CASE chosen # None
  <2>1. Chose(chosen) /\ saved = target /\ Place(repos, target)
    BY <1>7 DEF StickInv, ChosenOK
  <2>2. Place(repos', target)
    BY <1>2, <1>3, <2>1, EnsurePlace DEF IInv
  <2>3. Place(repos, target)'
    BY <1>1, <2>1, <2>2, SamePlace
  <2>4. AnswerFits'
    BY <1>1 DEF AnswerFits, Idle
  <2>5. Chose(chosen)' /\ saved' = target'
    BY <1>1, <2>1 DEF Chose
  <2>6. QED
    BY <1>4, <1>5, <2>3, <2>4, <2>5 DEF StickInv, ChosenOK
<1>8. QED
  BY <1>6, <1>7

LEMMA InitStick == Init => StickInv
<1> SUFFICES ASSUME Init PROVE StickInv
  OBVIOUS
<1>1. LinkedOK
  BY DEF Init, LinkedOK
<1>2. repos \in Seq(Repo) /\ born = Len(repos) /\ Ids \subseteq Nat
  <2>1. repos \in Seq(Repo)
    BY InitInv DEF IInv, TableOK
  <2>2. born = Len(repos)
    BY DEF Init
  <2>3. Ids \subseteq Nat
    BY BoundAssumption DEF Ids
  <2>4. QED
    BY <2>1, <2>2, <2>3
<1>3. DOMAIN repos = 1 .. born /\ \A k \in DOMAIN repos : repos[k].id = k
  BY <1>2, InitIds
<1>4. HandedOK
  <2>1. ASSUME NEW id \in Ids, id <= born PROVE id \in IdsOf(repos)
    <3>1. id \in 1 .. born
      BY <1>2, <2>1 DEF Ids
    <3>2. QED
      BY <1>3, <3>1 DEF IdsOf
  <2>2. QED
    BY <2>1 DEF HandedOK
<1>5. chosen = None
  BY DEF Init
<1>6. QED
  BY <1>1, <1>4, <1>5 DEF StickInv, ChosenOK

LEMMA NextStick ==
  IInv /\ GoneInv /\ TypesInv /\ StickInv /\ [Next]_vars => StickInv'
<1> SUFFICES ASSUME IInv, GoneInv, TypesInv, StickInv, [Next]_vars PROVE StickInv'
  OBVIOUS
<1>1. CASE UNCHANGED vars
  <2>1. UNCHANGED <<disk, repos, target, saved, chosen, job, removed, born, version>>
    BY <1>1 DEF vars, table, view
  <2>2. QED
    BY <2>1, NothingChosen DEF IInv
<1>2. CASE Next
  BY <1>2, SessionStepStick, RailStepStick, WorkerStepStick, RestartStick DEF Next
<1>3. QED
  BY <1>1, <1>2

(* What the user chose to launch in stays selected, over refreshes that    *)
(* answer late (applyRefreshSnapshot, m_refreshContextVersion) and over    *)
(* restarts.                                                               *)
THEOREM ChoicesStick == Spec => []TargetSticks
<1>1. StickInv => TargetSticks
  BY DEF StickInv, ChosenOK, Chose, TargetSticks
<1>2. QED
  BY <1>1, WorkspaceAlways, InitStick, NextStick, PTL DEF Spec

=============================================================================
