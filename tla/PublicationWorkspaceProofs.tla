--------------------- MODULE PublicationWorkspaceProofs ---------------------
(***************************************************************************)
(* What publication keeps, for any number of runs, paths and branches and  *)
(* any number of faults: GitHub's history, whose the commits are, the      *)
(* secrecy of the token, and the directory of a run that still needs it;   *)
(* and what the repository lock around it keeps.                           *)
(***************************************************************************)
EXTENDS PublicationWorkspace, RepositoryLock, TLAPS

Refs == [Branch -> SUBSET Chain]

\* The branch checked out exists.
GoodCopy(g) == g \in WorkingCopy /\ g.local[g.head] # {}

-----------------------------------------------------------------------------
(* The git operations leave a good working copy. *)

\* Trees and the tips of chains.
LEMMA TreeFacts ==
  /\ Empty \in Tree
  /\ \A c \in Chain : TipOf(c) \in Tree /\ \A tree \in Tree : Append(c, tree) \in Chain
<1>1. Empty \in Tree
  BY DEF Empty, Tree
<1>2. ASSUME NEW c \in Chain, NEW tree \in Tree PROVE Append(c, tree) \in Chain
  BY <1>2 DEF Chain
<1>3. ASSUME NEW c \in Chain PROVE TipOf(c) \in Tree
  <2>1. CASE c = <<>>
    BY <1>1, <2>1 DEF TipOf
  <2>2. CASE c # <<>>
    <3>1. Len(c) \in 1..Len(c)
      BY <2>2 DEF Chain
    <3>2. c[Len(c)] \in Tree
      BY <3>1 DEF Chain
    <3> QED
      BY <2>2, <3>2 DEF TipOf
  <2> QED
    BY <2>1, <2>2
<1> QED
  BY <1>1, <1>2, <1>3

\* The chain of a branch that exists.
LEMMA ChainFact ==
  ASSUME NEW refs \in Refs, NEW b \in Branch, refs[b] # {}
  PROVE  ChainOf(refs, b) \in refs[b] /\ ChainOf(refs, b) \in Chain /\ TipOf(ChainOf(refs, b)) \in Tree
<1>1. ChainOf(refs, b) \in refs[b]
  BY DEF ChainOf
<1>2. ChainOf(refs, b) \in Chain
  BY <1>1 DEF Refs
<1> QED
  BY <1>1, <1>2, TreeFacts

\* The parts of a working copy.
LEMMA CopyParts ==
  ASSUME NEW g, GoodCopy(g)
  PROVE  /\ g \in WorkingCopy /\ g.head \in Branch /\ g.local \in Refs /\ g.tracking \in Refs
         /\ g.upstream \in SUBSET Branch /\ g.index \in Tree /\ g.work \in Tree
         /\ g.local[g.head] # {} /\ HeadTree(g) \in Tree
<1>1. /\ g \in WorkingCopy /\ g.head \in Branch /\ g.local \in Refs /\ g.tracking \in Refs
      /\ g.upstream \in SUBSET Branch /\ g.index \in Tree /\ g.work \in Tree
      /\ g.local[g.head] # {}
  BY DEF GoodCopy, WorkingCopy, Refs
<1>2. HeadTree(g) \in Tree
  BY <1>1, ChainFact DEF HeadTree
<1> QED
  BY <1>1, <1>2

\* The parts that do not say which branches there are may be exchanged.
LEMMA CopyFiles ==
  ASSUME NEW g, GoodCopy(g), NEW index \in Tree, NEW work \in Tree
  PROVE  /\ GoodCopy([g EXCEPT !.index = index]) /\ GoodCopy([g EXCEPT !.work = work])
         /\ GoodCopy([g EXCEPT !.index = index, !.work = work])
BY DEF GoodCopy, WorkingCopy

\* So may what is known of the remote branches.
LEMMA CopyRemote ==
  ASSUME NEW g, GoodCopy(g), NEW tracking \in Refs, NEW upstream \in SUBSET Branch
  PROVE  /\ GoodCopy([g EXCEPT !.upstream = upstream]) /\ GoodCopy([g EXCEPT !.tracking = tracking])
         /\ GoodCopy([g EXCEPT !.tracking = tracking, !.upstream = upstream])
BY DEF GoodCopy, WorkingCopy, Refs

\* So may the branches, as long as the one checked out exists.
LEMMA CopyBranches ==
  ASSUME NEW g, GoodCopy(g), NEW head \in Branch, NEW local \in Refs, local[head] # {}
  PROVE  GoodCopy([g EXCEPT !.head = head, !.local = local])
BY DEF GoodCopy, WorkingCopy, Refs

\* clone.
LEMMA ClonedGood ==
  ASSUME NEW refs \in Refs, refs[Default] # {}
  PROVE  GoodCopy(Cloned(refs))
<1>1. TipOf(ChainOf(refs, Default)) \in Tree
  BY GitAssumption, ChainFact
<1>2. Cloned(refs) \in WorkingCopy
  BY <1>1, GitAssumption DEF Cloned, WorkingCopy, Refs
<1>3. Cloned(refs).local[Cloned(refs).head] # {}
  BY GitAssumption DEF Cloned
<1> QED
  BY <1>2, <1>3 DEF GoodCopy

\* Going to a branch that exists.
LEMMA SwitchedGood ==
  ASSUME NEW g, GoodCopy(g), NEW b \in Branch, NEW refs \in Refs, refs[b] # {}
  PROVE  GoodCopy(SwitchedTo(g, b, refs))
<1> DEFINE tree == TipOf(ChainOf(refs, b))
           Moved(files) == [p \in Paths |-> IF HeadTree(g)[p] = tree[p] THEN files[p] ELSE tree[p]]
<1>1. tree \in Tree
  BY ChainFact
<1>2. \A files \in Tree : Moved(files) \in Tree
  BY <1>1 DEF Tree
<1>3. Moved(g.work) \in Tree /\ Moved(g.index) \in Tree
  BY <1>2, CopyParts
<1> DEFINE h == [g EXCEPT !.head = b, !.local = refs]
<1>4. GoodCopy(h)
  BY CopyBranches
<1>5. SwitchedTo(g, b, refs) = [g EXCEPT !.head = b, !.local = refs, !.work = Moved(g.work), !.index = Moved(g.index)]
  BY DEF SwitchedTo
<1> HIDE DEF Moved
<1>6. SwitchedTo(g, b, refs) = [h EXCEPT !.index = Moved(g.index), !.work = Moved(g.work)]
  BY <1>5, CopyParts DEF WorkingCopy
<1> HIDE DEF h
<1>7. GoodCopy([h EXCEPT !.index = Moved(g.index), !.work = Moved(g.work)])
  BY <1>3, <1>4, CopyFiles
<1> QED
  BY <1>6, <1>7

\* checkout.
LEMMA CheckedOutGood ==
  ASSUME NEW g, GoodCopy(g), NEW b \in Branch, CanCheckout(g, b)
  PROVE  GoodCopy(CheckedOut(g, b))
<1> DEFINE refs == RefsAfterCheckout(g, b)
           h == SwitchedTo(g, b, refs)
<1>1. refs \in Refs /\ refs[b] # {}
  BY CopyParts DEF RefsAfterCheckout, CanCheckout, Refs
<1>2. GoodCopy(h)
  BY <1>1, SwitchedGood
<1>3. CheckedOut(g, b) = IF b = g.head THEN g
                         ELSE [h EXCEPT !.upstream = IF g.local[b] = {} THEN h.upstream \cup {b} ELSE h.upstream]
  BY DEF CheckedOut
<1> HIDE DEF h
<1>4. \A upstream \in SUBSET Branch : GoodCopy([h EXCEPT !.upstream = upstream])
  BY <1>2, CopyRemote, CopyParts
<1>5. h.upstream \in SUBSET Branch
  BY <1>2, CopyParts
<1> QED
  BY <1>3, <1>4, <1>5

\* checkout -b.
LEMMA BranchedGood ==
  ASSUME NEW g, GoodCopy(g), NEW b \in Branch
  PROVE  GoodCopy(Branched(g, b))
<1> DEFINE local == [g.local EXCEPT ![b] = g.local[g.head]]
<1>1. local \in Refs /\ local[b] # {}
  BY CopyParts DEF Refs
<1>2. Branched(g, b) = [g EXCEPT !.head = b, !.local = local]
  BY CopyParts DEF Branched, WorkingCopy
<1> HIDE DEF local
<1>3. GoodCopy([g EXCEPT !.head = b, !.local = local])
  BY <1>1, CopyBranches
<1> QED
  BY <1>2, <1>3

\* pull.
LEMMA PulledGood ==
  ASSUME NEW g, GoodCopy(g), NEW refs \in Refs, CanPull(g, refs)
  PROVE  GoodCopy(Pulled(g, refs))
<1> DEFINE fetched == [g EXCEPT !.tracking = refs]
           local == [g.local EXCEPT ![g.head] = refs[g.head]]
<1>1. GoodCopy(fetched)
  BY CopyRemote, CopyParts
<1>2. local \in Refs /\ local[g.head] # {}
  BY CopyParts DEF CanPull, Refs
<1>3. GoodCopy(SwitchedTo(fetched, g.head, local))
  BY <1>1, <1>2, SwitchedGood, CopyParts
<1> QED
  BY <1>1, <1>3 DEF Pulled

\* add and the copying of documents.
LEMMA AddedGood ==
  ASSUME NEW g, GoodCopy(g), NEW files, NEW r \in Runs
  PROVE  GoodCopy(Added(g, files)) /\ GoodCopy(Copied(g, r, files))
<1>1. [p \in Paths |-> IF p \in files THEN g.work[p] ELSE g.index[p]] \in Tree
  BY CopyParts DEF Tree
<1>2. [p \in Paths |-> IF p \in files THEN r ELSE g.work[p]] \in Tree
  BY CopyParts DEF Tree, Runs
<1>3. \A tree \in Tree : GoodCopy([g EXCEPT !.index = tree]) /\ GoodCopy([g EXCEPT !.work = tree])
  BY CopyFiles
<1> QED
  BY <1>1, <1>2, <1>3 DEF Added, Copied

\* commit.
LEMMA CommittedGood ==
  ASSUME NEW g, GoodCopy(g)
  PROVE  GoodCopy(CommittedIndex(g))
<1>1. Append(ChainOf(g.local, g.head), g.index) \in Chain
  BY CopyParts, ChainFact, TreeFacts
<1> DEFINE local == [g.local EXCEPT ![g.head] = {Append(ChainOf(g.local, g.head), g.index)}]
<1>2. local \in Refs /\ local[g.head] # {}
  BY <1>1, CopyParts DEF Refs
<1>3. CommittedIndex(g) = [g EXCEPT !.head = g.head, !.local = local]
  BY CopyParts DEF CommittedIndex, WorkingCopy
<1> HIDE DEF local
<1>4. g.head \in Branch
  BY CopyParts
<1>5. GoodCopy([g EXCEPT !.head = g.head, !.local = local])
  BY <1>2, <1>4, CopyBranches
<1> QED
  BY <1>3, <1>5

\* push.
LEMMA PushedGood ==
  ASSUME NEW g, GoodCopy(g), NEW b \in Branch
  PROVE  GoodCopy(Pushed(g, b))
<1>1. [g.tracking EXCEPT ![b] = g.local[b]] \in Refs /\ g.upstream \cup {b} \in SUBSET Branch
  BY CopyParts DEF Refs
<1>2. Pushed(g, b) = [g EXCEPT !.tracking = [g.tracking EXCEPT ![b] = g.local[b]],
                               !.upstream = g.upstream \cup {b}]
  BY CopyParts DEF Pushed, WorkingCopy
<1> DEFINE tracking == [g.tracking EXCEPT ![b] = g.local[b]]
           upstream == g.upstream \cup {b}
<1> HIDE DEF tracking, upstream
<1>3. GoodCopy([g EXCEPT !.tracking = tracking, !.upstream = upstream])
  BY <1>1, CopyRemote DEF tracking, upstream
<1> QED
  BY <1>2, <1>3 DEF tracking, upstream

\* reset and clean.
LEMMA ResetGood ==
  ASSUME NEW g, GoodCopy(g)
  PROVE  GoodCopy(Reset(g)) /\ GoodCopy(Cleaned(g))
<1>1. [p \in Paths |-> IF g.index[p] = Nobody /\ HeadTree(g)[p] = Nobody
                       THEN g.work[p] ELSE HeadTree(g)[p]] \in Tree
  BY CopyParts DEF Tree
<1>2. [p \in Paths |-> IF g.index[p] = Nobody THEN Nobody ELSE g.work[p]] \in Tree
  BY CopyParts DEF Tree
<1>3. \A index, work \in Tree :
        GoodCopy([g EXCEPT !.index = index, !.work = work]) /\ GoodCopy([g EXCEPT !.work = work])
  BY CopyFiles
<1> QED
  BY <1>1, <1>2, <1>3, CopyParts DEF Reset, Cleaned

\* branch -D.
LEMMA DeletedGood ==
  ASSUME NEW g, GoodCopy(g), NEW b \in Branch, CanDelete(g, b)
  PROVE  GoodCopy(Deleted(g, b))
<1> DEFINE local == [g.local EXCEPT ![b] = {}]
           h == [g EXCEPT !.head = g.head, !.local = local]
<1>1. local \in Refs /\ local[g.head] # {}
  BY CopyParts DEF Refs, CanDelete
<1> HIDE DEF local
<1>2. GoodCopy(h)
  BY <1>1, CopyBranches, CopyParts
<1>3. Deleted(g, b) = [h EXCEPT !.upstream = g.upstream \ {b}]
  BY CopyParts DEF Deleted, WorkingCopy, local
<1> HIDE DEF h
<1>4. g.upstream \ {b} \in SUBSET Branch
  BY CopyParts
<1>5. \A upstream \in SUBSET Branch : GoodCopy([h EXCEPT !.upstream = upstream])
  BY <1>2, CopyRemote, CopyParts
<1> QED
  BY <1>3, <1>4, <1>5

-----------------------------------------------------------------------------
(* The directory and the remote branches. *)

\* The directory holds a good working copy, and GitHub has a default branch.
DiskInv ==
  /\ dir \in Directory /\ GoodCopy(dir.git)
  /\ remote \in Refs /\ remote[Default] # {}

\* A directory stays one when its working copy is replaced by a good one.
LEMMA DirectoryFields ==
  ASSUME DiskInv
  PROVE  /\ \A g : GoodCopy(g) => /\ [dir EXCEPT !.git = g] \in Directory
                                 /\ [dir EXCEPT !.git = g].git = g
         /\ /\ [dir EXCEPT !.kind = "debris"] \in Directory
            /\ [dir EXCEPT !.kind = "debris"].git = dir.git
         /\ \A url \in {"plain", "token"} : /\ [dir EXCEPT !.url = url] \in Directory
                                           /\ [dir EXCEPT !.url = url].git = dir.git
BY DEF DiskInv, GoodCopy, Directory

\* What others start with.
LEMMA NewGood ==
  /\ NewGitHub \in Refs /\ NewGitHub[Default] # {}
  /\ NoDirectory \in Directory /\ GoodCopy(NoDirectory.git) /\ NoDirectory.url = "plain"
<1>1. <<>> \in Chain
  BY DEF Chain
<1>2. NewGitHub \in Refs /\ NewGitHub[Default] # {}
  BY <1>1, GitAssumption DEF NewGitHub, Refs
<1>3. GoodCopy(Cloned(NewGitHub))
  BY <1>2, ClonedGood
<1> QED
  BY <1>2, <1>3 DEF NoDirectory, Directory, GoodCopy

\* An operation on the working copy keeps everything on disk well-formed.
LEMMA GitStep ==
  ASSUME DiskInv, NEW g, GoodCopy(g), Git(g), remote' = remote
  PROVE  DiskInv'
BY DirectoryFields DEF Git, DiskInv

\* The executor's git operations.
LEMMA CommitKeepsDisk ==
  ASSUME DiskInv, TypeOK, exec.pc # "idle" => exec.run \in Runs,
         Checkout \/ Pull \/ Add \/ Commit
  PROVE  DiskInv'
<1>1. remote' = remote /\ GoodCopy(dir.git) /\ Target \in Branch /\ remote \in Refs
  BY WorkspaceAssumption DEF Checkout, Pull, Add, Commit, NoOtherChange, DiskInv
<1>2. SUFFICES ASSUME dir' # dir PROVE \E g : GoodCopy(g) /\ Git(g)
  BY <1>1, GitStep DEF DiskInv
<1>3. CASE Checkout
  <2>1. \/ CanCheckout(dir.git, Target) /\ Git(CheckedOut(dir.git, Target))
        \/ Git(Branched(dir.git, Target))
    BY <1>2, <1>3 DEF Checkout
  <2> QED
    BY <1>1, <2>1, CheckedOutGood, BranchedGood
<1>4. CASE Pull
  <2>1. CanPull(dir.git, remote) /\ Git(Pulled(dir.git, remote))
    BY <1>2, <1>4 DEF Pull
  <2> QED
    BY <1>1, <2>1, PulledGood
<1>5. CASE Add
  <2>1. Current \in Runs
    BY <1>5 DEF Add, At, Current
  <2>2. Git(Added(dir.git, Docs[Current]))
    BY <1>2, <1>5 DEF Add
  <2> QED
    BY <1>1, <2>1, <2>2, AddedGood
<1>6. CASE Commit
  <2>1. Git(dir.git) \/ Git(CommittedIndex(dir.git))
    BY <1>2, <1>6 DEF Commit
  <2> QED
    BY <1>1, <2>1, CommittedGood
<1> QED
  BY <1>3, <1>4, <1>5, <1>6

\* The rollback's git operations.
LEMMA RollbackKeepsDisk ==
  ASSUME DiskInv, RollbackSwitch \/ RollbackReset \/ RollbackDelete
  PROVE  DiskInv'
<1>1. remote' = remote /\ GoodCopy(dir.git) /\ Target \in Branch /\ Default \in Branch
  BY WorkspaceAssumption, GitAssumption
  DEF RollbackSwitch, RollbackReset, RollbackDelete, NoOtherChange, DiskInv
<1>2. SUFFICES ASSUME dir' # dir PROVE \E g : GoodCopy(g) /\ Git(g)
  BY <1>1, GitStep DEF DiskInv
<1>3. CASE RollbackSwitch
  <2>1. \/ CanCheckout(dir.git, Default) /\ Git(CheckedOut(dir.git, Default))
        \/ Git(dir.git)
    BY <1>2, <1>3 DEF RollbackSwitch
  <2> QED
    BY <1>1, <2>1, CheckedOutGood
<1>4. CASE RollbackReset
  <2>1. Git(Cleaned(Reset(dir.git))) \/ Git(Reset(dir.git))
    BY <1>2, <1>4 DEF RollbackReset
  <2>2. GoodCopy(Reset(dir.git))
    BY <1>1, ResetGood
  <2>3. GoodCopy(Cleaned(Reset(dir.git)))
    BY <2>2, ResetGood
  <2> QED
    BY <2>1, <2>2, <2>3
<1>5. CASE RollbackDelete
  <2>1. Git(dir.git) \/ (CanDelete(dir.git, Target) /\ Git(Deleted(dir.git, Target)))
    BY <1>2, <1>5 DEF RollbackDelete
  <2> QED
    BY <1>1, <2>1, DeletedGood
<1> QED
  BY <1>3, <1>4, <1>5

\* The directory as a whole comes, goes and is written to.
LEMMA DirectoryKept ==
  ASSUME DiskInv, TypeOK, exec.pc # "idle" => exec.run \in Runs,
         \/ Clone \/ WriteDocuments \/ SetToken \/ RestoreOrigin
         \/ DeleteWorkspace \/ SweepRemove \/ RevokeDirectory
  PROVE  DiskInv'
<1>1. remote' = remote
  BY DEF Clone, WriteDocuments, SetToken, RestoreOrigin, DeleteWorkspace, SweepRemove,
         RevokeDirectory, NoOtherChange
<1>2. SUFFICES dir' \in Directory /\ GoodCopy(dir'.git)
  BY <1>1 DEF DiskInv
<1>3. dir \in Directory /\ GoodCopy(dir.git) /\ remote \in Refs /\ remote[Default] # {}
  BY DEF DiskInv
<1>4. CASE Clone
  <2>1. dir' = dir \/ dir' = [kind |-> "clone", git |-> Cloned(remote), url |-> "plain"]
    BY <1>4 DEF Clone
  <2>2. GoodCopy(Cloned(remote))
    BY <1>3, ClonedGood
  <2>3. [kind |-> "clone", git |-> Cloned(remote), url |-> "plain"] \in Directory
    BY <2>2 DEF Directory, GoodCopy
  <2> QED
    BY <1>3, <2>1, <2>2, <2>3
<1>5. CASE WriteDocuments
  <2>1. Current \in Runs
    BY <1>5 DEF WriteDocuments, At, Current
  <2>2. \A files : GoodCopy(Copied(dir.git, Current, files))
    BY <1>3, <2>1, AddedGood
  <2>3. \/ dir' = dir \/ dir' = [dir EXCEPT !.kind = "debris"]
        \/ \E files : dir' = [dir EXCEPT !.git = Copied(dir.git, Current, files)]
    <3>1. CASE IsClone
      BY <1>5, <3>1 DEF WriteDocuments
    <3>2. CASE ~IsClone
      BY <1>5, <3>2 DEF WriteDocuments
    <3> QED
      BY <3>1, <3>2
  <2>4. CASE dir' = dir \/ dir' = [dir EXCEPT !.kind = "debris"]
    BY <1>3, <2>4, DirectoryFields
  <2>5. ASSUME NEW files, dir' = [dir EXCEPT !.git = Copied(dir.git, Current, files)]
        PROVE  dir' \in Directory /\ GoodCopy(dir'.git)
    <3> DEFINE g == Copied(dir.git, Current, files)
    <3>1. GoodCopy(g)
      BY <2>2
    <3> HIDE DEF g
    <3>2. dir' = [dir EXCEPT !.git = g]
      BY <2>5 DEF g
    <3> QED
      BY <3>1, <3>2, DirectoryFields
  <2> QED
    BY <2>3, <2>4, <2>5
<1>6. CASE SetToken \/ RestoreOrigin
  <2>1. exec.origin \in {"plain", "token"}
    BY DEF TypeOK, Executor
  <2>2. dir' = dir \/ \E url \in {"plain", "token"} : dir' = [dir EXCEPT !.url = url]
    BY <1>6, <2>1 DEF SetToken, RestoreOrigin
  <2> QED
    BY <1>3, <2>2, DirectoryFields
<1>7. CASE DeleteWorkspace \/ SweepRemove \/ RevokeDirectory
  BY <1>7, NewGood DEF DeleteWorkspace, SweepRemove, RevokeDirectory
<1> QED
  BY <1>4, <1>5, <1>6, <1>7

\* GitHub's side.
LEMMA RemoteKept ==
  ASSUME DiskInv, Push \/ Merge
  PROVE  DiskInv'
<1>1. /\ dir \in Directory /\ GoodCopy(dir.git) /\ remote \in Refs /\ remote[Default] # {}
      /\ Target \in Branch /\ Target # Default /\ Default \in Branch
  BY WorkspaceAssumption, GitAssumption DEF DiskInv
<1>2. CASE Push
  <2>1. CASE UNCHANGED <<dir, remote>>
    BY <2>1 DEF DiskInv
  <2>2. CASE ~UNCHANGED <<dir, remote>>
    <3>1. remote' = [remote EXCEPT ![Target] = dir.git.local[Target]] /\ Git(Pushed(dir.git, Target))
      BY <1>2, <2>2 DEF Push
    <3>2. dir.git.local \in Refs
      BY <1>1, CopyParts
    <3>3. remote' \in Refs /\ remote'[Default] # {}
      BY <1>1, <3>1, <3>2 DEF Refs
    <3>4. GoodCopy(Pushed(dir.git, Target))
      BY <1>1, PushedGood
    <3> QED
      BY <3>1, <3>3, <3>4, DirectoryFields DEF Git, DiskInv
  <2> QED
    BY <2>1, <2>2
<1>3. CASE Merge
  BY <1>1, <1>3 DEF Merge, DiskInv, Refs
<1> QED
  BY <1>2, <1>3

\* Nobody else touches the disk.
LEMMA DiskStep ==
  ASSUME DiskInv, TypeOK, exec.pc # "idle" => exec.run \in Runs, [Next]_vars
  PROVE  DiskInv'
<1>1. CASE Checkout \/ Pull \/ Add \/ Commit
  BY <1>1, CommitKeepsDisk
<1>2. CASE RollbackSwitch \/ RollbackReset \/ RollbackDelete
  BY <1>2, RollbackKeepsDisk
<1>3. CASE \/ Clone \/ WriteDocuments \/ SetToken \/ RestoreOrigin
           \/ DeleteWorkspace \/ SweepRemove \/ RevokeDirectory
  BY <1>3, DirectoryKept
<1>4. CASE Push \/ Merge
  BY <1>4, RemoteKept
<1>5. CASE UNCHANGED <<dir, remote>>
  BY <1>5 DEF DiskInv
<1>6. CASE \/ Open \/ Analyse \/ Proceed \/ Checkpoint \/ ReadOrigin \/ Propose \/ ShouldCleanup
           \/ SweepLock \/ SweepLook \/ RevokeRows \/ Age \/ Restart \/ UNCHANGED vars
           \/ (\E permanent \in BOOLEAN : Fail(permanent))
           \/ (\E r \in Runs : Arrive(r) \/ Take(r) \/ Approve(r))
  <2>1. UNCHANGED <<dir, remote>>
    BY <1>6 DEF Open, Analyse, Proceed, Checkpoint, ReadOrigin, Propose, ShouldCleanup, SweepLock,
                SweepLook, RevokeRows, Age, Restart, vars, Fail, Arrive, Take, Approve, NoOtherChange
  <2> QED
    BY <1>5, <2>1
<1> QED
  BY <1>1, <1>2, <1>3, <1>4, <1>6 DEF Next, Execute, Sweep

-----------------------------------------------------------------------------
(* Rows, jobs and the executor. *)

\* The executor works on a run, and a job is delivered only while attempts are left.
RunsInv ==
  /\ exec.pc # "idle" => exec.run \in Runs
  /\ \A r \in Runs : run[r].job => run[r].attempts < MaxAttempts
  /\ exec.pc \notin {"idle", "cleanup", "remove"} /\ run[exec.run].status # "DELETED"
       => run[exec.run].attempts < MaxAttempts

\* The executor's record stays one.
LEMMA ExecutorFields ==
  ASSUME NEW e \in Executor
  PROVE  /\ \A pc \in PC : [e EXCEPT !.pc = pc] \in Executor
         /\ \A pc \in PC : [e EXCEPT !.pc = pc, !.failed = TRUE] \in Executor
         /\ \A pc \in PC : [e EXCEPT !.pc = pc, !.pushing = FALSE] \in Executor
         /\ \A pc \in PC, origin \in {"plain", "token"} :
              [e EXCEPT !.pc = pc, !.origin = origin, !.pushing = TRUE] \in Executor
         /\ \A pc \in PC, r \in Runs : [Idle EXCEPT !.pc = pc, !.run = r] \in Executor
         /\ Idle \in Executor
<1>1. Idle \in Executor
  BY DEF Idle, Executor, PC
<1> QED
  BY <1>1 DEF Executor

\* Steps of the executor that write no row.
Working ==
  \/ Open \/ Clone \/ WriteDocuments \/ Checkout \/ Pull \/ Add \/ Commit
  \/ ReadOrigin \/ SetToken \/ Push \/ RestoreOrigin
  \/ RollbackSwitch \/ RollbackReset \/ RollbackDelete

\* They keep the run they are about.
LEMMA WorkingStep ==
  ASSUME TypeOK, Working
  PROVE  /\ run' = run /\ exec' \in Executor /\ exec'.run = exec.run
         /\ exec.pc \notin {"idle", "cleanup", "remove"}
         /\ UNCHANGED <<sweep, lock, stale>>
<1>1. exec \in Executor /\ dir.url \in {"plain", "token"}
  BY DEF TypeOK, Directory
<1>2. run' = run /\ UNCHANGED <<sweep, lock, stale>> /\ exec.pc \notin {"idle", "cleanup", "remove"}
  BY DEF Working, Open, Clone, WriteDocuments, Checkout, Pull, Add, Commit, ReadOrigin, SetToken,
         Push, RestoreOrigin, RollbackSwitch, RollbackReset, RollbackDelete, NoOtherChange, At
<1>3. \/ \E pc \in PC : \/ exec' = [exec EXCEPT !.pc = pc]
                        \/ exec' = [exec EXCEPT !.pc = pc, !.failed = TRUE]
                        \/ exec' = [exec EXCEPT !.pc = pc, !.pushing = FALSE]
      \/ \E pc \in PC, origin \in {"plain", "token"} :
           exec' = [exec EXCEPT !.pc = pc, !.origin = origin, !.pushing = TRUE]
  <2>1. CASE Open \/ Clone \/ WriteDocuments
    BY <2>1 DEF Open, Clone, WriteDocuments, Goto, ToFailure, PC
  <2>2. CASE Checkout \/ Pull \/ Add \/ Commit
    BY <2>2 DEF Checkout, Pull, Add, Commit, Goto, ToRollback, PC
  <2>3. CASE ReadOrigin
    BY <1>1, <2>3 DEF ReadOrigin, ToFailure, PC
  <2>4. CASE SetToken \/ Push \/ RestoreOrigin
    BY <2>4 DEF SetToken, Push, RestoreOrigin, Goto, ToRollback, PC
  <2>5. CASE RollbackSwitch \/ RollbackReset \/ RollbackDelete
    BY <2>5 DEF RollbackSwitch, RollbackReset, RollbackDelete, AfterRollback, Goto, PC
  <2> QED
    BY <2>1, <2>2, <2>3, <2>4, <2>5 DEF Working
<1>4. exec' \in Executor
  <2>1. ASSUME NEW pc \in PC
        PROVE  /\ [exec EXCEPT !.pc = pc] \in Executor
               /\ [exec EXCEPT !.pc = pc, !.failed = TRUE] \in Executor
               /\ [exec EXCEPT !.pc = pc, !.pushing = FALSE] \in Executor
    BY <1>1, ExecutorFields
  <2>2. ASSUME NEW pc \in PC, NEW origin \in {"plain", "token"}
        PROVE  [exec EXCEPT !.pc = pc, !.origin = origin, !.pushing = TRUE] \in Executor
    BY <1>1, ExecutorFields
  <2> QED
    BY <1>3, <2>1, <2>2
<1>5. exec'.run = exec.run
  BY <1>1, <1>3 DEF Executor
<1> QED
  BY <1>2, <1>4, <1>5

\* Recording a commit leaves the job and its attempts alone.
LEMMA CommitKeepsJob ==
  ASSUME NEW row \in RunRow
  PROVE  /\ [row EXCEPT !.committed = TRUE] \in RunRow
         /\ [row EXCEPT !.committed = TRUE].job = row.job
         /\ [row EXCEPT !.committed = TRUE].attempts = row.attempts
<1>1. [row EXCEPT !.committed = TRUE] \in RunRow
  BY DEF RunRow
<1>2. [row EXCEPT !.committed = TRUE].job = row.job
  BY DEF RunRow
<1>3. [row EXCEPT !.committed = TRUE].attempts = row.attempts
  BY DEF RunRow
<1> QED
  BY <1>1, <1>2, <1>3

\* A row that is written stays one.
LEMMA RowFields ==
  ASSUME NEW row \in RunRow
  PROVE  /\ \A status \in RunStatus : /\ [row EXCEPT !.status = status] \in RunRow
                                      /\ [row EXCEPT !.job = FALSE, !.status = status] \in RunRow
                                      /\ [row EXCEPT !.status = status, !.job = FALSE] \in RunRow
         /\ [row EXCEPT !.job = FALSE] \in RunRow /\ [row EXCEPT !.job = TRUE] \in RunRow
         /\ [row EXCEPT !.committed = TRUE] \in RunRow
         /\ [row EXCEPT !.approved = TRUE, !.job = TRUE, !.mode = "resume", !.attempts = 0] \in RunRow
         /\ \A again \in BOOLEAN, attempts \in 0..MaxAttempts :
              [row EXCEPT !.status = "FAILED", !.job = again, !.mode = "resume", !.attempts = attempts]
                \in RunRow
         /\ row.attempts \in 0..MaxAttempts /\ row.job \in BOOLEAN
<1> MaxAttempts \in Nat \ {0}
  BY WorkspaceAssumption
<1>1. "FAILED" \in RunStatus /\ 0 \in 0..MaxAttempts
  BY DEF RunStatus
<1> QED
  BY <1>1 DEF RunRow

\* Writing one row changes no other.
LEMMA OneRow ==
  ASSUME TypeOK, RunsInv, NEW r \in Runs, NEW row \in RunRow, run' = [run EXCEPT ![r] = row],
         row.job => row.attempts < MaxAttempts
  PROVE  /\ run' \in [Runs -> RunRow] /\ run'[r] = row
         /\ \A q \in Runs : run'[q].job => run'[q].attempts < MaxAttempts
BY DEF TypeOK, RunsInv

\* A run's step that writes its row.
LEMMA RowsStep ==
  ASSUME TypeOK, RunsInv,
         \/ Analyse \/ Proceed \/ Checkpoint \/ Propose
         \/ \E r \in Runs : Arrive(r) \/ Take(r) \/ Approve(r)
  PROVE  run' \in [Runs -> RunRow] /\ exec' \in Executor /\ RunsInv'
<1>1. exec \in Executor /\ (exec.pc # "idle" => exec.run \in Runs) /\ run \in [Runs -> RunRow]
      /\ MaxAttempts \in Nat \ {0}
  BY WorkspaceAssumption DEF TypeOK, RunsInv
<1>2. CASE Analyse \/ Proceed \/ Checkpoint \/ Propose
  <2> DEFINE r == exec.run
             row == run[r]
  <2>1. exec.pc \notin {"idle", "cleanup", "remove"} /\ r \in Runs /\ row \in RunRow
    BY <1>1, <1>2 DEF Analyse, Proceed, Checkpoint, Propose, At
  <2>2. \/ exec' = Idle
        \/ \E pc \in PC : exec' = [exec EXCEPT !.pc = pc]
        \/ \E pc \in PC : exec' = [exec EXCEPT !.pc = pc, !.failed = TRUE]
    BY <1>2 DEF Analyse, Proceed, Checkpoint, Propose, Goto, ToFailure, PC
  <2>3. exec' \in Executor /\ (exec' = Idle \/ exec'.run = r)
    <3>1. ASSUME NEW pc \in PC
          PROVE  /\ [exec EXCEPT !.pc = pc] \in Executor
                 /\ [exec EXCEPT !.pc = pc, !.failed = TRUE] \in Executor
                 /\ [exec EXCEPT !.pc = pc].run = r
                 /\ [exec EXCEPT !.pc = pc, !.failed = TRUE].run = r
      BY ZenonT(40), <1>1, ExecutorFields DEF Executor
    <3>2. Idle \in Executor
      BY <1>1, ExecutorFields
    <3>3. CASE exec' = Idle
      BY <3>2, <3>3
    <3>4. CASE \E pc \in PC : exec' = [exec EXCEPT !.pc = pc]
      <4>1. PICK pc \in PC : exec' = [exec EXCEPT !.pc = pc]
        BY <3>4
      <4> QED
        BY <3>1, <4>1
    <3>5. CASE \E pc \in PC : exec' = [exec EXCEPT !.pc = pc, !.failed = TRUE]
      <4>1. PICK pc \in PC : exec' = [exec EXCEPT !.pc = pc, !.failed = TRUE]
        BY <3>5
      <4> QED
        BY <3>1, <4>1
    <3> QED
      BY <2>2, <3>3, <3>4, <3>5
  <2>4. run' = run \/ \E new \in RunRow : /\ run' = [run EXCEPT ![r] = new]
                                        /\ new.job = row.job /\ new.attempts = row.attempts
    <3>1. \A status \in RunStatus : /\ [row EXCEPT !.status = status] \in RunRow
                                    /\ [row EXCEPT !.status = status].job = row.job
                                    /\ [row EXCEPT !.status = status].attempts = row.attempts
      BY ZenonT(40), <2>1, RowFields DEF RunRow
    <3>2. /\ [row EXCEPT !.committed = TRUE] \in RunRow
          /\ [row EXCEPT !.committed = TRUE].job = row.job
          /\ [row EXCEPT !.committed = TRUE].attempts = row.attempts
      <4> HIDE DEF row
      <4>1. row \in RunRow
        BY <2>1
      <4> QED
        BY <4>1, CommitKeepsJob
    <3>3. \/ run' = run \/ \E status \in RunStatus : run' = [run EXCEPT ![r] = [row EXCEPT !.status = status]]
          \/ run' = [run EXCEPT ![r] = [row EXCEPT !.committed = TRUE]]
      BY <1>2 DEF Analyse, Proceed, Checkpoint, Propose, Write, Current, RunStatus
    <3> QED
      BY <3>1, <3>2, <3>3
  <2>5. row.job => row.attempts < MaxAttempts
    BY <2>1 DEF RunsInv
  <2>6. /\ run' \in [Runs -> RunRow] /\ run'[r].attempts = row.attempts
        /\ \A q \in Runs : run'[q].job => run'[q].attempts < MaxAttempts
    <3>1. CASE run' = run
      BY <1>1, <3>1 DEF RunsInv
    <3>2. CASE run' # run
      <4>1. PICK new \in RunRow : /\ run' = [run EXCEPT ![r] = new]
                                  /\ new.job = row.job /\ new.attempts = row.attempts
        BY <2>4, <3>2
      <4> QED
        BY <2>1, <2>5, <4>1, OneRow
    <3> QED
      BY <3>1, <3>2
  <2>7. row.status # "DELETED" => row.attempts < MaxAttempts
    BY <2>1 DEF RunsInv
  <2>8. exec' = Idle \/ (row.status # "DELETED" \/ run'[r].status = "DELETED")
    <3>1. CASE row.status = "DELETED"
      <4>1. run' = run
        BY <1>2, <3>1 DEF Analyse, Proceed, Checkpoint, Propose, Write, Current
      <4> QED
        BY <3>1, <4>1
    <3> QED
      BY <3>1
  <2> QED
    BY <2>1, <2>3, <2>6, <2>7, <2>8 DEF RunsInv, Idle
<1>3. ASSUME NEW r \in Runs, Take(r)
      PROVE  run' \in [Runs -> RunRow] /\ exec' \in Executor /\ RunsInv'
  <2>1. exec' = [Idle EXCEPT !.pc = "open", !.run = r] /\ "open" \in PC
    BY <1>3 DEF Take, PC
  <2>2. exec' \in Executor /\ exec'.run = r
    BY <1>1, <2>1, ExecutorFields DEF Idle
  <2>3. run[r] \in RunRow /\ run[r].attempts < MaxAttempts /\ "RUNNING" \in RunStatus
    BY <1>1, <1>3 DEF Take, RunsInv, RunStatus
  <2>4. PICK row \in RunRow : run' = [run EXCEPT ![r] = row] /\ row.job = FALSE
                              /\ row.attempts = run[r].attempts
    <3>1. \/ run' = [run EXCEPT ![r] = [run[r] EXCEPT !.job = FALSE, !.status = "RUNNING"]]
          \/ run' = [run EXCEPT ![r] = [run[r] EXCEPT !.job = FALSE]]
      BY <1>3 DEF Take, Write
    <3>2. [run[r] EXCEPT !.job = FALSE, !.status = "RUNNING"] \in RunRow
          /\ [run[r] EXCEPT !.job = FALSE] \in RunRow
      BY <2>3, RowFields
    <3> QED
      BY <2>3, <3>1, <3>2 DEF RunRow
  <2>5. /\ run' \in [Runs -> RunRow] /\ run'[r] = row
        /\ \A q \in Runs : run'[q].job => run'[q].attempts < MaxAttempts
    BY <2>4, OneRow
  <2> QED
    BY <2>2, <2>3, <2>4, <2>5 DEF RunsInv
<1>4. ASSUME NEW r \in Runs, Arrive(r) \/ Approve(r)
      PROVE  run' \in [Runs -> RunRow] /\ exec' \in Executor /\ RunsInv'
  <2>1. exec' = exec /\ run[r] \in RunRow
    BY <1>1, <1>4 DEF Arrive, Approve
  <2>2. PICK row \in RunRow : run' = [run EXCEPT ![r] = row] /\ row.attempts = 0
    <3>1. [NoRow EXCEPT !.status = "QUEUED", !.job = TRUE] \in RunRow
          /\ [NoRow EXCEPT !.status = "QUEUED", !.job = TRUE].attempts = 0
      <4>1. NoRow \in RunRow
        <5>1. 0 \in 0..MaxAttempts
          BY <1>1
        <5> QED
          BY <5>1 DEF NoRow, RunRow, RunStatus
      <4> QED
        BY <4>1 DEF NoRow, RunRow, RunStatus
    <3>2. /\ [run[r] EXCEPT !.approved = TRUE, !.job = TRUE, !.mode = "resume", !.attempts = 0] \in RunRow
          /\ [run[r] EXCEPT !.approved = TRUE, !.job = TRUE, !.mode = "resume", !.attempts = 0].attempts = 0
      BY ZenonT(40), <2>1, RowFields DEF RunRow
    <3>3. CASE Arrive(r)
      BY <3>1, <3>3 DEF Arrive, Write
    <3>4. CASE Approve(r)
      <4>1. run' = [run EXCEPT ![r] = [run[r] EXCEPT !.approved = TRUE, !.job = TRUE, !.mode = "resume", !.attempts = 0]]
        BY <1>1, <3>4 DEF Approve
      <4> QED
        BY <3>2, <4>1
    <3> QED
      BY <1>4, <3>3, <3>4
  <2>3. /\ run' \in [Runs -> RunRow] /\ run'[r] = row
        /\ \A q \in Runs : run'[q].job => run'[q].attempts < MaxAttempts
    <3>1. row.job => row.attempts < MaxAttempts
      BY <1>1, <2>2
    <3> QED
      BY <2>2, <3>1, OneRow
  <2>4. \A q \in Runs : q # r => run'[q] = run[q]
    BY <1>1, <2>2
  <2>5. exec.pc \notin {"idle", "cleanup", "remove"} /\ run'[exec.run].status # "DELETED"
          => run'[exec.run].attempts < MaxAttempts
    BY <1>1, <2>2, <2>3, <2>4 DEF RunsInv
  <2> QED
    BY <1>1, <2>1, <2>3, <2>5 DEF RunsInv
<1> QED
  BY <1>2, <1>3, <1>4

\* The end of a run, and what happens to all rows at once.
LEMMA EndStep ==
  ASSUME TypeOK, RunsInv,
         \/ \E permanent \in BOOLEAN : Fail(permanent)
         \/ ShouldCleanup \/ DeleteWorkspace \/ Sweep \/ RevokeDirectory \/ RevokeRows \/ Merge \/ Age
         \/ Restart \/ UNCHANGED vars
  PROVE  run' \in [Runs -> RunRow] /\ exec' \in Executor /\ RunsInv'
<1>1. exec \in Executor /\ (exec.pc # "idle" => exec.run \in Runs) /\ run \in [Runs -> RunRow]
      /\ MaxAttempts \in Nat \ {0} /\ Idle \in Executor /\ Idle.pc = "idle"
  BY WorkspaceAssumption, ExecutorFields DEF TypeOK, RunsInv, Idle
<1>2. ASSUME NEW permanent \in BOOLEAN, Fail(permanent)
      PROVE  run' \in [Runs -> RunRow] /\ exec' \in Executor /\ RunsInv'
  <2> DEFINE r == exec.run
             row == run[r]
  <2>1. exec.pc \notin {"idle", "cleanup", "remove"} /\ r \in Runs /\ row \in RunRow
    BY <1>1, <1>2 DEF Fail, At
  <2>2. exec' \in Executor /\ exec'.pc \in {"idle", "cleanup"}
        /\ (exec'.pc = "cleanup" => exec'.run \in Runs)
    <3>1. [exec EXCEPT !.pc = "cleanup"] \in Executor /\ [exec EXCEPT !.pc = "cleanup"].pc = "cleanup"
          /\ [exec EXCEPT !.pc = "cleanup"].run = r
      <4>1. "cleanup" \in PC
        BY DEF PC
      <4> QED
        BY <1>1, <4>1 DEF Executor
    <3> QED
      BY <1>1, <1>2, <2>1, <3>1 DEF Fail
  <2>3. /\ run' \in [Runs -> RunRow]
        /\ \A q \in Runs : run'[q].job => run'[q].attempts < MaxAttempts
    <3>1. CASE row.status = "DELETED"
      BY <1>1, <1>2, <3>1 DEF Fail, RunsInv, Current
    <3>2. CASE row.status # "DELETED"
      <4> DEFINE again == ~permanent /\ row.attempts + 1 < MaxAttempts
                 new == [row EXCEPT !.status = "FAILED", !.job = again, !.mode = "resume",
                                    !.attempts = @ + 1]
      <4>1. row.attempts \in 0..MaxAttempts /\ row.attempts < MaxAttempts
        BY <2>1, <3>2, RowFields DEF RunsInv
      <4>2. row.attempts + 1 \in 0..MaxAttempts /\ again \in BOOLEAN
        BY <1>1, <4>1
      <4>3. new \in RunRow /\ new.job = again /\ new.attempts = row.attempts + 1
        <5>1. [row EXCEPT !.status = "FAILED", !.job = again, !.mode = "resume",
                          !.attempts = row.attempts + 1] \in RunRow
          BY <2>1, <4>2, RowFields
        <5>2. new \in RunRow
          BY <5>1
        <5> QED
          BY <2>1, <5>2 DEF RunRow
      <4>4. run' = [run EXCEPT ![r] = new]
        BY <1>2, <3>2 DEF Fail, Write, Current
      <4> HIDE DEF new
      <4> QED
        BY <2>1, <4>3, <4>4, OneRow
    <3> QED
      BY <3>1, <3>2
  <2> QED
    BY <2>2, <2>3 DEF RunsInv
<1>3. CASE ShouldCleanup \/ DeleteWorkspace
  <2>1. run' = run
    BY <1>3 DEF ShouldCleanup, DeleteWorkspace, NoOtherChange
  <2>2. exec' \in Executor /\ exec'.pc \in {"idle", "remove"} /\ (exec'.pc = "remove" => exec'.run \in Runs)
    <3>1. [exec EXCEPT !.pc = "remove"] \in Executor /\ [exec EXCEPT !.pc = "remove"].pc = "remove"
          /\ [exec EXCEPT !.pc = "remove"].run = exec.run
      <4>1. "remove" \in PC
        BY DEF PC
      <4> QED
        BY <1>1, <4>1 DEF Executor
    <3> QED
      BY <1>1, <1>3, <3>1 DEF ShouldCleanup, DeleteWorkspace, Goto, At
  <2> QED
    BY <1>1, <2>1, <2>2 DEF RunsInv
<1>4. CASE Sweep \/ RevokeDirectory \/ Merge \/ Age \/ UNCHANGED vars
  <2>1. run' = run /\ exec' = exec
    BY <1>4 DEF Sweep, SweepLock, SweepLook, SweepRemove, RevokeDirectory, Merge, Age, vars
  <2> QED
    BY <1>1, <2>1 DEF RunsInv
<1>5. CASE RevokeRows
  <2>1. run' = [r \in Runs |-> [run[r] EXCEPT !.status = "DELETED", !.job = FALSE]] /\ exec' = exec
    BY <1>5 DEF RevokeRows
  <2>2. ASSUME NEW r \in Runs
        PROVE  /\ [run[r] EXCEPT !.status = "DELETED", !.job = FALSE] \in RunRow
               /\ ~[run[r] EXCEPT !.status = "DELETED", !.job = FALSE].job
               /\ [run[r] EXCEPT !.status = "DELETED", !.job = FALSE].status = "DELETED"
    <3>1. run[r] \in RunRow
      BY <1>1
    <3>2. [run[r] EXCEPT !.status = "DELETED", !.job = FALSE] \in RunRow
      BY <3>1, RowFields DEF RunStatus
    <3> QED
      BY <3>1, <3>2 DEF RunRow
  <2>3. run' \in [Runs -> RunRow] /\ \A r \in Runs : ~run'[r].job /\ run'[r].status = "DELETED"
    BY <2>1, <2>2
  <2> QED
    BY <1>1, <2>1, <2>3 DEF RunsInv
<1>6. CASE Restart
  <2>1. exec' = Idle
    BY <1>6 DEF Restart
  <2>2. CASE run' = run
    BY <1>1, <2>1, <2>2 DEF RunsInv
  <2>3. CASE run' # run
    <3> DEFINE r == exec.run
    <3>1. /\ exec.pc \notin {"idle", "cleanup", "remove"} /\ run[r].status # "DELETED"
          /\ run' = [run EXCEPT ![r].job = TRUE]
      BY <1>6, <2>3 DEF Restart, At, Current
    <3>2. r \in Runs /\ run[r] \in RunRow /\ run[r].attempts < MaxAttempts
      BY <1>1, <3>1 DEF RunsInv
    <3>3. [run[r] EXCEPT !.job = TRUE] \in RunRow
          /\ [run[r] EXCEPT !.job = TRUE].attempts = run[r].attempts
      BY ZenonT(40), <3>2, RowFields DEF RunRow
    <3>4. run' = [run EXCEPT ![r] = [run[r] EXCEPT !.job = TRUE]]
      BY <3>1
    <3>5. run' \in [Runs -> RunRow] /\ \A q \in Runs : run'[q].job => run'[q].attempts < MaxAttempts
      BY <3>2, <3>3, <3>4, OneRow
    <3> QED
      BY <1>1, <2>1, <3>5 DEF RunsInv
  <2> QED
    BY <2>2, <2>3
<1> QED
  BY <1>2, <1>3, <1>4, <1>5, <1>6

\* Every step keeps the rows and the executor.
LEMMA RunsKept ==
  ASSUME TypeOK, RunsInv, [Next]_vars
  PROVE  run' \in [Runs -> RunRow] /\ exec' \in Executor /\ RunsInv'
<1>1. CASE Working
  <2>1. /\ run' = run /\ exec' \in Executor /\ exec'.run = exec.run
        /\ exec.pc \notin {"idle", "cleanup", "remove"}
    BY <1>1, WorkingStep
  <2> QED
    BY <2>1 DEF TypeOK, RunsInv
<1>2. CASE \/ Analyse \/ Proceed \/ Checkpoint \/ Propose
           \/ \E r \in Runs : Arrive(r) \/ Take(r) \/ Approve(r)
  BY <1>2, RowsStep
<1>3. CASE \/ \E permanent \in BOOLEAN : Fail(permanent)
           \/ ShouldCleanup \/ DeleteWorkspace \/ Sweep \/ RevokeDirectory \/ RevokeRows
           \/ Merge \/ Age \/ Restart \/ UNCHANGED vars
  BY <1>3, EndStep
<1> QED
  BY <1>1, <1>2, <1>3 DEF Next, Execute, Working

-----------------------------------------------------------------------------
(* What faults cost. *)

BudgetInv == \A event \in Events : budget[event] \in Nat /\ budget[event] <= InitialBudget[event]

\* A step costs nothing or one event, and only a restart is a crash.
LEMMA StepCosts ==
  ASSUME [Next]_vars
  PROVE  \/ UNCHANGED budget
         \/ \E event \in Events \ {"crashes", "total"} : Spend(event)
         \/ Restart
<1> USE DEF Events
<1>1. CASE Working
  <2>1. CASE Open \/ Clone \/ WriteDocuments \/ Checkout \/ Pull
    BY <2>1 DEF Open, Clone, WriteDocuments, Checkout, Pull, Throws
  <2>2. CASE Add \/ Commit \/ ReadOrigin \/ SetToken \/ Push \/ RestoreOrigin
    BY <2>2 DEF Add, Commit, ReadOrigin, SetToken, Push, RestoreOrigin, Throws
  <2>3. CASE RollbackSwitch \/ RollbackReset \/ RollbackDelete
    BY <2>3 DEF RollbackSwitch, RollbackReset, RollbackDelete, ThrowsAgain
  <2> QED
    BY <1>1, <2>1, <2>2, <2>3 DEF Working
<1>2. CASE Analyse \/ Proceed \/ Checkpoint \/ Propose \/ ShouldCleanup \/ DeleteWorkspace \/ Sweep
  BY <1>2 DEF Analyse, Proceed, Checkpoint, Propose, ShouldCleanup, DeleteWorkspace, Sweep, SweepLock,
              SweepLook, SweepRemove, Throws
<1>3. CASE \/ \E permanent \in BOOLEAN : Fail(permanent)
           \/ \E r \in Runs : Arrive(r) \/ Take(r) \/ Approve(r)
  BY <1>3 DEF Fail, Arrive, Take, Approve
<1>4. CASE RevokeDirectory \/ RevokeRows \/ Merge \/ Age \/ Restart \/ UNCHANGED vars
  BY <1>4 DEF RevokeDirectory, RevokeRows, Merge, Age, vars
<1> QED
  BY <1>1, <1>2, <1>3, <1>4 DEF Next, Execute, Working

\* Budgets shrink; only a restart changes the one of crashes, and does.
LEMMA BudgetStep ==
  ASSUME TypeOK, BudgetInv, [Next]_vars
  PROVE  /\ budget' \in [Events -> Nat] /\ BudgetInv'
         /\ Restart => budget'["crashes"] < InitialBudget["crashes"]
         /\ ~Restart => budget'["crashes"] = budget["crashes"]
<1>1. budget \in [Events -> Nat] /\ InitialBudget \in [Events -> Nat]
      /\ "crashes" \in Events /\ "total" \in Events
  BY WorkspaceAssumption DEF TypeOK, Events
<1>2. ASSUME NEW event \in Events \ {"total"}, Spend(event)
      PROVE  /\ budget' \in [Events -> Nat] /\ BudgetInv'
             /\ budget'[event] = budget[event] - 1
             /\ \A other \in Events \ {event, "total"} : budget'[other] = budget[other]
  <2>1. /\ budget[event] \in Nat /\ budget[event] > 0 /\ budget["total"] \in Nat /\ budget["total"] > 0
        /\ budget' = [budget EXCEPT ![event] = budget[event] - 1, !["total"] = budget["total"] - 1]
    BY <1>1, <1>2 DEF Spend
  <2>2. /\ budget'[event] = budget[event] - 1 /\ budget'["total"] = budget["total"] - 1
        /\ \A other \in Events \ {event, "total"} : budget'[other] = budget[other]
    BY <1>1, <2>1
  <2>3. budget' \in [Events -> Nat]
    BY <1>1, <2>1
  <2>4. ASSUME NEW other \in Events
        PROVE  budget'[other] \in Nat /\ budget'[other] <= InitialBudget[other]
    <3>1. budget[other] \in Nat /\ budget[other] <= InitialBudget[other] /\ InitialBudget[other] \in Nat
      BY <1>1 DEF BudgetInv
    <3>2. budget'[other] = budget[other] \/ (budget'[other] = budget[other] - 1 /\ budget[other] > 0)
      BY <2>1, <2>2
    <3> QED
      BY <3>1, <3>2
  <2> QED
    BY <2>2, <2>3, <2>4 DEF BudgetInv
<1>3. CASE UNCHANGED budget /\ ~Restart
  BY <1>1, <1>3 DEF BudgetInv
<1>4. CASE Restart
  <2>1. Spend("crashes")
    BY <1>4 DEF Restart
  <2>2. /\ budget' \in [Events -> Nat] /\ BudgetInv' /\ budget'["crashes"] = budget["crashes"] - 1
    BY <1>1, <1>2, <2>1
  <2>3. budget["crashes"] \in Nat /\ budget["crashes"] <= InitialBudget["crashes"]
        /\ InitialBudget["crashes"] \in Nat
    BY <1>1 DEF BudgetInv
  <2> QED
    BY <1>4, <2>2, <2>3
<1>5. CASE ~Restart /\ \E event \in Events \ {"crashes", "total"} : Spend(event)
  BY <1>1, <1>2, <1>5
<1> QED
  BY <1>3, <1>4, <1>5, StepCosts

-----------------------------------------------------------------------------
(* The invariant. *)

\* While the origin URL carries the token a push is under way, which remembers the
\* plain one; terminal cleanup that has asked and is about to remove the directory
\* leaves no run that needs it.
OriginInv ==
  Untouched("crashes") =>
    /\ exec.pc \in {"token", "push", "restore"} => exec.pushing
    /\ exec.pushing => exec.pc \in Pushing /\ exec.origin = "plain"
    /\ dir.url = "token" => exec.pushing /\ IsClone

RemoveInv ==
  At("remove") => \A r \in Runs : run[r].status \notin {"RUNNING", "WAITING_FOR_REVIEW"}

WorkspaceInv == TypeOK /\ DiskInv /\ RunsInv /\ BudgetInv /\ OriginInv /\ RemoveInv

LEMMA InitInv == Init => WorkspaceInv
<1> SUFFICES ASSUME Init PROVE WorkspaceInv
  OBVIOUS
<1>1. NewGitHub \in Refs /\ NewGitHub[Default] # {}
  BY GitAssumption DEF NewGitHub, Refs, Chain
<1>2. dir \in Directory /\ GoodCopy(dir.git) /\ dir.url = "plain"
  <2>1. GoodCopy(Cloned(NewGitHub))
    BY <1>1, ClonedGood
  <2> QED
    BY <2>1 DEF Init, NoDirectory, Directory, GoodCopy
<1>3. MaxAttempts \in Nat \ {0} /\ InitialBudget \in [Events -> Nat]
  BY WorkspaceAssumption
<1>4. exec \in Executor /\ exec.pc = "idle" /\ ~exec.pushing
  BY DEF Init, Idle, Executor, PC
<1>5. run \in [Runs -> RunRow] /\ \A r \in Runs : ~run[r].job
  <2>1. NoRow \in RunRow /\ ~NoRow.job
    <3>1. 0 \in 0..MaxAttempts
      BY <1>3
    <3> QED
      BY <3>1 DEF NoRow, RunRow, RunStatus
  <2> QED
    BY <2>1 DEF Init
<1>6. TypeOK
  BY <1>1, <1>2, <1>3, <1>4, <1>5 DEF TypeOK, Init, Refs
<1>7. DiskInv /\ RunsInv
  BY <1>1, <1>2, <1>4, <1>5 DEF DiskInv, RunsInv, Init
<1>8. BudgetInv
  BY <1>3 DEF BudgetInv, Init
<1>9. OriginInv /\ RemoveInv
  BY <1>2, <1>4 DEF OriginInv, RemoveInv, At
<1> QED
  BY <1>6, <1>7, <1>8, <1>9 DEF WorkspaceInv

\* The sweep, the lock and the age of the rows.
LEMMA SweepStep ==
  ASSUME TypeOK, [Next]_vars
  PROVE  /\ sweep' \in {"done", "waiting", "looking", "removing"}
         /\ lock' \in {"free", "exec", "sweep"}
         /\ stale' \in BOOLEAN
<1> USE DEF TypeOK
<1>1. CASE Working
  BY <1>1, WorkingStep
<1>2. CASE Analyse \/ Proceed \/ Checkpoint \/ Propose \/ ShouldCleanup \/ DeleteWorkspace
           \/ \E permanent \in BOOLEAN : Fail(permanent)
  BY <1>2 DEF Analyse, Proceed, Checkpoint, Propose, ShouldCleanup, DeleteWorkspace, Fail, Write,
              NoOtherChange
<1>3. CASE Sweep
  BY <1>3 DEF Sweep, SweepLock, SweepLook, SweepRemove
<1>4. CASE \E r \in Runs : Arrive(r) \/ Take(r) \/ Approve(r)
  BY <1>4 DEF Arrive, Take, Approve, Write
<1>5. CASE RevokeDirectory \/ RevokeRows \/ Merge \/ Age \/ Restart \/ UNCHANGED vars
  BY <1>5 DEF RevokeDirectory, RevokeRows, Merge, Age, Restart, vars
<1> QED
  BY <1>1, <1>2, <1>3, <1>4, <1>5 DEF Next, Execute, Working

\* Terminal cleanup that has asked: nobody starts a run while it goes on.
LEMMA RemoveStep ==
  ASSUME TypeOK, RemoveInv, [Next]_vars
  PROVE  RemoveInv'
<1> USE DEF RemoveInv, At
<1>1. exec \in Executor /\ run \in [Runs -> RunRow] /\ Idle.pc = "idle"
  BY DEF TypeOK, Idle
<1>2. CASE Working
  <2>1. exec'.pc # "remove"
    <3>1. CASE Open \/ Clone \/ WriteDocuments
      BY <1>1, <3>1 DEF Open, Clone, WriteDocuments, Goto, ToFailure, Executor
    <3>2. CASE Checkout \/ Pull \/ Add \/ Commit
      BY <1>1, <3>2 DEF Checkout, Pull, Add, Commit, Goto, ToRollback, Executor
    <3>3. CASE ReadOrigin \/ SetToken \/ Push \/ RestoreOrigin
      BY <1>1, <3>3 DEF ReadOrigin, SetToken, Push, RestoreOrigin, Goto, ToRollback, ToFailure, Executor
    <3>4. CASE RollbackSwitch \/ RollbackReset \/ RollbackDelete
      BY <1>1, <3>4 DEF RollbackSwitch, RollbackReset, RollbackDelete, AfterRollback, Goto, Executor
    <3> QED
      BY <1>2, <3>1, <3>2, <3>3, <3>4 DEF Working
  <2> QED
    BY <2>1
<1>3. CASE Analyse \/ Proceed \/ Checkpoint \/ Propose \/ DeleteWorkspace \/ Restart
           \/ \E permanent \in BOOLEAN : Fail(permanent)
  <2>1. exec'.pc # "remove"
    BY <1>1, <1>3 DEF Analyse, Proceed, Checkpoint, Propose, DeleteWorkspace, Restart, Fail, Goto,
                      ToFailure, Executor
  <2> QED
    BY <2>1
<1>4. CASE ShouldCleanup
  BY <1>1, <1>4 DEF ShouldCleanup, NoOtherChange, Active
<1>5. CASE Sweep \/ RevokeDirectory \/ Merge \/ Age \/ UNCHANGED vars
  BY <1>5 DEF Sweep, SweepLock, SweepLook, SweepRemove, RevokeDirectory, Merge, Age, vars
<1>6. CASE RevokeRows
  <2>1. exec' = exec /\ run' = [r \in Runs |-> [run[r] EXCEPT !.status = "DELETED", !.job = FALSE]]
    BY <1>6 DEF RevokeRows
  <2>2. ASSUME NEW r \in Runs PROVE run'[r].status = "DELETED"
    BY <1>1, <2>1 DEF RunRow
  <2> QED
    BY <2>2
<1>7. ASSUME NEW r \in Runs, Arrive(r) \/ Take(r) \/ Approve(r)
      PROVE  RemoveInv'
  <2>1. CASE Take(r)
    BY <2>1 DEF Take, Idle
  <2>2. CASE Arrive(r)
    <3>1. exec' = exec /\ run' = [run EXCEPT ![r] = [NoRow EXCEPT !.status = "QUEUED", !.job = TRUE]]
      BY <2>2 DEF Arrive, Write
    <3>2. [NoRow EXCEPT !.status = "QUEUED", !.job = TRUE].status = "QUEUED"
      BY DEF NoRow
    <3> QED
      BY <1>1, <3>1, <3>2
  <2>3. CASE Approve(r)
    <3>1. exec' = exec /\ run[r].status = "WAITING_FOR_REVIEW"
      BY <2>3 DEF Approve
    <3> QED
      BY <3>1
  <2> QED
    BY <1>7, <2>1, <2>2, <2>3
<1> QED
  BY <1>2, <1>3, <1>4, <1>5, <1>6, <1>7 DEF Next, Execute, Working

\* The token in the origin URL.
OriginGood ==
  /\ exec.pc \in {"token", "push", "restore"} => exec.pushing
  /\ exec.pushing => exec.pc \in Pushing /\ exec.origin = "plain"
  /\ dir.url = "token" => exec.pushing /\ IsClone

LEMMA OriginStep ==
  ASSUME TypeOK, BudgetInv, OriginInv, [Next]_vars
  PROVE  OriginInv'
<1> SUFFICES ASSUME Untouched("crashes")' PROVE OriginGood'
  BY DEF OriginInv, OriginGood, IsClone
<1> USE DEF At, IsClone
<1>1. budget' \in [Events -> Nat] /\ InitialBudget \in [Events -> Nat] /\ "crashes" \in Events
  BY WorkspaceAssumption, BudgetStep DEF Events
<1>2. ~Restart /\ Untouched("crashes")
  BY <1>1, BudgetStep DEF Untouched
<1>3. OriginGood
  BY <1>2 DEF OriginInv, OriginGood
<1>4. /\ exec \in Executor /\ dir \in Directory /\ dir.url \in {"plain", "token"}
      /\ Idle.pc = "idle" /\ ~Idle.pushing
  BY DEF TypeOK, Directory, Idle
<1>5. /\ exec.pushing \in BOOLEAN
      /\ \A g : /\ [dir EXCEPT !.git = g].url = dir.url /\ [dir EXCEPT !.git = g].kind = dir.kind
      /\ [dir EXCEPT !.kind = "debris"].url = dir.url
      /\ \A url : [dir EXCEPT !.url = url].url = url /\ [dir EXCEPT !.url = url].kind = dir.kind
      /\ NoDirectory.url = "plain"
  BY <1>4 DEF Directory, Executor, NoDirectory
<1>6. CASE Open \/ Clone
  <2>1. exec'.pc \in {"ready", "clone", "fail"} /\ exec'.pushing = exec.pushing
        /\ ~exec.pushing /\ dir.url = "plain"
    BY <1>3, <1>4, <1>6 DEF Open, Clone, Goto, ToFailure, OriginGood, Pushing, Executor
  <2>2. dir' = dir \/ dir' = [kind |-> "clone", git |-> Cloned(remote), url |-> "plain"]
    BY <1>6 DEF Open, Clone
  <2> QED
    BY <2>1, <2>2 DEF OriginGood
<1>7. CASE WriteDocuments
  <2>1. exec'.pc \in {"checkout", "fail"} /\ exec'.pushing = exec.pushing
        /\ ~exec.pushing /\ dir.url = "plain"
    BY <1>3, <1>4, <1>7 DEF WriteDocuments, Goto, ToFailure, OriginGood, Pushing, Executor
  <2>2. \/ dir' = dir \/ dir' = [dir EXCEPT !.kind = "debris"]
        \/ \E g : dir' = [dir EXCEPT !.git = g]
    BY <1>7 DEF WriteDocuments
  <2>3. dir'.url = "plain"
    BY <1>5, <2>1, <2>2
  <2> QED
    BY <2>1, <2>3 DEF OriginGood
<1>8. CASE Checkout \/ Pull \/ Add \/ Commit
  <2>1. exec'.pc \in {"pull", "pullNew", "add", "commit", "checkpoint", "switch"}
        /\ exec'.pushing = exec.pushing /\ ~exec.pushing /\ dir.url = "plain"
    BY <1>3, <1>4, <1>8 DEF Checkout, Pull, Add, Commit, Goto, ToRollback, OriginGood, Pushing, Executor
  <2>2. dir' = dir \/ \E g : dir' = [dir EXCEPT !.git = g]
    BY <1>8 DEF Checkout, Pull, Add, Commit, Git
  <2>3. dir'.url = "plain"
    BY <1>5, <2>1, <2>2
  <2> QED
    BY <2>1, <2>3 DEF OriginGood
<1>9. CASE ReadOrigin
  <2>1. exec.pc = "origin" /\ dir' = dir /\ ~exec.pushing /\ dir.url = "plain"
    BY <1>3, <1>4, <1>9 DEF ReadOrigin, OriginGood, Pushing
  <2>2. \/ exec' = [exec EXCEPT !.pc = "token", !.origin = dir.url, !.pushing = TRUE]
        \/ exec' = [exec EXCEPT !.pc = "fail", !.failed = TRUE]
    BY <1>9 DEF ReadOrigin, ToFailure
  <2>3. \/ exec'.pc = "token" /\ exec'.origin = "plain" /\ exec'.pushing
        \/ exec'.pc = "fail" /\ ~exec'.pushing
    BY <1>4, <2>1, <2>2 DEF Executor
  <2> QED
    BY <2>1, <2>3 DEF OriginGood, Pushing
<1>10. CASE SetToken \/ Push
  <2>1. exec.pushing /\ exec.origin = "plain"
    BY <1>3, <1>10 DEF SetToken, Push, OriginGood
  <2>2. exec'.pc \in {"push", "restore", "switch"} /\ exec'.pushing = exec.pushing
        /\ exec'.origin = exec.origin
    BY <1>4, <1>10 DEF SetToken, Push, Goto, ToRollback, Executor
  <2>3. dir'.url = "token" => dir'.kind = "clone"
    <3>1. CASE dir' = dir
      BY <1>3, <3>1 DEF OriginGood
    <3>2. CASE dir' # dir
      <4>1. /\ dir.kind = "clone"
            /\ \/ dir' = [dir EXCEPT !.url = "token"]
               \/ \E g : dir' = [dir EXCEPT !.git = g]
        BY <1>10, <3>2 DEF SetToken, Push, Git
      <4> HIDE DEF IsClone
      <4>2. CASE dir' = [dir EXCEPT !.url = "token"]
        BY <1>4, <4>1, <4>2 DEF Directory
      <4>3. ASSUME NEW g, dir' = [dir EXCEPT !.git = g]
            PROVE  dir'.kind = "clone"
        BY <1>5, <4>1, <4>3
      <4> QED
        BY <4>1, <4>2, <4>3
    <3> QED
      BY <3>1, <3>2
  <2> QED
    BY <2>1, <2>2, <2>3 DEF OriginGood, Pushing
<1>11. CASE RestoreOrigin
  <2>1. exec.origin = "plain"
    BY <1>3, <1>11 DEF RestoreOrigin, OriginGood
  <2>2. exec'.pc \in {"fail", "propose"} /\ ~exec'.pushing
    BY <1>4, <1>11 DEF RestoreOrigin, Executor
  <2>3. dir'.url = "plain"
    BY <1>3, <1>4, <1>5, <1>11, <2>1 DEF RestoreOrigin, OriginGood
  <2> QED
    BY <2>2, <2>3 DEF OriginGood
<1>12. CASE RollbackSwitch \/ RollbackReset \/ RollbackDelete
  <2>1. /\ exec'.pc \in {"reset", "delete", "restore", "fail"}
        /\ exec'.pc = "restore" => exec.pushing
        /\ exec'.pc = "fail" => ~exec.pushing
        /\ exec'.pushing = exec.pushing /\ exec'.origin = exec.origin
    BY <1>4, <1>12 DEF RollbackSwitch, RollbackReset, RollbackDelete, AfterRollback, Goto, Executor
  <2>2. dir' = dir \/ \E g : dir' = [dir EXCEPT !.git = g]
    BY <1>12 DEF RollbackSwitch, RollbackReset, RollbackDelete, Git
  <2>3. dir'.url = dir.url /\ dir'.kind = dir.kind
    BY <1>5, <2>2
  <2> QED
    BY <1>3, <2>1, <2>3 DEF OriginGood, Pushing
<1>13. CASE Analyse \/ Proceed \/ Checkpoint \/ Propose \/ ShouldCleanup
            \/ \E permanent \in BOOLEAN : Fail(permanent)
  <2>1. dir' = dir /\ exec.pc \in {"ready", "checkpoint", "propose", "cleanup", "fail"}
    BY <1>13 DEF Analyse, Proceed, Checkpoint, Propose, ShouldCleanup, Fail, NoOtherChange
  <2>2. ~exec.pushing /\ dir.url = "plain"
    BY <1>3, <1>4, <2>1 DEF OriginGood, Pushing
  <2>3. /\ exec'.pc \in {"idle", "origin", "write", "fail", "cleanup", "remove"}
        /\ ~exec'.pushing
    BY <1>4, <1>13, <2>2 DEF Analyse, Proceed, Checkpoint, Propose, ShouldCleanup, Fail, Goto,
                              ToFailure, Executor
  <2> QED
    BY <2>1, <2>2, <2>3 DEF OriginGood
<1>14. CASE DeleteWorkspace
  BY <1>4, <1>5, <1>14 DEF DeleteWorkspace, OriginGood
<1>15. CASE SweepRemove \/ RevokeDirectory
  <2>1. dir' = NoDirectory /\ exec' = exec
    BY <1>15 DEF SweepRemove, RevokeDirectory
  <2> QED
    BY <1>3, <1>5, <2>1 DEF OriginGood
<1>16. CASE SweepLock \/ SweepLook \/ RevokeRows \/ Merge \/ Age \/ UNCHANGED vars
            \/ \E r \in Runs : Arrive(r) \/ Approve(r)
  <2>1. dir' = dir /\ exec' = exec
    BY <1>16 DEF SweepLock, SweepLook, RevokeRows, Merge, Age, vars, Arrive, Approve
  <2> QED
    BY <1>3, <2>1 DEF OriginGood
<1>17. ASSUME NEW r \in Runs, Take(r)
       PROVE  OriginGood'
  <2>1. dir' = dir /\ exec.pc = "idle" /\ exec' = [Idle EXCEPT !.pc = "open", !.run = r]
    BY <1>17 DEF Take
  <2>2. dir.url = "plain" /\ exec'.pc = "open" /\ ~exec'.pushing
    BY <1>3, <1>4, <2>1 DEF OriginGood, Pushing, Idle
  <2> QED
    BY <2>1, <2>2 DEF OriginGood
<1> QED
  BY <1>2, <1>6, <1>7, <1>8, <1>9, <1>10, <1>11, <1>12, <1>13, <1>14, <1>15, <1>16, <1>17
     DEF Next, Execute, Sweep

LEMMA InvStep == WorkspaceInv /\ [Next]_vars => WorkspaceInv'
<1> SUFFICES ASSUME WorkspaceInv, [Next]_vars PROVE WorkspaceInv'
  OBVIOUS
<1>1. TypeOK /\ DiskInv /\ RunsInv /\ BudgetInv /\ OriginInv /\ RemoveInv
  BY DEF WorkspaceInv
<1>2. DiskInv'
  BY <1>1, DiskStep DEF RunsInv
<1>3. run' \in [Runs -> RunRow] /\ exec' \in Executor /\ RunsInv'
  BY <1>1, RunsKept
<1>4. budget' \in [Events -> Nat] /\ BudgetInv'
  BY <1>1, BudgetStep
<1>5. TypeOK'
  BY <1>1, <1>2, <1>3, <1>4, SweepStep DEF TypeOK, DiskInv, Refs
<1>6. OriginInv' /\ RemoveInv'
  BY <1>1, OriginStep, RemoveStep
<1> QED
  BY <1>2, <1>3, <1>4, <1>5, <1>6 DEF WorkspaceInv

LEMMA WorkspaceIsInvariant == Spec => []WorkspaceInv
BY InitInv, InvStep, PTL DEF Spec

-----------------------------------------------------------------------------
(* What publication keeps. *)

\* Every variable keeps its type; in particular the branch checked out exists and
\* no run is attempted more often than the queue allows.
THEOREM WorkspaceTypes == Spec => []TypeOK
<1>1. WorkspaceInv => TypeOK
  BY DEF WorkspaceInv
<1> QED
  BY <1>1, WorkspaceIsInvariant, PTL

\* The token never stays in the origin URL when pushBranch is over, however the
\* push, its rollback and the cleanups of the directory went, as long as the
\* process lives.
THEOREM TokenLeavesOrigin == Spec => []OriginIsPlain
<1>1. WorkspaceInv => OriginIsPlain
  <2> SUFFICES ASSUME WorkspaceInv, Untouched("crashes"), exec.pc \notin Pushing
               PROVE  dir.url = "plain"
    BY DEF OriginIsPlain
  <2>1. dir.url \in {"plain", "token"}
    BY DEF WorkspaceInv, TypeOK, Directory
  <2>2. dir.url # "token"
    BY DEF WorkspaceInv, OriginInv
  <2> QED
    BY <2>1, <2>2
<1> QED
  BY <1>1, WorkspaceIsInvariant, PTL

\* A chain extends itself.
LEMMA ExtendsItself ==
  ASSUME NEW c \in Chain
  PROVE  Extends(c, c)
<1>1. Len(c) \in Nat /\ SubSeq(c, 1, Len(c)) = c
  BY DEF Chain
<1> QED
  BY <1>1 DEF Extends

\* What reached GitHub stays there: pushes only move the documentation branch
\* forward, and merges keep what they merge.
THEOREM HistoryIsKept == Spec => RemoteHistoryKept
<1>1. WorkspaceInv /\ [Next]_vars =>
        [\A b \in Branch : remote[b] # {} =>
           Extends(ChainOf(remote', IF remote'[b] = {} THEN Default ELSE b), ChainOf(remote, b))]_vars
  <2> SUFFICES ASSUME WorkspaceInv, [Next]_vars, NEW b \in Branch, remote[b] # {}
               PROVE  Extends(ChainOf(remote', IF remote'[b] = {} THEN Default ELSE b), ChainOf(remote, b))
    OBVIOUS
  <2>1. remote \in Refs /\ Target \in Branch /\ Default \in Branch /\ Target # Default
    BY WorkspaceAssumption, GitAssumption DEF WorkspaceInv, DiskInv
  <2>2. \A c \in Branch : remote[c] # {} => Extends(ChainOf(remote, c), ChainOf(remote, c))
    BY <2>1, ChainFact, ExtendsItself
  <2>3. CASE remote'[b] = remote[b]
    <3>1. ChainOf(remote', b) = ChainOf(remote, b)
      BY <2>3 DEF ChainOf
    <3> QED
      BY <2>2, <2>3, <3>1
  <2>4. CASE remote'[b] # remote[b] /\ Push
    <3>1. /\ remote' = [remote EXCEPT ![Target] = dir.git.local[Target]]
          /\ CanPush(dir.git, Target, remote)
      BY <2>4 DEF Push
    <3>2. b = Target /\ remote'[b] = dir.git.local[Target]
      BY <2>1, <2>4, <3>1 DEF Refs
    <3>3. ChainOf(remote', b) = ChainOf(dir.git.local, Target)
      BY <3>2 DEF ChainOf
    <3> QED
      BY <3>1, <3>2, <3>3 DEF CanPush
  <2>5. CASE remote'[b] # remote[b] /\ Merge
    <3>1. PICK kept \in {{}, remote[Target]} :
            /\ remote' = [remote EXCEPT ![Default] = remote[Target], ![Target] = kept]
            /\ remote[Target] # {} /\ Extends(ChainOf(remote, Target), ChainOf(remote, Default))
      BY <2>5 DEF Merge
    <3>2. /\ remote'[Default] = remote[Target] /\ remote'[Target] = kept
          /\ b = Default \/ (b = Target /\ kept = {})
      BY <2>1, <2>5, <3>1 DEF Refs
    <3>3. ChainOf(remote', Default) = ChainOf(remote, Target)
      BY <3>2 DEF ChainOf
    <3> QED
      BY <2>1, <2>2, <3>1, <3>2, <3>3
  <2>6. ASSUME ~Push, ~Merge
        PROVE  remote' = remote
    <3>1. CASE Working
      BY <2>6, <3>1 DEF Working, Open, Clone, WriteDocuments, Checkout, Pull, Add, Commit, ReadOrigin,
                        SetToken, RestoreOrigin, RollbackSwitch, RollbackReset, RollbackDelete,
                        NoOtherChange
    <3>2. CASE Analyse \/ Proceed \/ Checkpoint \/ Propose \/ ShouldCleanup \/ DeleteWorkspace
               \/ \E permanent \in BOOLEAN : Fail(permanent)
      BY <3>2 DEF Analyse, Proceed, Checkpoint, Propose, ShouldCleanup, DeleteWorkspace, Fail,
                  NoOtherChange
    <3>3. CASE Sweep \/ (\E r \in Runs : Arrive(r) \/ Take(r) \/ Approve(r)) \/ RevokeDirectory
               \/ RevokeRows \/ Age \/ Restart \/ UNCHANGED vars
      BY <3>3 DEF Sweep, SweepLock, SweepLook, SweepRemove, Arrive, Take, Approve, RevokeDirectory,
                  RevokeRows, Age, Restart, vars
    <3> QED
      BY <2>6, <3>1, <3>2, <3>3 DEF Next, Execute, Working
  <2> QED
    BY <2>3, <2>4, <2>5, <2>6
<1> QED
  BY <1>1, WorkspaceIsInvariant, PTL DEF Spec, RemoteHistoryKept

\* Terminal cleanup takes the directory from no run that is executed or waits for
\* its reviewer: what it asked before it took the lock still holds when it
\* removes, because no other run begins meanwhile.
THEOREM WorkspaceStays == Spec => WorkspaceIsKept
<1>1. WorkspaceInv =>
        [dir.kind = "clone" /\ dir'.kind = "absent" /\ At("remove")
           => \A r \in Runs : run[r].status \notin {"RUNNING", "WAITING_FOR_REVIEW"}]_vars
  BY DEF WorkspaceInv, RemoveInv
<1> QED
  BY <1>1, WorkspaceIsInvariant, PTL DEF WorkspaceIsKept

-----------------------------------------------------------------------------
(* Whose the commits are: what the git operations keep. *)

\* Every commit of the chain is one approved run's, in that run's files.
OwnChain(c) ==
  \A i \in 1..Len(c) : \E r \in Runs :
    /\ run[r].approved
    /\ \A p \in Paths : LET before == IF i = 1 THEN Nobody ELSE c[i - 1][p] IN
         c[i][p] # before => c[i][p] = r /\ p \in Docs[r]

Owned(refs) == \A b \in Branch : \A c \in refs[b] : OwnChain(c)

\* Nothing is staged; run r has staged only files of its own; run r finds in its files
\* what it wrote or what is committed.
Unstaged(g) == g.index = HeadTree(g)
Staged(g, r) == \A p \in Paths : g.index[p] # HeadTree(g)[p] => g.index[p] = r /\ p \in Docs[r]
Mine(g, r) == \A p \in Docs[r] : g.work[p] \in {r, HeadTree(g)[p]}

Kept(g) == Owned(g.local) /\ Owned(g.tracking)

\* Going from g to h loses none of this.
Keeps(g, h) ==
  /\ Kept(g) => Kept(h)
  /\ Unstaged(g) => Unstaged(h)
  /\ \A r \in Runs : Mine(g, r) => Mine(h, r)

\* Files that an operation on the working copy carries over stay what they were.
LEMMA SwitchedKeeps ==
  ASSUME NEW g, GoodCopy(g), NEW b \in Branch, NEW refs \in Refs, refs[b] # {}
  PROVE  LET h == SwitchedTo(g, b, refs) IN
         /\ h.head = b /\ h.local = refs /\ h.tracking = g.tracking /\ h.upstream = g.upstream
         /\ Unstaged(g) => Unstaged(h)
         /\ \A r \in Runs : Mine(g, r) => Mine(h, r)
<1> DEFINE tree == TipOf(ChainOf(refs, b))
           Moved(files) == [p \in Paths |-> IF HeadTree(g)[p] = tree[p] THEN files[p] ELSE tree[p]]
           h == SwitchedTo(g, b, refs)
<1>1. tree \in Tree /\ HeadTree(g) \in Tree /\ g \in WorkingCopy
  BY ChainFact, CopyParts
<1>2. h = [g EXCEPT !.head = b, !.local = refs, !.work = Moved(g.work), !.index = Moved(g.index)]
  BY DEF SwitchedTo
<1> HIDE DEF h, Moved
<1>3. /\ h.head = b /\ h.local = refs /\ h.tracking = g.tracking /\ h.upstream = g.upstream
      /\ h.work = Moved(g.work) /\ h.index = Moved(g.index)
  BY <1>1, <1>2 DEF WorkingCopy
<1>4. HeadTree(h) = tree
  BY <1>3 DEF HeadTree
<1> HIDE DEF tree
<1>5. ASSUME Unstaged(g)
      PROVE  Unstaged(h)
  <2>1. Moved(g.index) = [p \in Paths |-> tree[p]]
    BY <1>5 DEF Moved, Unstaged
  <2>2. [p \in Paths |-> tree[p]] = tree
    BY <1>1 DEF Tree
  <2> QED
    BY <1>3, <1>4, <2>1, <2>2 DEF Unstaged
<1>6. ASSUME NEW r \in Runs, Mine(g, r)
      PROVE  Mine(h, r)
  <2>1. Docs[r] \subseteq Paths
    BY WorkspaceAssumption
  <2>2. \A p \in Docs[r] : Moved(g.work)[p] = IF HeadTree(g)[p] = tree[p] THEN g.work[p] ELSE tree[p]
    BY <2>1 DEF Moved
  <2> QED
    BY <1>3, <1>4, <1>6, <2>2 DEF Mine
<1> QED
  BY <1>3, <1>5, <1>6 DEF h

\* checkout, checkout -b.
LEMMA CheckedOutKeeps ==
  ASSUME NEW g, GoodCopy(g), NEW b \in Branch, CanCheckout(g, b)
  PROVE  Keeps(g, CheckedOut(g, b))
<1> DEFINE refs == RefsAfterCheckout(g, b)
           h == SwitchedTo(g, b, refs)
           k == CheckedOut(g, b)
<1>1. refs \in Refs /\ refs[b] # {}
  BY CopyParts DEF RefsAfterCheckout, CanCheckout, Refs
<1>2. Kept(g) => Owned(refs)
  BY CopyParts DEF Kept, Owned, RefsAfterCheckout, Refs
<1>3. CASE b = g.head
  BY <1>3 DEF CheckedOut, Keeps
<1>4. CASE b # g.head
  <2>1. k = [h EXCEPT !.upstream = IF g.local[b] = {} THEN h.upstream \cup {b} ELSE h.upstream]
    BY <1>4 DEF CheckedOut
  <2>2. GoodCopy(h)
    BY <1>1, SwitchedGood
  <2>3. h.local = refs /\ h.tracking = g.tracking
        /\ (Unstaged(g) => Unstaged(h)) /\ (\A r \in Runs : Mine(g, r) => Mine(h, r))
    BY <1>1, SwitchedKeeps
  <2> HIDE DEF h, k
  <2>4. k.local = h.local /\ k.tracking = h.tracking /\ k.index = h.index /\ k.work = h.work /\ k.head = h.head
    BY <2>1, <2>2 DEF GoodCopy, WorkingCopy
  <2>5. HeadTree(k) = HeadTree(h)
    BY <2>4 DEF HeadTree
  <2>6. /\ Kept(g) => Kept(k)
        /\ Unstaged(g) => Unstaged(k)
        /\ \A r \in Runs : Mine(g, r) => Mine(k, r)
    BY <1>2, <2>3, <2>4, <2>5 DEF Kept, Unstaged, Mine
  <2> QED
    BY <2>6 DEF Keeps, k
<1> QED
  BY <1>3, <1>4

LEMMA BranchedKeeps ==
  ASSUME NEW g, GoodCopy(g), NEW b \in Branch
  PROVE  Keeps(g, Branched(g, b))
<1> DEFINE h == Branched(g, b)
<1>1. g.local \in Refs /\ g.head \in Branch /\ g \in WorkingCopy
  BY CopyParts
<1>2. /\ h.head = b /\ h.local = [g.local EXCEPT ![b] = g.local[g.head]]
      /\ h.tracking = g.tracking /\ h.index = g.index /\ h.work = g.work
  BY <1>1 DEF Branched, WorkingCopy
<1>3. h.local[b] = g.local[g.head] /\ \A d \in Branch \ {b} : h.local[d] = g.local[d]
  BY <1>1, <1>2 DEF Refs
<1>4. HeadTree(h) = HeadTree(g)
  BY <1>2, <1>3 DEF HeadTree, ChainOf
<1> HIDE DEF h
<1>5. Owned(g.local) => Owned(h.local)
  BY <1>1, <1>3 DEF Owned
<1>6. /\ Kept(g) => Kept(h)
      /\ Unstaged(g) => Unstaged(h)
      /\ \A r \in Runs : Mine(g, r) => Mine(h, r)
  BY <1>2, <1>4, <1>5 DEF Kept, Unstaged, Mine
<1> QED
  BY <1>6 DEF Keeps, h

\* pull.
LEMMA PulledKeeps ==
  ASSUME NEW g, GoodCopy(g), NEW refs \in Refs, CanPull(g, refs), Owned(refs)
  PROVE  Keeps(g, Pulled(g, refs))
<1> DEFINE fetched == [g EXCEPT !.tracking = refs]
           local == [g.local EXCEPT ![g.head] = refs[g.head]]
           h == SwitchedTo(fetched, g.head, local)
<1>1. GoodCopy(fetched) /\ g.head \in Branch /\ g.local \in Refs /\ g \in WorkingCopy
  BY CopyRemote, CopyParts
<1>2. local \in Refs /\ local[g.head] # {}
  BY <1>1 DEF CanPull, Refs
<1>3. /\ fetched.head = g.head /\ fetched.local = g.local /\ fetched.tracking = refs
      /\ fetched.index = g.index /\ fetched.work = g.work
  BY <1>1 DEF WorkingCopy
<1>4. HeadTree(fetched) = HeadTree(g)
  BY <1>3 DEF HeadTree
<1> HIDE DEF fetched
<1>5. Keeps(g, fetched)
  BY <1>3, <1>4 DEF Keeps, Kept, Unstaged, Mine
<1>6. Owned(g.local) => Owned(local)
  BY <1>1 DEF Owned, Refs
<1> HIDE DEF local
<1>7. /\ h.local = local /\ h.tracking = refs
      /\ Unstaged(fetched) => Unstaged(h)
      /\ \A r \in Runs : Mine(fetched, r) => Mine(h, r)
  <2>1. /\ h.local = local /\ h.tracking = fetched.tracking
        /\ Unstaged(fetched) => Unstaged(h)
        /\ \A r \in Runs : Mine(fetched, r) => Mine(h, r)
    BY <1>1, <1>2, SwitchedKeeps
  <2> QED
    BY <1>3, <2>1
<1> HIDE DEF h
<1>8. Keeps(g, h)
  BY <1>5, <1>6, <1>7 DEF Keeps, Kept
<1> QED
  BY <1>5, <1>8 DEF Pulled, fetched, h, local

\* A run copies its documents, and stages them.
LEMMA CopiedKeeps ==
  ASSUME NEW g, GoodCopy(g), NEW r \in Runs, NEW files
  PROVE  LET h == Copied(g, r, files) IN
         /\ Kept(g) => Kept(h)
         /\ Unstaged(g) => Unstaged(h)
         /\ files = Docs[r] => Mine(h, r)
<1> DEFINE h == Copied(g, r, files)
<1>1. /\ h.head = g.head /\ h.local = g.local /\ h.tracking = g.tracking /\ h.index = g.index
      /\ h.work = [p \in Paths |-> IF p \in files THEN r ELSE g.work[p]]
  BY CopyParts DEF Copied, WorkingCopy
<1>2. HeadTree(h) = HeadTree(g)
  BY <1>1 DEF HeadTree
<1>3. Docs[r] \subseteq Paths
  BY WorkspaceAssumption
<1> HIDE DEF h
<1>4. /\ Kept(g) => Kept(h)
      /\ Unstaged(g) => Unstaged(h)
      /\ files = Docs[r] => Mine(h, r)
  BY <1>1, <1>2, <1>3 DEF Kept, Unstaged, Mine
<1> QED
  BY <1>4 DEF h

LEMMA AddedStages ==
  ASSUME NEW g, GoodCopy(g), NEW r \in Runs, Unstaged(g), Mine(g, r)
  PROVE  LET h == Added(g, Docs[r]) IN (Kept(g) => Kept(h)) /\ Staged(h, r)
<1> DEFINE h == Added(g, Docs[r])
<1>1. /\ h.head = g.head /\ h.local = g.local /\ h.tracking = g.tracking
      /\ h.index = [p \in Paths |-> IF p \in Docs[r] THEN g.work[p] ELSE g.index[p]]
  BY CopyParts DEF Added, WorkingCopy
<1>2. HeadTree(h) = HeadTree(g)
  BY <1>1 DEF HeadTree
<1> HIDE DEF h
<1>3. (Kept(g) => Kept(h)) /\ Staged(h, r)
  BY <1>1, <1>2 DEF Kept, Staged, Unstaged, Mine
<1> QED
  BY <1>3 DEF h

\* What an approved run commits is its own.
LEMMA CommittedKeeps ==
  ASSUME TypeOK, NEW g, GoodCopy(g), NEW r \in Runs, Staged(g, r), run[r].approved, Kept(g)
  PROVE  LET h == CommittedIndex(g) IN Kept(h) /\ Unstaged(h)
<1> DEFINE h == CommittedIndex(g)
           c == ChainOf(g.local, g.head)
           d == Append(c, g.index)
<1>1. /\ g \in WorkingCopy /\ g.head \in Branch /\ g.local \in Refs /\ g.index \in Tree
      /\ c \in g.local[g.head] /\ c \in Chain
  BY CopyParts, ChainFact
<1>2. /\ h.head = g.head /\ h.local = [g.local EXCEPT ![g.head] = {d}]
      /\ h.tracking = g.tracking /\ h.index = g.index
  BY <1>1 DEF CommittedIndex, WorkingCopy
<1>3. h.local[g.head] = {d} /\ \A b \in Branch \ {g.head} : h.local[b] = g.local[b]
  BY <1>1, <1>2 DEF Refs
<1>4. OwnChain(c)
  BY <1>1 DEF Kept, Owned
<1>5. HeadTree(g) = TipOf(c)
  BY DEF HeadTree
<1> HIDE DEF h, c
<1>6. /\ Len(c) \in Nat /\ Len(d) = Len(c) + 1 /\ d[Len(c) + 1] = g.index
      /\ \A i \in 1..Len(c) : d[i] = c[i]
  BY <1>1 DEF Chain
<1>7. \A p \in Paths : TipOf(c)[p] = IF Len(c) + 1 = 1 THEN Nobody ELSE d[Len(c)][p]
  <2>1. CASE c = <<>>
    BY <1>6, <2>1 DEF TipOf, Empty
  <2>2. CASE c # <<>>
    <3>1. Len(c) # 0 /\ TipOf(c) = c[Len(c)]
      BY <1>1, <2>2 DEF TipOf, Chain
    <3> QED
      BY <1>6, <3>1
  <2> QED
    BY <2>1, <2>2
<1> HIDE DEF d
<1>8. OwnChain(d)
  <2> SUFFICES ASSUME NEW i \in 1..Len(d)
               PROVE  \E q \in Runs :
                        /\ run[q].approved
                        /\ \A p \in Paths : LET before == IF i = 1 THEN Nobody ELSE d[i - 1][p] IN
                             d[i][p] # before => d[i][p] = q /\ p \in Docs[q]
    BY DEF OwnChain
  <2>1. CASE i \in 1..Len(c)
    <3>1. PICK q \in Runs :
            /\ run[q].approved
            /\ \A p \in Paths : LET before == IF i = 1 THEN Nobody ELSE c[i - 1][p] IN
                 c[i][p] # before => c[i][p] = q /\ p \in Docs[q]
      BY <1>4, <2>1 DEF OwnChain
    <3>2. d[i] = c[i] /\ (i # 1 => d[i - 1] = c[i - 1])
      BY <1>6, <2>1
    <3> QED
      BY <3>1, <3>2
  <2>2. CASE i = Len(c) + 1
    <3>1. \A p \in Paths : d[i][p] # TipOf(c)[p] => d[i][p] = r /\ p \in Docs[r]
      BY <1>5, <1>6, <2>2 DEF Staged
    <3>2. \A p \in Paths : TipOf(c)[p] = IF i = 1 THEN Nobody ELSE d[i - 1][p]
      <4>1. i - 1 = Len(c)
        BY <1>6, <2>2
      <4> QED
        BY <1>7, <2>2, <4>1
    <3> QED
      BY <3>1, <3>2
  <2> QED
    BY <1>6, <2>1, <2>2
<1>9. Kept(h)
  BY <1>1, <1>2, <1>3, <1>8 DEF Kept, Owned
<1>10. Unstaged(h)
  <2>1. ChainOf(h.local, h.head) = d
    BY <1>2, <1>3 DEF ChainOf
  <2>2. TipOf(d) = g.index
    <3>1. d # <<>>
      BY <1>6
    <3> QED
      BY <1>6, <3>1 DEF TipOf
  <2> QED
    BY <1>2, <2>1, <2>2 DEF Unstaged, HeadTree
<1> QED
  BY <1>9, <1>10 DEF h

\* push.
LEMMA PushedKeeps ==
  ASSUME NEW g, GoodCopy(g), NEW b \in Branch
  PROVE  Keeps(g, Pushed(g, b))
<1> DEFINE h == Pushed(g, b)
<1>1. g.local \in Refs /\ g.tracking \in Refs /\ g \in WorkingCopy
  BY CopyParts
<1>2. /\ h.head = g.head /\ h.local = g.local /\ h.tracking = [g.tracking EXCEPT ![b] = g.local[b]]
      /\ h.index = g.index /\ h.work = g.work
  BY <1>1 DEF Pushed, WorkingCopy
<1>3. HeadTree(h) = HeadTree(g)
  BY <1>2 DEF HeadTree
<1> HIDE DEF h
<1>4. Kept(g) => Kept(h)
  BY <1>1, <1>2 DEF Kept, Owned, Refs
<1> QED
  BY <1>2, <1>3, <1>4 DEF Keeps, Unstaged, Mine, h

\* reset and clean: whatever was staged no longer is.
LEMMA ResetUnstages ==
  ASSUME NEW g, GoodCopy(g)
  PROVE  /\ Unstaged(Reset(g)) /\ (Kept(g) => Kept(Reset(g)))
         /\ Unstaged(Cleaned(Reset(g))) /\ (Kept(g) => Kept(Cleaned(Reset(g))))
<1> DEFINE h == Reset(g)
           k == Cleaned(h)
<1>1. /\ h.head = g.head /\ h.local = g.local /\ h.tracking = g.tracking /\ h.index = HeadTree(g)
      /\ h \in WorkingCopy
  BY CopyParts, ResetGood DEF Reset, WorkingCopy, GoodCopy
<1> HIDE DEF h
<1>2. k.head = h.head /\ k.local = h.local /\ k.tracking = h.tracking /\ k.index = h.index
  BY <1>1 DEF Cleaned, WorkingCopy
<1> HIDE DEF k
<1>3. HeadTree(h) = HeadTree(g) /\ HeadTree(k) = HeadTree(g)
  BY <1>1, <1>2 DEF HeadTree
<1>4. Unstaged(h) /\ (Kept(g) => Kept(h)) /\ Unstaged(k) /\ (Kept(g) => Kept(k))
  BY <1>1, <1>2, <1>3 DEF Unstaged, Kept
<1> QED
  BY <1>4 DEF h, k

\* branch -D.
LEMMA DeletedKeeps ==
  ASSUME NEW g, GoodCopy(g), NEW b \in Branch, CanDelete(g, b)
  PROVE  Keeps(g, Deleted(g, b))
<1> DEFINE h == Deleted(g, b)
<1>1. g.local \in Refs /\ g.head \in Branch /\ g.head # b /\ g \in WorkingCopy
  BY CopyParts DEF CanDelete
<1>2. /\ h.head = g.head /\ h.local = [g.local EXCEPT ![b] = {}] /\ h.tracking = g.tracking
      /\ h.index = g.index /\ h.work = g.work
  BY <1>1 DEF Deleted, WorkingCopy
<1>3. h.local[g.head] = g.local[g.head]
  BY <1>1, <1>2 DEF Refs
<1>4. HeadTree(h) = HeadTree(g)
  BY <1>2, <1>3 DEF HeadTree, ChainOf
<1> HIDE DEF h
<1>5. Kept(g) => Kept(h)
  BY <1>1, <1>2 DEF Kept, Owned, Refs
<1> QED
  BY <1>2, <1>4, <1>5 DEF Keeps, Unstaged, Mine, h

\* clone.
LEMMA ClonedKeeps ==
  ASSUME NEW refs \in Refs, Owned(refs)
  PROVE  Kept(Cloned(refs)) /\ Unstaged(Cloned(refs))
<1> DEFINE h == Cloned(refs)
<1>1. /\ h.head = Default /\ h.local = [b \in Branch |-> IF b = Default THEN refs[b] ELSE {}]
      /\ h.tracking = refs /\ h.index = TipOf(ChainOf(refs, Default))
  BY DEF Cloned
<1>2. h.local[Default] = refs[Default]
  BY <1>1, GitAssumption
<1>3. HeadTree(h) = h.index
  BY <1>1, <1>2 DEF HeadTree, ChainOf
<1> HIDE DEF h
<1>4. Kept(h)
  BY <1>1 DEF Kept, Owned
<1> QED
  BY <1>3, <1>4 DEF Unstaged, h

\* A directory that is gone holds nothing.
LEMMA NothingKept ==
  Kept(NoDirectory.git) /\ Unstaged(NoDirectory.git) /\ Owned(NewGitHub)
<1>1. OwnChain(<<>>)
  BY DEF OwnChain
<1>2. Owned(NewGitHub)
  BY <1>1 DEF Owned, NewGitHub
<1> QED
  BY <1>2, NewGood, ClonedKeeps DEF NoDirectory

-----------------------------------------------------------------------------
(* Whose the commits are: what a step keeps. *)

\* What holds of the working copy g of a clone, or of what is left of one, when the
\* executor is at pc with run r: whatever is committed is owned; what is staged is
\* the run's between add and commit, and nothing elsewhere, save while a commit that
\* failed is rolled back; and what add is going to stage is the run's.
CopyInv(g, clone, pc, r) ==
  /\ Kept(g)
  /\ pc \notin {"commit", "switch", "reset"} \/ ~clone => Unstaged(g)
  /\ pc = "commit" => Staged(g, r)
  /\ pc \in {"checkout", "pull", "pullNew", "add"} /\ clone => Mine(g, r)

Committing == {"write", "checkout", "pull", "pullNew", "add", "commit"}

\* A run that has not arrived is not approved, only approved runs commit.
ApprovalInv ==
  /\ \A r \in Runs : run[r].status = "NONE" => ~run[r].approved
  /\ exec.pc \in Committing => run[exec.run].approved

OwnInv ==
  /\ CopyInv(dir.git, IsClone, exec.pc, exec.run)
  /\ Owned(remote)

CommitInv == ApprovalInv /\ (Untouched("crashes") /\ Untouched("rollbacks") => OwnInv)

\* What the step leaves behind, by the approvals before it.
OwnNext ==
  /\ CopyInv(dir'.git, dir'.kind = "clone", exec'.pc, exec'.run)
  /\ Owned(remote')

\* Budgets only shrink; where neither a process died nor a rollback failed, none
\* does so in this step.
LEMMA NoFault ==
  ASSUME TypeOK, BudgetInv, [Next]_vars, Untouched("crashes")', Untouched("rollbacks")'
  PROVE  Untouched("crashes") /\ Untouched("rollbacks") /\ ~Restart /\ ~Spend("rollbacks")
<1>1. budget \in [Events -> Nat] /\ InitialBudget \in [Events -> Nat]
      /\ {"crashes", "rollbacks", "total"} \subseteq Events
  BY WorkspaceAssumption DEF TypeOK, Events
<1>2. /\ budget["rollbacks"] \in Nat /\ budget["rollbacks"] <= InitialBudget["rollbacks"]
      /\ InitialBudget["rollbacks"] \in Nat /\ InitialBudget["crashes"] \in Nat
  BY <1>1 DEF BudgetInv
<1>3. ~Restart /\ budget'["crashes"] = budget["crashes"]
  BY <1>1, <1>2, BudgetStep DEF Untouched
<1>4. ~Spend("rollbacks")
  <2>1. SUFFICES ASSUME Spend("rollbacks") PROVE FALSE
    OBVIOUS
  <2>2. budget'["rollbacks"] = budget["rollbacks"] - 1
    BY <1>1, <2>1 DEF Spend
  <2> QED
    BY <1>2, <2>2 DEF Untouched
<1>5. budget'["rollbacks"] = budget["rollbacks"]
  <2>1. CASE UNCHANGED budget
    BY <2>1
  <2>2. ASSUME NEW event \in Events \ {"crashes", "total"}, Spend(event)
        PROVE  budget'["rollbacks"] = budget["rollbacks"]
    <3>1. event # "rollbacks"
      BY <1>4, <2>2
    <3> QED
      BY <1>1, <2>2, <3>1 DEF Spend
  <2> QED
    BY <1>3, <2>1, <2>2, StepCosts
<1> QED
  BY <1>3, <1>4, <1>5 DEF Untouched

\* A row written later: approved if it was, and not back to what it was before the
\* run arrived.
Later(row, new) ==
  /\ row.approved => new.approved
  /\ new.status = "NONE" => row.status = "NONE" /\ (new.approved => row.approved)

\* The ways a row is written.
LEMMA RowsLater ==
  ASSUME NEW row \in RunRow
  PROVE  /\ Later(row, row)
         /\ \A status \in RunStatus \ {"NONE"} : /\ Later(row, [row EXCEPT !.status = status])
                                                 /\ Later(row, [row EXCEPT !.job = FALSE, !.status = status])
                                                 /\ Later(row, [row EXCEPT !.status = status, !.job = FALSE])
         /\ Later(row, [row EXCEPT !.job = FALSE]) /\ Later(row, [row EXCEPT !.job = TRUE])
         /\ Later(row, [row EXCEPT !.committed = TRUE])
         /\ row.status # "NONE" =>
              Later(row, [row EXCEPT !.approved = TRUE, !.job = TRUE, !.mode = "resume", !.attempts = 0])
         /\ \A again, attempts :
              Later(row, [row EXCEPT !.status = "FAILED", !.job = again, !.mode = "resume",
                                     !.attempts = attempts])
BY DEF Later, RunRow, RunStatus

\* Writing one row, the others stay.
LEMMA OneLater ==
  ASSUME run \in [Runs -> RunRow], NEW r \in Runs, NEW row, run' = [run EXCEPT ![r] = row],
         Later(run[r], row)
  PROVE  \A q \in Runs : Later(run[q], run'[q])
BY RowsLater

\* Nobody takes an approval back.
LEMMA ApprovalsStay ==
  ASSUME TypeOK, RunsInv, ApprovalInv, [Next]_vars
  PROVE  \A r \in Runs : Later(run[r], run'[r])
<1>1. /\ run \in [Runs -> RunRow] /\ exec \in Executor
      /\ exec.pc # "idle" => exec.run \in Runs
  BY DEF TypeOK, RunsInv
<1>2. CASE run' = run
  BY <1>1, <1>2, RowsLater
<1>3. CASE run' # run /\ (Analyse \/ Proceed \/ Checkpoint \/ Propose)
  <2> DEFINE r == exec.run
             row == run[r]
  <2>1. r \in Runs /\ row \in RunRow
    BY <1>1, <1>3 DEF Analyse, Proceed, Checkpoint, Propose, At
  <2>2. \/ \E status \in RunStatus \ {"NONE"} : run' = [run EXCEPT ![r] = [row EXCEPT !.status = status]]
        \/ run' = [run EXCEPT ![r] = [row EXCEPT !.committed = TRUE]]
    BY <1>3 DEF Analyse, Proceed, Checkpoint, Propose, Write, Current, RunStatus
  <2> HIDE DEF row
  <2>3. \E new : run' = [run EXCEPT ![r] = new] /\ Later(row, new)
    BY <2>1, <2>2, RowsLater
  <2> QED
    BY <1>1, <2>1, <2>3, OneLater DEF row
<1>4. ASSUME NEW r \in Runs, Take(r) \/ Arrive(r) \/ Approve(r)
      PROVE  \A q \in Runs : Later(run[q], run'[q])
  <2>1. run[r] \in RunRow
    BY <1>1
  <2>2. CASE Take(r)
    <3>1. \/ run' = [run EXCEPT ![r] = [run[r] EXCEPT !.job = FALSE, !.status = "RUNNING"]]
          \/ run' = [run EXCEPT ![r] = [run[r] EXCEPT !.job = FALSE]]
      BY <2>2 DEF Take, Write
    <3>2. /\ Later(run[r], [run[r] EXCEPT !.job = FALSE, !.status = "RUNNING"])
          /\ Later(run[r], [run[r] EXCEPT !.job = FALSE])
      BY <2>1, RowsLater DEF RunStatus
    <3> QED
      BY <1>1, <3>1, <3>2, OneLater
  <2>3. CASE Arrive(r)
    <3>1. run' = [run EXCEPT ![r] = [NoRow EXCEPT !.status = "QUEUED", !.job = TRUE]]
          /\ run[r].status = "NONE"
      BY <2>3 DEF Arrive, Write
    <3>2. ~run[r].approved
      BY <3>1 DEF ApprovalInv
    <3>3. Later(run[r], [NoRow EXCEPT !.status = "QUEUED", !.job = TRUE])
      BY <3>2 DEF Later, NoRow
    <3> QED
      BY <1>1, <3>1, <3>3, OneLater
  <2>4. CASE Approve(r)
    <3> DEFINE new == [run[r] EXCEPT !.approved = TRUE, !.job = TRUE, !.mode = "resume", !.attempts = 0]
    <3>1. run' = [run EXCEPT ![r] = new] /\ run[r].status # "NONE"
      BY <1>1, <2>4 DEF Approve
    <3>2. Later(run[r], new)
      BY <2>1, <3>1, RowsLater
    <3> HIDE DEF new
    <3> QED
      BY <1>1, <3>1, <3>2, OneLater
  <2> QED
    BY <1>4, <2>2, <2>3, <2>4
<1>5. ASSUME NEW permanent \in BOOLEAN, Fail(permanent), run' # run
      PROVE  \A q \in Runs : Later(run[q], run'[q])
  <2> DEFINE r == exec.run
             again == ~permanent /\ run[r].attempts + 1 < MaxAttempts
             new == [run[r] EXCEPT !.status = "FAILED", !.job = again, !.mode = "resume",
                                   !.attempts = @ + 1]
  <2>1. r \in Runs /\ run[r] \in RunRow
    BY <1>1, <1>5 DEF Fail, At
  <2>2. run' = [run EXCEPT ![r] = new]
    BY <1>5 DEF Fail, Write, Current
  <2>3. Later(run[r], new)
    BY <2>1, RowsLater
  <2> HIDE DEF new
  <2> QED
    BY <1>1, <2>1, <2>2, <2>3, OneLater
<1>6. CASE RevokeRows
  <2>1. \A r \in Runs : run'[r] = [run[r] EXCEPT !.status = "DELETED", !.job = FALSE]
    BY <1>6 DEF RevokeRows
  <2>2. \A r \in Runs : Later(run[r], [run[r] EXCEPT !.status = "DELETED", !.job = FALSE])
    BY <1>1, RowsLater DEF RunStatus
  <2> QED
    BY <2>1, <2>2
<1>7. CASE Restart /\ run' # run
  <2> DEFINE r == exec.run
             new == [run[r] EXCEPT !.job = TRUE]
  <2>1. exec.pc # "idle" /\ run' = [run EXCEPT ![r].job = TRUE]
    BY <1>7 DEF Restart, At, Current
  <2>2. r \in Runs /\ run' = [run EXCEPT ![r] = new]
    BY <1>1, <2>1
  <2>3. Later(run[r], new)
    BY <1>1, <2>2, RowsLater
  <2> HIDE DEF new
  <2> QED
    BY <1>1, <2>2, <2>3, OneLater
<1>8. CASE Working
  BY <1>2, <1>8, WorkingStep
<1>9. CASE ShouldCleanup \/ DeleteWorkspace \/ Sweep \/ RevokeDirectory \/ Merge \/ Age \/ UNCHANGED vars
  <2>1. run' = run
    BY <1>9 DEF ShouldCleanup, DeleteWorkspace, Sweep, SweepLock, SweepLook, SweepRemove,
                RevokeDirectory, Merge, Age, vars, NoOtherChange
  <2> QED
    BY <1>2, <2>1
<1> QED
  BY <1>2, <1>3, <1>4, <1>5, <1>6, <1>7, <1>8, <1>9 DEF Next, Execute, Working

\* A directory whose git part is replaced.
LEMMA DirectoryGoes ==
  ASSUME TypeOK
  PROVE  /\ \A g : [dir EXCEPT !.git = g].git = g /\ [dir EXCEPT !.git = g].kind = dir.kind
         /\ [dir EXCEPT !.kind = "debris"].git = dir.git /\ [dir EXCEPT !.kind = "debris"].kind = "debris"
         /\ \A url : [dir EXCEPT !.url = url].git = dir.git /\ [dir EXCEPT !.url = url].kind = dir.kind
         /\ NoDirectory.kind = "absent"
BY DEF TypeOK, Directory, NoDirectory

\* Steps that leave the working copy and GitHub's branches alone.
LEMMA SameCopy ==
  ASSUME OwnInv, UNCHANGED remote, dir'.git = dir.git,
         dir'.kind = dir.kind \/ dir'.kind # "clone",
         exec.pc \notin {"commit", "switch", "reset"} \/ ~IsClone,
         exec'.pc \notin {"checkout", "pull", "pullNew", "add"} \/ dir'.kind # "clone"
  PROVE  OwnNext
<1>1. Kept(dir.git) /\ Unstaged(dir.git) /\ Owned(remote)
  BY DEF OwnInv, CopyInv
<1> QED
  BY <1>1 DEF OwnNext, CopyInv, Unstaged, Staged

\* writeDocuments.
LEMMA WriteOwns ==
  ASSUME WorkspaceInv, OwnInv, Clone \/ WriteDocuments
  PROVE  OwnNext
<1>1. /\ TypeOK /\ GoodCopy(dir.git) /\ exec.pc \in {"clone", "write"} /\ exec.run \in Runs
      /\ remote \in Refs /\ remote' = remote /\ exec \in Executor
  BY DEF TypeOK, WorkspaceInv, DiskInv, RunsInv, Clone, WriteDocuments, At, NoOtherChange
<1>2. Kept(dir.git) /\ Unstaged(dir.git) /\ Owned(remote)
  BY <1>1 DEF OwnInv, CopyInv
<1>3. CASE Clone
  <2>1. exec'.pc \in {"ready", "fail"}
    BY <1>1, <1>3 DEF Clone, Goto, ToFailure, Executor
  <2>2. CASE dir' = dir
    BY <1>1, <2>1, <2>2, SameCopy
  <2>3. CASE dir' # dir
    <3>1. dir'.git = Cloned(remote)
      BY <1>3, <2>3 DEF Clone
    <3>2. Kept(dir'.git) /\ Unstaged(dir'.git)
      BY <1>1, <1>2, <3>1, ClonedKeeps
    <3> QED
      BY <1>1, <1>2, <2>1, <3>2 DEF OwnNext, CopyInv
  <2> QED
    BY <2>2, <2>3
<1>4. CASE WriteDocuments
  <2>1. exec'.run = exec.run /\ exec'.pc \in {"checkout", "fail"}
    BY <1>1, <1>4 DEF WriteDocuments, Goto, ToFailure, Executor
  <2>2. CASE ~IsClone
    <3>1. dir'.git = dir.git /\ dir'.kind # "clone"
      BY <1>1, <1>4, <2>2, DirectoryGoes DEF WriteDocuments, IsClone
    <3> QED
      BY <1>1, <3>1, SameCopy
  <2>3. CASE IsClone
    <3>1. \E files : /\ dir' = [dir EXCEPT !.git = Copied(dir.git, exec.run, files)]
                     /\ exec'.pc = "checkout" => files = Docs[exec.run]
      BY <1>1, <1>4, <2>3 DEF WriteDocuments, Goto, ToFailure, Current, Executor
    <3>2. PICK files : /\ dir' = [dir EXCEPT !.git = Copied(dir.git, exec.run, files)]
                       /\ exec'.pc = "checkout" => files = Docs[exec.run]
      BY <3>1
    <3> DEFINE h == Copied(dir.git, exec.run, files)
    <3>3. Kept(h) /\ Unstaged(h) /\ (files = Docs[exec.run] => Mine(h, exec.run))
      BY <1>1, <1>2, CopiedKeeps
    <3> HIDE DEF h
    <3>4. dir'.git = h
      BY <1>1, <3>2, DirectoryGoes DEF h
    <3> QED
      BY <1>1, <1>2, <2>1, <3>2, <3>3, <3>4 DEF OwnNext, CopyInv
  <2> QED
    BY <2>2, <2>3
<1> QED
  BY <1>3, <1>4

\* checkout, pull, add and commit.
LEMMA CommitOwns ==
  ASSUME WorkspaceInv, OwnInv, ApprovalInv, Checkout \/ Pull \/ Add \/ Commit
  PROVE  OwnNext
<1> DEFINE g == dir.git
           r == exec.run
<1>1. /\ TypeOK /\ GoodCopy(g) /\ exec.pc \in {"checkout", "pull", "pullNew", "add", "commit"}
      /\ r \in Runs /\ remote \in Refs /\ remote' = remote /\ Target \in Branch /\ run[r].approved
      /\ exec \in Executor
  BY WorkspaceAssumption
  DEF TypeOK, WorkspaceInv, DiskInv, RunsInv, ApprovalInv, Committing, Checkout, Pull, Add, Commit, At, NoOtherChange
<1>2. /\ Kept(g) /\ Owned(remote)
      /\ exec.pc # "commit" \/ ~IsClone => Unstaged(g)
      /\ exec.pc = "commit" => Staged(g, r)
      /\ exec.pc # "commit" /\ IsClone => Mine(g, r)
  BY <1>1 DEF OwnInv, CopyInv
<1>3. exec'.run = r
  BY <1>1 DEF Checkout, Pull, Add, Commit, Goto, ToRollback, Executor
<1>4. ASSUME exec'.pc = "switch", dir' = dir
      PROVE  OwnNext
  BY <1>1, <1>2, <1>4 DEF OwnNext, CopyInv, IsClone
<1>5. ASSUME NEW h, dir' = [dir EXCEPT !.git = h], Keeps(g, h), exec.pc # "commit", IsClone,
             exec'.pc \in {"pull", "pullNew", "add"}
      PROVE  OwnNext
  <2>1. dir'.git = h /\ dir'.kind = "clone"
    BY <1>1, <1>5, DirectoryGoes DEF IsClone
  <2>2. Kept(h) /\ Unstaged(h) /\ Mine(h, r)
    BY <1>1, <1>2, <1>5 DEF Keeps
  <2> QED
    BY <1>1, <1>2, <1>3, <1>5, <2>1, <2>2 DEF OwnNext, CopyInv
<1>6. CASE Checkout
  <2>1. CASE exec'.pc = "switch"
    <3>1. dir' = dir
      BY <1>1, <1>6, <2>1 DEF Checkout, Goto, Executor
    <3> QED
      BY <1>4, <2>1, <3>1
  <2>2. CASE exec'.pc # "switch"
    <3>1. /\ IsClone /\ exec.pc = "checkout" /\ exec'.pc \in {"pull", "pullNew", "add"}
          /\ \/ CanCheckout(g, Target) /\ dir' = [dir EXCEPT !.git = CheckedOut(g, Target)]
             \/ dir' = [dir EXCEPT !.git = Branched(g, Target)]
      BY <1>1, <1>6, <2>2 DEF Checkout, Goto, ToRollback, Git, At, Executor
    <3>2. CASE CanCheckout(g, Target) /\ dir' = [dir EXCEPT !.git = CheckedOut(g, Target)]
      <4> DEFINE h == CheckedOut(g, Target)
      <4>1. Keeps(g, h)
        BY <1>1, <3>2, CheckedOutKeeps
      <4> HIDE DEF h
      <4> QED
        BY <1>5, <3>1, <3>2, <4>1 DEF h
    <3>3. CASE dir' = [dir EXCEPT !.git = Branched(g, Target)]
      <4> DEFINE h == Branched(g, Target)
      <4>1. Keeps(g, h)
        BY <1>1, BranchedKeeps
      <4> HIDE DEF h
      <4> QED
        BY <1>5, <3>1, <3>3, <4>1 DEF h
    <3> QED
      BY <3>1, <3>2, <3>3
  <2> QED
    BY <2>1, <2>2
<1>7. CASE Pull
  <2>1. CASE exec'.pc = "switch"
    <3>1. dir' = dir
      BY <1>1, <1>7, <2>1 DEF Pull, Goto, Executor
    <3> QED
      BY <1>4, <2>1, <3>1
  <2>2. CASE exec'.pc # "switch" /\ dir' = dir
    <3>1. exec'.pc = "add" /\ exec.pc # "commit"
      BY <1>1, <1>7, <2>2 DEF Pull, Goto, ToRollback, At, Executor
    <3> QED
      BY <1>1, <1>2, <1>3, <2>2, <3>1 DEF OwnNext, CopyInv, IsClone
  <2>3. CASE exec'.pc # "switch" /\ dir' # dir
    <3> DEFINE h == Pulled(g, remote)
    <3>1. /\ IsClone /\ exec.pc # "commit" /\ exec'.pc = "add" /\ CanPull(g, remote)
          /\ dir' = [dir EXCEPT !.git = h]
      BY <1>1, <1>7, <2>3 DEF Pull, Goto, ToRollback, Git, At, Executor
    <3>2. Keeps(g, h)
      BY <1>1, <1>2, <3>1, PulledKeeps
    <3> HIDE DEF h
    <3> QED
      BY <1>5, <3>1, <3>2
  <2> QED
    BY <2>1, <2>2, <2>3
<1>8. CASE Add
  <2>1. CASE exec'.pc = "switch"
    <3>1. dir' = dir
      BY <1>1, <1>8, <2>1 DEF Add, Goto, Executor
    <3> QED
      BY <1>4, <2>1, <3>1
  <2>2. CASE exec'.pc # "switch"
    <3> DEFINE h == Added(g, Docs[r])
    <3>1. /\ IsClone /\ exec.pc = "add" /\ exec'.pc = "commit" /\ dir' = [dir EXCEPT !.git = h]
      BY <1>1, <1>8, <2>2 DEF Add, Goto, ToRollback, Git, At, Current, Executor
    <3>2. Kept(h) /\ Staged(h, r)
      BY <1>1, <1>2, <3>1, AddedStages
    <3> HIDE DEF h
    <3>3. dir'.git = h /\ dir'.kind = "clone"
      BY <1>1, <3>1, DirectoryGoes DEF IsClone
    <3> QED
      BY <1>1, <1>2, <1>3, <3>1, <3>2, <3>3 DEF OwnNext, CopyInv
  <2> QED
    BY <2>1, <2>2
<1>9. CASE Commit
  <2>1. CASE exec'.pc = "switch"
    <3>1. dir' = dir
      BY <1>1, <1>9, <2>1 DEF Commit, Goto, Executor
    <3> QED
      BY <1>4, <2>1, <3>1
  <2>2. CASE exec'.pc # "switch"
    <3> DEFINE h == IF NothingStaged(g) THEN g ELSE CommittedIndex(g)
    <3>1. /\ IsClone /\ exec.pc = "commit" /\ exec'.pc = "checkpoint" /\ dir' = [dir EXCEPT !.git = h]
      BY <1>1, <1>9, <2>2 DEF Commit, Goto, ToRollback, Git, At, Executor
    <3>2. Kept(h) /\ Unstaged(h)
      <4>1. CASE NothingStaged(g)
        BY <1>2, <4>1 DEF NothingStaged, Unstaged
      <4>2. CASE ~NothingStaged(g)
        <5>1. Kept(CommittedIndex(g)) /\ Unstaged(CommittedIndex(g))
          BY <1>1, <1>2, <3>1, CommittedKeeps
        <5> QED
          BY <4>2, <5>1
      <4> QED
        BY <4>1, <4>2
    <3> HIDE DEF h
    <3>3. dir'.git = h
      BY <1>1, <3>1, DirectoryGoes
    <3> QED
      BY <1>1, <1>2, <3>1, <3>2, <3>3 DEF OwnNext, CopyInv
  <2> QED
    BY <2>1, <2>2
<1> QED
  BY <1>6, <1>7, <1>8, <1>9

\* pushBranch.
LEMMA PushOwns ==
  ASSUME WorkspaceInv, OwnInv, ReadOrigin \/ SetToken \/ Push \/ RestoreOrigin
  PROVE  OwnNext
<1>1. /\ TypeOK /\ GoodCopy(dir.git) /\ exec \in Executor /\ Target \in Branch /\ remote \in Refs
      /\ exec.pc \in {"origin", "token", "push", "restore"}
  BY WorkspaceAssumption DEF TypeOK, WorkspaceInv, DiskInv, ReadOrigin, SetToken, Push, RestoreOrigin, At
<1>2. Kept(dir.git) /\ Owned(remote) /\ Unstaged(dir.git)
  BY <1>1 DEF OwnInv, CopyInv
<1>3. exec'.pc \in {"token", "push", "restore", "switch", "fail", "propose"}
  BY <1>1 DEF ReadOrigin, SetToken, Push, RestoreOrigin, Goto, ToRollback, ToFailure, Executor
<1>4. CASE ReadOrigin \/ SetToken \/ RestoreOrigin \/ (Push /\ dir' = dir /\ remote' = remote)
  <2>1. /\ dir' = dir \/ \E url : dir' = [dir EXCEPT !.url = url]
        /\ remote' = remote
    BY <1>4 DEF ReadOrigin, SetToken, RestoreOrigin, NoOtherChange
  <2>2. dir'.git = dir.git /\ dir'.kind = dir.kind
    BY <1>1, <2>1, DirectoryGoes
  <2> QED
    BY <1>1, <1>3, <2>1, <2>2, SameCopy
<1>5. CASE Push /\ ~(dir' = dir /\ remote' = remote)
  <2> DEFINE g == dir.git
             h == Pushed(g, Target)
  <2>1. remote' = [remote EXCEPT ![Target] = g.local[Target]] /\ dir' = [dir EXCEPT !.git = h]
    BY <1>5 DEF Push, Git
  <2>2. Keeps(g, h)
    BY <1>1, PushedKeeps
  <2> HIDE DEF h
  <2>3. dir'.git = h
    BY <1>1, <2>1, DirectoryGoes
  <2>4. Kept(h) /\ Unstaged(h)
    BY <1>2, <2>2 DEF Keeps
  <2>5. \A b \in Branch : remote'[b] = IF b = Target THEN g.local[b] ELSE remote[b]
    BY <1>1, <2>1 DEF Refs
  <2>6. Owned(remote')
    BY <1>2, <2>5 DEF Kept, Owned
  <2> QED
    BY <1>3, <2>3, <2>4, <2>6 DEF OwnNext, CopyInv
<1> QED
  BY <1>4, <1>5

\* rollback, as long as none of its steps fails on a clone.
LEMMA RollbackOwns ==
  ASSUME WorkspaceInv, OwnInv, ~Spend("rollbacks"), RollbackSwitch \/ RollbackReset \/ RollbackDelete
  PROVE  OwnNext
<1> DEFINE g == dir.git
<1>1. /\ TypeOK /\ GoodCopy(g) /\ exec \in Executor /\ Target \in Branch /\ Default \in Branch
      /\ remote' = remote
  BY WorkspaceAssumption, GitAssumption
  DEF TypeOK, WorkspaceInv, DiskInv, RollbackSwitch, RollbackReset, RollbackDelete, NoOtherChange
<1>2. /\ Kept(g) /\ Owned(remote)
      /\ exec.pc \notin {"switch", "reset", "commit"} \/ ~IsClone => Unstaged(g)
  BY DEF OwnInv, CopyInv
<1>3. /\ exec'.pc \in {"reset", "delete", "restore", "fail"}
      /\ exec'.pc = "reset" <=> RollbackSwitch
  <2>1. CASE RollbackSwitch
    BY <1>1, <2>1 DEF RollbackSwitch, Goto, Executor
  <2>2. CASE RollbackReset \/ RollbackDelete
    <3>1. exec.pc # "switch"
      BY <2>2 DEF RollbackReset, RollbackDelete, At
    <3> QED
      BY <1>1, <2>2, <3>1 DEF RollbackSwitch, RollbackReset, RollbackDelete, AfterRollback, Goto, Executor, At
  <2> QED
    BY <2>1, <2>2
<1>4. ASSUME dir' = dir, ~IsClone
      PROVE  OwnNext
  BY <1>1, <1>2, <1>3, <1>4 DEF OwnNext, CopyInv, IsClone
<1>5. ASSUME NEW h, dir' = [dir EXCEPT !.git = h], Kept(h), IsClone, RollbackSwitch \/ Unstaged(h)
      PROVE  OwnNext
  <2>1. dir'.git = h /\ dir'.kind = "clone"
    BY <1>1, <1>5, DirectoryGoes DEF IsClone
  <2> QED
    BY <1>1, <1>2, <1>3, <1>5, <2>1 DEF OwnNext, CopyInv
<1>6. Keeps(g, g)
  BY DEF Keeps
<1>7. CASE RollbackSwitch
  <2>1. \/ dir' = dir /\ ~IsClone
        \/ dir' = dir
        \/ IsClone /\ dir' = [dir EXCEPT !.git = g]
        \/ IsClone /\ CanCheckout(g, Default) /\ dir' = [dir EXCEPT !.git = CheckedOut(g, Default)]
    BY <1>7 DEF RollbackSwitch, Git
  <2>2. CASE dir' = dir
    BY <1>1, <1>2, <1>3, <1>7, <2>2, <1>4 DEF OwnNext, CopyInv, IsClone
  <2>3. CASE IsClone /\ dir' = [dir EXCEPT !.git = g]
    BY <1>2, <1>5, <1>7, <2>3
  <2>4. CASE IsClone /\ CanCheckout(g, Default) /\ dir' = [dir EXCEPT !.git = CheckedOut(g, Default)]
    <3> DEFINE h == CheckedOut(g, Default)
    <3>1. Kept(h)
      BY <1>1, <1>2, <2>4, CheckedOutKeeps DEF Keeps
    <3> HIDE DEF h
    <3> QED
      BY <1>5, <1>7, <2>4, <3>1 DEF h
  <2> QED
    BY <2>1, <2>2, <2>3, <2>4
<1>8. CASE RollbackReset
  <2>1. \/ IsClone /\ dir' = [dir EXCEPT !.git = Cleaned(Reset(g))]
        \/ ~IsClone /\ dir' = dir
    BY <1>8 DEF RollbackReset, ThrowsAgain, Git
  <2>2. CASE IsClone /\ dir' = [dir EXCEPT !.git = Cleaned(Reset(g))]
    <3> DEFINE h == Cleaned(Reset(g))
    <3>1. Kept(h) /\ Unstaged(h)
      BY <1>1, <1>2, ResetUnstages
    <3> HIDE DEF h
    <3> QED
      BY <1>5, <2>2, <3>1 DEF h
  <2> QED
    BY <1>4, <2>1, <2>2
<1>9. CASE RollbackDelete
  <2>1. Unstaged(g) /\ exec'.pc # "reset"
    BY <1>1, <1>2, <1>9 DEF RollbackDelete, AfterRollback, Goto, Executor, At
  <2>2. \/ dir' = dir
        \/ IsClone /\ dir' = [dir EXCEPT !.git = g]
        \/ IsClone /\ CanDelete(g, Target) /\ dir' = [dir EXCEPT !.git = Deleted(g, Target)]
    BY <1>9 DEF RollbackDelete, Git
  <2>3. CASE dir' = dir
    BY <1>1, <1>2, <1>3, <2>1, <2>3 DEF OwnNext, CopyInv
  <2>4. CASE IsClone /\ dir' = [dir EXCEPT !.git = g]
    BY <1>2, <1>5, <2>1, <2>4
  <2>5. CASE IsClone /\ CanDelete(g, Target) /\ dir' = [dir EXCEPT !.git = Deleted(g, Target)]
    <3> DEFINE h == Deleted(g, Target)
    <3>1. Kept(h) /\ Unstaged(h)
      BY <1>1, <1>2, <2>1, <2>5, DeletedKeeps DEF Keeps
    <3> HIDE DEF h
    <3> QED
      BY <1>5, <2>5, <3>1 DEF h
  <2> QED
    BY <2>2, <2>3, <2>4, <2>5
<1> QED
  BY <1>7, <1>8, <1>9

\* Everyone else.
LEMMA OthersOwn ==
  ASSUME WorkspaceInv, OwnInv,
         \/ Open \/ Analyse \/ Proceed \/ Checkpoint \/ Propose \/ ShouldCleanup \/ DeleteWorkspace
         \/ Sweep \/ RevokeDirectory \/ RevokeRows \/ Merge \/ Age \/ UNCHANGED vars
         \/ \E permanent \in BOOLEAN : Fail(permanent)
         \/ \E r \in Runs : Arrive(r) \/ Take(r) \/ Approve(r)
  PROVE  OwnNext
<1>1. /\ TypeOK /\ GoodCopy(dir.git) /\ exec \in Executor /\ Target \in Branch /\ Default \in Branch
      /\ remote \in Refs /\ Idle.pc = "idle"
  BY WorkspaceAssumption, GitAssumption DEF TypeOK, WorkspaceInv, DiskInv, Idle
<1>2. Kept(dir.git) /\ Owned(remote)
  BY DEF OwnInv, CopyInv
<1>3. CASE \/ Open \/ Analyse \/ Proceed \/ Checkpoint \/ Propose \/ ShouldCleanup
           \/ \E permanent \in BOOLEAN : Fail(permanent)
           \/ \E r \in Runs : Take(r)
  <2>1. dir' = dir /\ remote' = remote
    BY <1>3 DEF Open, Analyse, Proceed, Checkpoint, Propose, ShouldCleanup, Fail, Take, NoOtherChange
  <2>2. exec.pc \in {"open", "ready", "checkpoint", "propose", "cleanup", "fail", "idle"}
    BY <1>3 DEF Open, Analyse, Proceed, Checkpoint, Propose, ShouldCleanup, Fail, Take, At
  <2>3. exec'.pc \in {"ready", "clone", "idle", "write", "origin", "fail", "cleanup", "remove", "open"}
    <3>1. CASE \E r \in Runs : Take(r)
      BY <3>1 DEF Take, Idle
    <3>2. CASE ~\E r \in Runs : Take(r)
      BY <1>1, <1>3, <3>2 DEF Open, Analyse, Proceed, Checkpoint, Propose, ShouldCleanup, Fail, Goto,
                              ToFailure, Executor
    <3> QED
      BY <3>1, <3>2
  <2> QED
    BY <2>1, <2>2, <2>3, SameCopy
<1>4. CASE DeleteWorkspace \/ SweepRemove \/ RevokeDirectory
  <2>1. dir' = NoDirectory /\ remote' = remote
    BY <1>4 DEF DeleteWorkspace, SweepRemove, RevokeDirectory, NoOtherChange
  <2>2. Kept(dir'.git) /\ Unstaged(dir'.git) /\ dir'.kind # "clone"
    BY <2>1, NothingKept DEF NoDirectory
  <2>3. \A r : Staged(dir'.git, r)
    BY <2>2 DEF Unstaged, Staged
  <2> QED
    BY <1>2, <2>1, <2>2, <2>3 DEF OwnNext, CopyInv
<1>5. CASE \/ SweepLock \/ SweepLook \/ RevokeRows \/ Age \/ Merge \/ UNCHANGED vars
           \/ \E r \in Runs : Arrive(r) \/ Approve(r)
  <2>1. dir' = dir /\ exec' = exec
    BY <1>5 DEF SweepLock, SweepLook, RevokeRows, Age, Merge, vars, Arrive, Approve
  <2>2. Owned(remote')
    <3>1. CASE Merge
      <4>1. PICK kept \in {{}, remote[Target]} :
              remote' = [remote EXCEPT ![Default] = remote[Target], ![Target] = kept]
        BY <3>1 DEF Merge
      <4>2. \A b \in Branch : remote'[b] \in {remote[b], remote[Target], {}}
        BY <1>1, <4>1 DEF Refs
      <4> QED
        BY <1>1, <1>2, <4>2 DEF Owned
    <3>2. CASE ~Merge
      <4>1. remote' = remote
        BY <1>5, <3>2 DEF SweepLock, SweepLook, RevokeRows, Age, vars, Arrive, Approve
      <4> QED
        BY <1>2, <4>1
    <3> QED
      BY <3>1, <3>2
  <2> QED
    BY <2>1, <2>2 DEF OwnNext, OwnInv, IsClone
<1> QED
  BY <1>3, <1>4, <1>5 DEF Sweep

\* Every step without a fault.
LEMMA OwnStep ==
  ASSUME WorkspaceInv, OwnInv, ApprovalInv, [Next]_vars, ~Restart, ~Spend("rollbacks")
  PROVE  OwnNext
<1>1. CASE Clone \/ WriteDocuments
  BY <1>1, WriteOwns
<1>2. CASE Checkout \/ Pull \/ Add \/ Commit
  BY <1>2, CommitOwns
<1>3. CASE ReadOrigin \/ SetToken \/ Push \/ RestoreOrigin
  BY <1>3, PushOwns
<1>4. CASE RollbackSwitch \/ RollbackReset \/ RollbackDelete
  BY <1>4, RollbackOwns
<1>5. CASE \/ Open \/ Analyse \/ Proceed \/ Checkpoint \/ Propose \/ ShouldCleanup \/ DeleteWorkspace
           \/ Sweep \/ RevokeDirectory \/ RevokeRows \/ Merge \/ Age \/ UNCHANGED vars
           \/ \E permanent \in BOOLEAN : Fail(permanent)
           \/ \E r \in Runs : Arrive(r) \/ Take(r) \/ Approve(r)
  BY <1>5, OthersOwn
<1> QED
  BY <1>1, <1>2, <1>3, <1>4, <1>5 DEF Next, Execute

\* The executor begins to publish an approved run only.
LEMMA ApprovalStep ==
  ASSUME WorkspaceInv, ApprovalInv, [Next]_vars
  PROVE  ApprovalInv'
<1>1. /\ TypeOK /\ exec \in Executor /\ RunsInv /\ Idle.pc = "idle"
      /\ \A r \in Runs : Later(run[r], run'[r])
  BY ApprovalsStay DEF TypeOK, WorkspaceInv, Idle
<1>2. \A r \in Runs : run'[r].status = "NONE" => ~run'[r].approved
  BY <1>1 DEF Later, ApprovalInv
<1>3. SUFFICES ASSUME exec'.pc \in Committing
               PROVE  exec'.run \in Runs /\ run[exec'.run].approved
  BY <1>1, <1>2 DEF ApprovalInv, Later
<1>4. ASSUME exec.pc \in Committing, exec'.run = exec.run
      PROVE  exec'.run \in Runs /\ run[exec'.run].approved
  BY <1>1, <1>4 DEF ApprovalInv, RunsInv, Committing
<1>5. CASE Working
  <2>1. exec'.run = exec.run
    BY <1>1, <1>5, WorkingStep
  <2>2. exec.pc \in Committing
    <3>1. CASE Open \/ Clone \/ WriteDocuments
      BY <1>1, <1>3, <3>1 DEF Open, Clone, WriteDocuments, Goto, ToFailure, Executor, Committing, At
    <3>2. CASE Checkout \/ Pull \/ Add \/ Commit
      BY <3>2 DEF Checkout, Pull, Add, Commit, Committing, At
    <3>3. CASE ReadOrigin \/ SetToken \/ Push \/ RestoreOrigin
      BY <1>1, <1>3, <3>3 DEF ReadOrigin, SetToken, Push, RestoreOrigin, Goto, ToRollback, ToFailure,
                              Executor, Committing
    <3>4. CASE RollbackSwitch \/ RollbackReset \/ RollbackDelete
      BY <1>1, <1>3, <3>4 DEF RollbackSwitch, RollbackReset, RollbackDelete, AfterRollback, Goto,
                              Executor, Committing
    <3> QED
      BY <1>5, <3>1, <3>2, <3>3, <3>4 DEF Working
  <2> QED
    BY <1>4, <2>1, <2>2
<1>6. CASE Proceed
  <2>1. exec.pc = "ready" /\ run[exec.run].approved
    BY <1>6 DEF Proceed, At, Current
  <2>2. exec'.run = exec.run
    BY <1>1, <1>6 DEF Proceed, Goto, Executor
  <2> QED
    BY <1>1, <2>1, <2>2 DEF RunsInv
<1>7. CASE \/ Analyse \/ Checkpoint \/ Propose \/ ShouldCleanup \/ DeleteWorkspace \/ Restart
           \/ \E permanent \in BOOLEAN : Fail(permanent)
           \/ \E r \in Runs : Take(r)
  <2>1. exec'.pc \in {"idle", "origin", "fail", "cleanup", "remove", "open"}
    <3>1. CASE \E r \in Runs : Take(r)
      BY <3>1 DEF Take, Idle
    <3>2. CASE ~\E r \in Runs : Take(r)
      BY <1>1, <1>7, <3>2 DEF Analyse, Checkpoint, Propose, ShouldCleanup, DeleteWorkspace, Restart,
                              Fail, Goto, ToFailure, Executor
    <3> QED
      BY <3>1, <3>2
  <2> QED
    BY <1>3, <2>1 DEF Committing
<1>8. CASE \/ Sweep \/ RevokeDirectory \/ RevokeRows \/ Merge \/ Age \/ UNCHANGED vars
           \/ \E r \in Runs : Arrive(r) \/ Approve(r)
  <2>1. exec' = exec
    BY <1>8 DEF Sweep, SweepLock, SweepLook, SweepRemove, RevokeDirectory, RevokeRows, Merge, Age,
                vars, Arrive, Approve
  <2> QED
    BY <1>3, <1>4, <2>1
<1> QED
  BY <1>5, <1>6, <1>7, <1>8 DEF Next, Execute, Working

LEMMA CommitStep ==
  ASSUME WorkspaceInv, CommitInv, [Next]_vars
  PROVE  CommitInv'
<1>1. TypeOK /\ BudgetInv /\ RunsInv /\ ApprovalInv
  BY DEF WorkspaceInv, CommitInv
<1>2. ApprovalInv'
  BY <1>1, ApprovalStep
<1>3. ASSUME Untouched("crashes")', Untouched("rollbacks")'
      PROVE  OwnInv'
  <2>1. OwnNext
    <3>1. OwnInv /\ ~Restart /\ ~Spend("rollbacks")
      BY <1>1, <1>3, NoFault DEF CommitInv
    <3> QED
      BY <1>1, <3>1, OwnStep
  <2>2. \A r \in Runs : Later(run[r], run'[r])
    BY <1>1, ApprovalsStay
  <2>3. Owned(dir.git.local)' /\ Owned(dir.git.tracking)' /\ Owned(remote)'
    <3>1. Owned(dir'.git.local) /\ Owned(dir'.git.tracking) /\ Owned(remote')
      BY <2>1 DEF OwnNext, CopyInv, Kept
    <3>2. ASSUME NEW c, OwnChain(c) PROVE OwnChain(c)'
      BY <2>2, <3>2 DEF OwnChain, Later
    <3> QED
      BY <3>1, <3>2 DEF Owned
  <2>4. Kept(dir.git)'
    BY <2>3 DEF Kept
  <2> QED
    BY <2>1, <2>3, <2>4 DEF OwnInv, OwnNext, CopyInv, IsClone
<1> QED
  BY <1>2, <1>3 DEF CommitInv

LEMMA CommitInit == Init => CommitInv
<1> SUFFICES ASSUME Init PROVE CommitInv
  OBVIOUS
<1>1. ApprovalInv
  BY DEF Init, NoRow, Idle, ApprovalInv, Committing
<1>2. OwnInv
  BY NothingKept DEF Init, Idle, OwnInv, CopyInv, NoDirectory, IsClone
<1> QED
  BY <1>1, <1>2 DEF CommitInv

\* What stands on a branch of the clone or on GitHub is made of commits that each
\* hold one approved run's own documents: neither another run's files in the shared
\* working copy nor those of an attempt that failed get into them, as long as no
\* process dies and no rollback fails.
THEOREM CommitsHoldOneRunsWork == Spec => []CommitsAreOwn
<1>1. CommitInv => CommitsAreOwn
  <2> SUFFICES ASSUME CommitInv, Untouched("crashes"), Untouched("rollbacks"), NEW b \in Branch,
                      NEW c \in dir.git.local[b] \cup remote[b]
               PROVE  \A i \in 1..Len(c) : \E r \in Runs : \A p \in Paths :
                        LET before == IF i = 1 THEN Nobody ELSE c[i - 1][p] IN
                          c[i][p] # before => c[i][p] = r /\ p \in Docs[r] /\ run[r].approved
    BY DEF CommitsAreOwn
  <2>1. OwnChain(c)
    BY DEF CommitInv, OwnInv, CopyInv, Kept, Owned
  <2> QED
    BY <2>1 DEF OwnChain
<1>2. WorkspaceInv /\ CommitInv /\ [Next]_vars => CommitInv'
  BY CommitStep
<1> QED
  BY <1>1, <1>2, CommitInit, WorkspaceIsInvariant, PTL DEF Spec

-----------------------------------------------------------------------------
(* The repository lock.  What the workspace takes for granted of it, that executor and
   sweep exclude each other, is proved here of RepositoryLock, for any clients and
   repositories: while there are two clients it holds, and with more no waiter is lost.
   That waiters get in is liveness and left to TLC. *)

USE LockAssumption

\* What a client holds of the lock in each place of acquireLock.
Placed ==
  \A c \in Clients :
    /\ place[c] # "idle" <=> at[c] \in Repositories
    /\ place[c] \in {"waiting", "woken"} <=> on[c] \in Clients
    /\ on[c] # c

\* An entry of the map belongs to a client that is inside.
EntryIsHeld ==
  \A r \in Repositories : locks[r] \in Clients =>
    place[locks[r]] = "holding" /\ at[locks[r]] = r

LockInvariant == LockTypes /\ Placed /\ EntryIsHeld /\ NoWaiterIsStranded

-----------------------------------------------------------------------------
\* The empty map is a good start.
LEMMA LockStarts == LockInit => LockInvariant
BY DEF LockInit, LockInvariant, LockTypes, Placed, EntryIsHeld, NoWaiterIsStranded

\* Entering fills an entry that was free, so it disturbs no waiter.
LEMMA EnterStep ==
  ASSUME LockInvariant, NEW c \in Clients, NEW r \in Repositories, Enter(c, r)
  PROVE  LockInvariant'
<1>1. LockTypes'
  BY DEF LockInvariant, LockTypes, Enter
<1>2. Placed'
  BY DEF LockInvariant, LockTypes, Placed, Enter, Quiet
<1>3. EntryIsHeld'
  BY DEF LockInvariant, LockTypes, EntryIsHeld, Enter
<1>4. NoWaiterIsStranded'
  BY DEF LockInvariant, LockTypes, Placed, NoWaiterIsStranded, Enter
<1> QED BY <1>1, <1>2, <1>3, <1>4 DEF LockInvariant

\* Whoever starts to wait found an entry, and entries are held.
LEMMA WaitStep ==
  ASSUME LockInvariant, NEW c \in Clients, NEW r \in Repositories, Wait(c, r)
  PROVE  LockInvariant'
<1>1. LockTypes'
  BY DEF LockInvariant, LockTypes, Wait
<1>2. locks[r] \in Clients /\ place[locks[r]] = "holding" /\ at[locks[r]] = r /\ locks[r] # c
  BY DEF LockInvariant, LockTypes, EntryIsHeld, Wait
<1>3. Placed'
  BY <1>2 DEF LockInvariant, LockTypes, Placed, Wait
<1>4. EntryIsHeld'
  BY DEF LockInvariant, LockTypes, EntryIsHeld, Wait
<1>5. NoWaiterIsStranded'
  BY <1>2 DEF LockInvariant, LockTypes, NoWaiterIsStranded, Wait
<1> QED BY <1>1, <1>3, <1>4, <1>5 DEF LockInvariant

\* A woken waiter overwrites the entry, but only with itself.
LEMMA WakeStep ==
  ASSUME LockInvariant, NEW c \in Clients, Wake(c)
  PROVE  LockInvariant'
<1>0. at[c] \in Repositories /\ on[c] \in Clients
  BY DEF LockInvariant, Placed, Wake
<1>1. LockTypes'
  BY <1>0 DEF LockInvariant, LockTypes, Wake
<1>2. Placed'
  BY <1>0 DEF LockInvariant, LockTypes, Placed, Wake
<1>3. EntryIsHeld'
  BY <1>0 DEF LockInvariant, LockTypes, EntryIsHeld, Wake
<1>4. NoWaiterIsStranded'
  BY <1>0 DEF LockInvariant, LockTypes, NoWaiterIsStranded, Wake
<1> QED BY <1>1, <1>2, <1>3, <1>4 DEF LockInvariant

\* Letting go wakes every waiter that waited for this client, and no other.
LEMMA ReleaseStep ==
  ASSUME LockInvariant, NEW c \in Clients, Release(c)
  PROVE  LockInvariant'
<1>0. at[c] \in Repositories /\ on[c] \notin Clients
  BY DEF LockInvariant, Placed, Release
<1>1. LockTypes'
  BY <1>0 DEF LockInvariant, LockTypes, Release
<1>2. Placed'
  BY <1>0 DEF LockInvariant, LockTypes, Placed, Release
<1>3. EntryIsHeld'
  BY <1>0 DEF LockInvariant, LockTypes, Placed, EntryIsHeld, Release
<1>4. NoWaiterIsStranded'
  BY <1>0 DEF LockInvariant, LockTypes, Placed, NoWaiterIsStranded, Release
<1> QED BY <1>1, <1>2, <1>3, <1>4 DEF LockInvariant

\* Every step of the lock, and none, keeps the invariant.
LEMMA LockStep == LockInvariant /\ [LockNext]_lockVars => LockInvariant'
<1> SUFFICES ASSUME LockInvariant, [LockNext]_lockVars PROVE LockInvariant'
  OBVIOUS
<1>1. CASE UNCHANGED lockVars
  BY <1>1 DEF lockVars, LockInvariant, LockTypes, Placed, EntryIsHeld, NoWaiterIsStranded
<1>2. ASSUME NEW c \in Clients, NEW r \in Repositories, Enter(c, r) PROVE LockInvariant'
  BY <1>2, EnterStep
<1>3. ASSUME NEW c \in Clients, NEW r \in Repositories, Wait(c, r) PROVE LockInvariant'
  BY <1>3, WaitStep
<1>4. ASSUME NEW c \in Clients, Wake(c) PROVE LockInvariant'
  BY <1>4, WakeStep
<1>5. ASSUME NEW c \in Clients, Release(c) PROVE LockInvariant'
  BY <1>5, ReleaseStep
<1> QED BY <1>1, <1>2, <1>3, <1>4, <1>5 DEF LockNext

\* No waiter of acquireLock is stranded, however many clients there are and
\* however often they overwrite and delete the entries of each other.
THEOREM WaitersAreServed == LockSpec => []NoWaiterIsStranded
<1>1. LockInit => LockInvariant
  BY LockStarts
<1>2. LockInvariant /\ [LockNext]_lockVars => LockInvariant'
  BY LockStep
<1>3. LockInvariant => NoWaiterIsStranded
  BY DEF LockInvariant
<1> QED BY <1>1, <1>2, <1>3, PTL DEF LockSpec

-----------------------------------------------------------------------------
AtMostTwo == \A a, b, c \in Clients : a = b \/ b = c \/ a = c

\* Between two clients: while one is woken or inside, the other is neither
\* inside the same repository nor about to be.
Paired ==
  \A c, d \in Clients :
    place[c] \in {"woken", "holding"} /\ place[d] \in {"woken", "holding"} /\ at[c] = at[d] => c = d

\* A client inside is named by the entry of its repository.
HolderIsEntered ==
  \A c \in Clients : place[c] = "holding" => locks[at[c]] = c

PairInvariant == LockInvariant /\ Paired /\ HolderIsEntered

\* Two clients keep out of each other's way in every step.
LEMMA PairStep ==
  ASSUME AtMostTwo PROVE PairInvariant /\ [LockNext]_lockVars => PairInvariant'
<1> SUFFICES ASSUME PairInvariant, [LockNext]_lockVars PROVE PairInvariant'
  OBVIOUS
<1>0. LockInvariant'
  BY LockStep DEF PairInvariant
<1> USE <1>0 DEF PairInvariant, LockInvariant
<1>1. CASE UNCHANGED lockVars
  BY <1>1 DEF lockVars, Paired, HolderIsEntered
<1>2. ASSUME NEW c \in Clients, NEW r \in Repositories, Enter(c, r) PROVE PairInvariant'
  <2>1. \A d \in Clients : place[d] # "woken"
    <3> SUFFICES ASSUME NEW d \in Clients, place[d] = "woken" PROVE FALSE
      OBVIOUS
    <3>1. on[d] \in Clients /\ on[d] # d /\ d # c
      BY <1>2 DEF Placed, Enter
    <3>2. on[d] = c
      BY <3>1 DEF AtMostTwo
    <3> QED BY <1>2, <3>2 DEF Enter, Quiet
  <2>2. Paired'
    BY <1>2, <2>1 DEF LockTypes, Placed, Paired, HolderIsEntered, Enter
  <2>3. HolderIsEntered'
    BY <1>2 DEF LockTypes, Placed, HolderIsEntered, Enter
  <2> QED BY <2>2, <2>3
<1>3. ASSUME NEW c \in Clients, NEW r \in Repositories, Wait(c, r) PROVE PairInvariant'
  BY <1>3 DEF LockTypes, Paired, HolderIsEntered, Wait
<1>4. ASSUME NEW c \in Clients, Wake(c) PROVE PairInvariant'
  <2>1. Paired'
    BY <1>4 DEF LockTypes, Paired, Wake
  <2>2. HolderIsEntered'
    BY <1>4 DEF LockTypes, Placed, Paired, HolderIsEntered, Wake
  <2> QED BY <2>1, <2>2
<1>5. ASSUME NEW c \in Clients, Release(c) PROVE PairInvariant'
  <2>1. Paired'
    <3> SUFFICES ASSUME NEW d \in Clients, NEW e \in Clients,
                        place'[d] \in {"woken", "holding"}, place'[e] \in {"woken", "holding"}
                 PROVE  d = e
      BY DEF Paired
    <3>1. d # c /\ e # c
      BY <1>5 DEF LockTypes, Release
    <3> QED BY <3>1 DEF AtMostTwo
  <2>2. HolderIsEntered'
    BY <1>5 DEF LockTypes, Placed, Paired, HolderIsEntered, Release
  <2> QED BY <2>1, <2>2
<1> QED BY <1>1, <1>2, <1>3, <1>4, <1>5 DEF LockNext

\* With at most two clients, the lock excludes.
THEOREM TwoClientsExclude == AtMostTwo => (LockSpec => []MutualExclusion)
<1> SUFFICES ASSUME AtMostTwo PROVE LockSpec => []MutualExclusion
  OBVIOUS
<1>1. LockInit => PairInvariant
  BY LockStarts DEF LockInit, PairInvariant, Paired, HolderIsEntered
<1>2. PairInvariant /\ [LockNext]_lockVars => PairInvariant'
  BY PairStep
<1>3. PairInvariant => MutualExclusion
  BY DEF PairInvariant, Paired, MutualExclusion
<1> QED BY <1>1, <1>2, <1>3, PTL DEF LockSpec
=============================================================================
