--------------------------- MODULE GitRepository ---------------------------
(***************************************************************************)
(* A working copy and the git operations that doc-pulse performs on it:    *)
(* IGitProvider as simple-git.provider.ts implements it.  A commit is its  *)
(* tree, a branch the sequence of the commits made on it since the clone's *)
(* default branch began; a tree says of every documentation path which run *)
(* wrote it.  Each operation is a guard (it throws when the guard is       *)
(* false) and the working copy it leaves behind.                           *)
(***************************************************************************)
EXTENDS Naturals, Sequences

CONSTANTS
  Paths,    \* documentation files
  Authors,  \* the runs that may write them
  Branch,   \* branch names
  Default,  \* the repository's default branch
  Nobody    \* a file that does not exist, or that no run wrote

ASSUME GitAssumption ==
  /\ Default \in Branch
  /\ Nobody \notin Authors

Tree == [Paths -> Authors \cup {Nobody}]
Empty == [p \in Paths |-> Nobody]
Chain == Seq(Tree)

\* A branch is a set of at most one chain: {} where it does not exist.
WorkingCopy == [head : Branch, local : [Branch -> SUBSET Chain],
                tracking : [Branch -> SUBSET Chain], upstream : SUBSET Branch,
                index : Tree, work : Tree]

TipOf(c) == IF c = <<>> THEN Empty ELSE c[Len(c)]
ChainOf(refs, b) == CHOOSE c \in refs[b] : TRUE
Extends(c, d) == Len(d) <= Len(c) /\ SubSeq(c, 1, Len(d)) = d

HeadTree(g) == TipOf(ChainOf(g.local, g.head))

\* clone: the default branch, checked out; the others are known as remote ones.
Cloned(remote) ==
  [head |-> Default,
   local |-> [b \in Branch |-> IF b = Default THEN remote[b] ELSE {}],
   tracking |-> remote, upstream |-> {Default},
   index |-> TipOf(ChainOf(remote, Default)), work |-> TipOf(ChainOf(remote, Default))]

\* Files that differ between HEAD and the other tree are replaced, which git
\* refuses to do to a file with uncommitted changes; the rest is carried over.
CanSwitch(g, tree) ==
  \A p \in Paths : HeadTree(g)[p] # tree[p] =>
    g.work[p] = HeadTree(g)[p] /\ g.index[p] = HeadTree(g)[p]
SwitchedTo(g, b, refs) ==
  LET tree == TipOf(ChainOf(refs, b))
      Moved(files) == [p \in Paths |-> IF HeadTree(g)[p] = tree[p] THEN files[p] ELSE tree[p]]
  IN [g EXCEPT !.head = b, !.local = refs, !.work = Moved(g.work), !.index = Moved(g.index)]

\* checkout of a local branch, or of one that is only known as a remote branch,
\* which then becomes a local one that tracks it.
RefsAfterCheckout(g, b) ==
  IF g.local[b] # {} THEN g.local ELSE [g.local EXCEPT ![b] = g.tracking[b]]
CanCheckout(g, b) ==
  /\ RefsAfterCheckout(g, b)[b] # {}
  /\ b # g.head => CanSwitch(g, TipOf(ChainOf(RefsAfterCheckout(g, b), b)))
CheckedOut(g, b) ==
  IF b = g.head THEN g
  ELSE [SwitchedTo(g, b, RefsAfterCheckout(g, b)) EXCEPT
          !.upstream = IF g.local[b] = {} THEN @ \cup {b} ELSE @]

\* checkoutLocalBranch: git checkout -b.
Branched(g, b) == [g EXCEPT !.head = b, !.local[b] = g.local[g.head]]

\* pull of the branch checked out: only if it tracks a remote branch, and here
\* only forward: a diverged branch is refused, as are files in the way.
CanPull(g, remote) ==
  LET mine == ChainOf(g.local, g.head)
      theirs == ChainOf(remote, g.head) IN
  /\ g.head \in g.upstream /\ remote[g.head] # {}
  /\ \/ Extends(mine, theirs)
     \/ Extends(theirs, mine) /\ CanSwitch(g, TipOf(theirs))
Pulled(g, remote) ==
  LET fetched == [g EXCEPT !.tracking = remote] IN
  IF Extends(ChainOf(g.local, g.head), ChainOf(remote, g.head)) THEN fetched
  ELSE SwitchedTo(fetched, g.head, [g.local EXCEPT ![g.head] = remote[g.head]])

\* add of the named files, commit of the index.
Added(g, files) == [g EXCEPT !.index = [p \in Paths |-> IF p \in files THEN g.work[p] ELSE @[p]]]
NothingStaged(g) == g.index = HeadTree(g)
CommittedIndex(g) == [g EXCEPT !.local[g.head] = {Append(ChainOf(g.local, g.head), g.index)}]

\* Mutant: the branch is pushed with --force.
CanPushForced(g, b, remote) == g.local[b] # {}
\* push: refused unless the remote branch can be moved forward.
CanPush(g, b, remote) ==
  /\ g.local[b] # {}
  /\ remote[b] # {} => Extends(ChainOf(g.local, b), ChainOf(remote, b))
Pushed(g, b) == [g EXCEPT !.tracking[b] = g.local[b], !.upstream = @ \cup {b}]

\* reset --hard HEAD followed by clean -f -d.
Reset(g) == [g EXCEPT !.index = HeadTree(g),
                      !.work = [p \in Paths |-> IF g.index[p] = Nobody /\ HeadTree(g)[p] = Nobody
                                                THEN g.work[p] ELSE HeadTree(g)[p]]]
Cleaned(g) == [g EXCEPT !.work = [p \in Paths |-> IF g.index[p] = Nobody THEN Nobody ELSE g.work[p]]]

\* branch -D: not of the branch checked out.
CanDelete(g, b) == g.local[b] # {} /\ g.head # b
Deleted(g, b) == [g EXCEPT !.local[b] = {}, !.upstream = @ \ {b}]
=============================================================================
