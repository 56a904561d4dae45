------------------------ MODULE PublicationWorkspace ------------------------
(***************************************************************************)
(* The runs of one repository and the directory they share on disk: clone, *)
(* publication (git-commit.node.ts, push-branch.node.ts and                *)
(* git-operations.service.ts, one step per git operation), rollback, and   *)
(* the three that remove the directory: the end of an execution, the sweep *)
(* at bootstrap and the revocation of access.                              *)
(*                                                                         *)
(* One worker executes one job at a time, as one backend process does.     *)
(* What a run does before its review is one action.  The repository lock   *)
(* has two clients here, executor and sweep, and is taken to exclude:      *)
(* TwoClientsExclude in PublicationWorkspaceProofs.                        *)
(***************************************************************************)
EXTENDS GitRepository, FiniteSets

CONSTANTS
  Docs,         \* the files that each run's documents go to
  Target,       \* the repository's documentationBranchName
  NoRun,
  MaxAttempts,  \* QUEUE_MAX_RETRIES
  InitialBudget \* bounds on faults and on what others do, by kind and in all

Runs == Authors
Events == {"failures", "rollbacks", "crashes", "merges", "ages", "revocations", "total"}

ASSUME WorkspaceAssumption ==
  /\ Docs \in [Runs -> (SUBSET Paths) \ {{}}]
  /\ Target \in Branch \ {Default}
  /\ NoRun \notin Runs
  /\ MaxAttempts \in Nat \ {0}
  /\ InitialBudget \in [Events -> Nat]

VARIABLES
  dir,     \* the directory of the repository
  remote,  \* the branches on GitHub
  run,     \* the WorkflowRun rows and their jobs
  exec,    \* what the executor holds in memory
  sweep,   \* cleanupExpiredWorkspaces
  lock,    \* holder of the repository lock
  stale,   \* no run was updated within the retention period
  budget

vars == <<dir, remote, run, exec, sweep, lock, stale, budget>>

RunStatus == {"NONE", "QUEUED", "RUNNING", "WAITING_FOR_REVIEW", "COMPLETED", "FAILED", "DELETED"}
Active == {"QUEUED", "RUNNING", "WAITING_FOR_REVIEW"}
PC == {"idle", "open", "clone", "ready", "write", "checkout", "pull", "pullNew", "add",
       "commit", "checkpoint", "origin", "token", "push", "switch", "reset", "delete",
       "restore", "propose", "fail", "cleanup", "remove"}
\* While the executor is at one of these, pushBranch is under way.
Pushing == {"token", "push", "switch", "reset", "delete", "restore"}

RunRow == [status : RunStatus, mode : {"start", "resume"}, job : BOOLEAN, attempts : 0..MaxAttempts,
           approved : BOOLEAN, committed : BOOLEAN]
\* debris is a directory without .git in it.
Directory == [kind : {"absent", "debris", "clone"}, git : WorkingCopy, url : {"plain", "token"}]
Executor == [pc : PC, run : Runs \cup {NoRun}, origin : {"plain", "token"}, failed : BOOLEAN,
             pushing : BOOLEAN]
Idle == [pc |-> "idle", run |-> NoRun, origin |-> "plain", failed |-> FALSE, pushing |-> FALSE]
NewGitHub == [b \in Branch |-> IF b = Default THEN {<<>>} ELSE {}]
NoDirectory == [kind |-> "absent", git |-> Cloned(NewGitHub), url |-> "plain"]

TypeOK ==
  /\ dir \in Directory
  /\ remote \in [Branch -> SUBSET Chain]
  /\ run \in [Runs -> RunRow]
  /\ exec \in Executor
  /\ sweep \in {"done", "waiting", "looking", "removing"}
  /\ lock \in {"free", "exec", "sweep"}
  /\ stale \in BOOLEAN
  /\ budget \in [Events -> Nat]

NoRow == [status |-> "NONE", mode |-> "start", job |-> FALSE, attempts |-> 0,
          approved |-> FALSE, committed |-> FALSE]

Init ==
  /\ dir = NoDirectory
  /\ remote = NewGitHub
  /\ run = [r \in Runs |-> NoRow]
  /\ exec = Idle
  /\ sweep = "waiting"
  /\ lock = "free"
  /\ stale = FALSE
  /\ budget = InitialBudget

-----------------------------------------------------------------------------
At(pc) == exec.pc = pc
Goto(pc) == exec' = [exec EXCEPT !.pc = pc]
Spend(event) ==
  /\ budget[event] > 0 /\ budget["total"] > 0
  /\ budget' = [budget EXCEPT ![event] = @ - 1, !["total"] = @ - 1]
Current == exec.run
IsClone == dir.kind = "clone"
Git(g) == dir' = [dir EXCEPT !.git = g]
NoOtherChange == UNCHANGED <<remote, run, sweep, lock, stale>>
\* A row is written: its updatedAt is now.
Write(r, row) == run' = [run EXCEPT ![r] = row] /\ stale' = FALSE

\* An operation throws: where it cannot succeed it always does, otherwise at the
\* cost of a fault.
Throws(possible) == IF possible THEN Spend("failures") ELSE UNCHANGED budget

\* The same within a rollback.
ThrowsAgain(possible) == IF possible THEN Spend("rollbacks") ELSE UNCHANGED budget

\* What catches it: commitChanges and pushBranch roll back, everything else
\* leaves the node.
ToRollback == exec' = [exec EXCEPT !.pc = "switch", !.failed = TRUE]
ToFailure == exec' = [exec EXCEPT !.pc = "fail", !.failed = TRUE]

-----------------------------------------------------------------------------
(* Taking a job and opening the workspace. *)

\* The webhook queues a run for a push to the repository.
Arrive(r) ==
  /\ run[r].status = "NONE"
  /\ Write(r, [NoRow EXCEPT !.status = "QUEUED", !.job = TRUE])
  /\ UNCHANGED <<dir, remote, exec, sweep, lock, budget>>

Take(r) ==
  /\ At("idle") /\ run[r].job
  /\ exec' = [Idle EXCEPT !.pc = "open", !.run = r]
  /\ IF run[r].mode = "start"
     THEN Write(r, [run[r] EXCEPT !.job = FALSE, !.status = "RUNNING"])
     ELSE run' = [run EXCEPT ![r].job = FALSE] /\ UNCHANGED stale
  /\ UNCHANGED <<dir, remote, sweep, lock, budget>>

\* workspaceExists, asked without the lock; a resumed run then sets its status.
Open ==
  LET r == Current IN
  /\ At("open")
  /\ Goto(IF IsClone THEN "ready" ELSE "clone")
  /\ UNCHANGED <<dir, budget>> /\ NoOtherChange

\* cloneRepository, under the lock; git refuses to clone into debris.
Clone ==
  /\ At("clone") /\ lock = "free"
  /\ \/ /\ dir.kind = "absent"
        /\ dir' = [kind |-> "clone", git |-> Cloned(remote), url |-> "plain"]
        /\ Goto("ready") /\ UNCHANGED budget
     \/ Throws(dir.kind = "absent") /\ ToFailure /\ UNCHANGED dir
  /\ NoOtherChange

\* A run analyses the clone, generates its documents and waits for its reviewer;
\* an approved one goes on to what its checkpoint lacks.
Analyse ==
  LET r == Current IN
  /\ At("ready") /\ ~run[r].approved /\ run[r].status # "DELETED"
  /\ Write(r, [run[r] EXCEPT !.status = "WAITING_FOR_REVIEW"])
  /\ exec' = Idle
  /\ UNCHANGED <<dir, remote, sweep, lock, budget>>

Proceed ==
  LET r == Current IN
  /\ At("ready") /\ run[r].approved /\ run[r].status # "DELETED"
  /\ Write(r, [run[r] EXCEPT !.status = "RUNNING"])
  /\ Goto(IF run[r].committed THEN "origin" ELSE "write")
  /\ UNCHANGED <<dir, remote, sweep, lock, budget>>

Approve(r) ==
  /\ run[r].status = "WAITING_FOR_REVIEW" /\ ~run[r].approved
  /\ run' = [run EXCEPT ![r].approved = TRUE, ![r].job = TRUE, ![r].mode = "resume",
                       ![r].attempts = 0]
  /\ UNCHANGED <<dir, remote, exec, sweep, lock, stale, budget>>

-----------------------------------------------------------------------------
(* GitCommitNode: writeDocuments, then commitChanges. *)

Copied(g, r, files) == [g EXCEPT !.work = [p \in Paths |-> IF p \in files THEN r ELSE @[p]]]

\* The directories are created where they are missing.  A copy that fails leaves
\* behind the files copied before it.
WriteDocuments ==
  LET r == Current IN
  /\ At("write")
  /\ \/ Goto("checkout") /\ UNCHANGED budget
        /\ dir' = IF IsClone THEN [dir EXCEPT !.git = Copied(@, r, Docs[r])]
                  ELSE [dir EXCEPT !.kind = "debris"]
     \/ Spend("failures") /\ ToFailure
        /\ dir' \in IF IsClone THEN {[dir EXCEPT !.git = Copied(@, r, files)] : files \in SUBSET Docs[r]}
                    ELSE {dir, [dir EXCEPT !.kind = "debris"]}
  /\ NoOtherChange

\* An existing branch, local or remote, is checked out.  A checkout that fails
\* is an error for a local branch and means a new branch otherwise.
Checkout ==
  LET g == dir.git
      local == g.local[Target] # {} IN
  /\ At("checkout")
  /\ \/ /\ IsClone /\ CanCheckout(g, Target)
        /\ Git(CheckedOut(g, Target)) /\ UNCHANGED budget
        /\ Goto(IF local THEN "pull" ELSE "pullNew")
     \/ /\ IsClone /\ ~local /\ Throws(CanCheckout(g, Target))
        /\ Git(Branched(g, Target)) /\ Goto("add")
     \/ /\ ~IsClone \/ local
        /\ Throws(IsClone /\ CanCheckout(g, Target))
        /\ ToRollback /\ UNCHANGED dir
  /\ NoOtherChange

\* The pull after checking out a local branch may fail; after checking out a
\* remote one the handler tries to create the branch, which by now exists.
Pull ==
  LET possible == IsClone /\ CanPull(dir.git, remote) IN
  /\ At("pull") \/ At("pullNew")
  /\ \/ possible /\ Git(Pulled(dir.git, remote)) /\ Goto("add") /\ UNCHANGED budget
     \/ /\ Throws(possible) /\ UNCHANGED dir
        /\ IF At("pull") THEN Goto("add") ELSE ToRollback
  /\ NoOtherChange

\* Mutant: everything in the working tree is staged.
AddEverything ==
  /\ At("add")
  /\ \/ IsClone /\ Git(Added(dir.git, Paths)) /\ Goto("commit") /\ UNCHANGED budget
     \/ Throws(IsClone) /\ ToRollback /\ UNCHANGED dir
  /\ NoOtherChange

\* The safety checks and the staging of the files that were written.
Add ==
  /\ At("add")
  /\ \/ IsClone /\ Git(Added(dir.git, Docs[Current])) /\ Goto("commit") /\ UNCHANGED budget
     \/ Throws(IsClone) /\ ToRollback /\ UNCHANGED dir
  /\ NoOtherChange

Commit ==
  /\ At("commit")
  /\ \/ /\ IsClone /\ Goto("checkpoint") /\ UNCHANGED budget
        /\ Git(IF NothingStaged(dir.git) THEN dir.git ELSE CommittedIndex(dir.git))
     \/ Throws(IsClone) /\ ToRollback /\ UNCHANGED dir
  /\ NoOtherChange

\* The checkpoint with commitSha; the rows of a revoked repository are gone.
Checkpoint ==
  LET r == Current IN
  /\ At("checkpoint")
  /\ IF run[r].status = "DELETED" THEN ToFailure /\ UNCHANGED <<run, stale>>
     ELSE Write(r, [run[r] EXCEPT !.committed = TRUE]) /\ Goto("origin")
  /\ UNCHANGED <<dir, remote, sweep, lock, budget>>

-----------------------------------------------------------------------------
(* PushBranchNode: pushBranch. *)

\* Mutant: the URL to go back to is looked up after it was replaced.
ReadOriginLate ==
  /\ At("origin")
  /\ \/ /\ IsClone /\ UNCHANGED budget
        /\ exec' = [exec EXCEPT !.pc = "token", !.origin = "token", !.pushing = TRUE]
     \/ Throws(IsClone) /\ ToFailure
  /\ UNCHANGED dir /\ NoOtherChange

\* The origin URL is remembered and an access token asked for; both fail without
\* a rollback.
ReadOrigin ==
  /\ At("origin")
  /\ \/ /\ IsClone /\ UNCHANGED budget
        /\ exec' = [exec EXCEPT !.pc = "token", !.origin = dir.url, !.pushing = TRUE]
     \/ Throws(IsClone) /\ ToFailure
  /\ UNCHANGED dir /\ NoOtherChange

SetToken ==
  /\ At("token")
  /\ \/ IsClone /\ dir' = [dir EXCEPT !.url = "token"] /\ Goto("push") /\ UNCHANGED budget
     \/ Throws(IsClone) /\ ToRollback /\ UNCHANGED dir
  /\ NoOtherChange

Push ==
  LET g == dir.git
      possible == IsClone /\ CanPush(g, Target, remote) IN
  /\ At("push")
  /\ \/ /\ possible /\ UNCHANGED budget
        /\ remote' = [remote EXCEPT ![Target] = g.local[Target]]
        /\ Git(Pushed(g, Target)) /\ Goto("restore")
     \/ Throws(possible) /\ ToRollback /\ UNCHANGED <<dir, remote>>
  /\ UNCHANGED <<run, sweep, lock, stale>>

\* The finally block; where the directory is gone this fails, and is logged.
RestoreOrigin ==
  /\ At("restore")
  /\ dir' = IF IsClone THEN [dir EXCEPT !.url = exec.origin] ELSE dir
  /\ exec' = [exec EXCEPT !.pc = IF exec.failed THEN "fail" ELSE "propose", !.pushing = FALSE]
  /\ UNCHANGED budget /\ NoOtherChange

-----------------------------------------------------------------------------
(* rollback: errors end it early and are swallowed. *)

AfterRollback == IF exec.pushing THEN "restore" ELSE "fail"

\* Away from the target branch, if it is checked out; errors of this step do not
\* end the rollback.
RollbackSwitch ==
  LET g == dir.git
      possible == IsClone /\ (g.head = Target => CanCheckout(g, Default)) IN
  /\ At("switch")
  /\ \/ /\ possible /\ UNCHANGED budget
        /\ Git(IF g.head = Target THEN CheckedOut(g, Default) ELSE g)
     \/ ThrowsAgain(possible) /\ UNCHANGED dir
  /\ Goto("reset") /\ NoOtherChange

RollbackReset ==
  /\ At("reset")
  /\ \/ IsClone /\ Git(Cleaned(Reset(dir.git))) /\ Goto("delete") /\ UNCHANGED budget
     \/ ThrowsAgain(IsClone) /\ Goto(AfterRollback)
        /\ \/ UNCHANGED dir
           \/ IsClone /\ Git(Reset(dir.git))
  /\ NoOtherChange

RollbackDelete ==
  LET g == dir.git
      possible == IsClone /\ (g.local[Target] # {} => CanDelete(g, Target)) IN
  /\ At("delete")
  /\ \/ /\ possible /\ UNCHANGED budget
        /\ Git(IF g.local[Target] # {} THEN Deleted(g, Target) ELSE g)
     \/ ThrowsAgain(possible) /\ UNCHANGED dir
  /\ Goto(AfterRollback) /\ NoOtherChange

-----------------------------------------------------------------------------
(* The end of an execution. *)

\* A pull request needs a branch that has something the default branch lacks.
Propose ==
  LET r == Current
      possible == remote[Target] # {} /\ ~Extends(ChainOf(remote, Default), ChainOf(remote, Target))
  IN
  /\ At("propose")
  /\ \/ /\ possible /\ run[r].status # "DELETED" /\ UNCHANGED budget
        /\ Write(r, [run[r] EXCEPT !.status = "COMPLETED"]) /\ Goto("cleanup")
     \/ /\ Throws(possible /\ run[r].status # "DELETED")
        /\ ToFailure /\ UNCHANGED <<run, stale>>
  /\ UNCHANGED <<dir, remote, sweep, lock>>

\* Mutant: one attempt too many.
FailOnceMore(permanent) ==
  LET r == Current
      again == ~permanent /\ run[r].attempts < MaxAttempts IN
  /\ At("fail") \/ (At("ready") /\ run[r].status = "DELETED")
  /\ IF run[r].status = "DELETED" THEN UNCHANGED <<run, stale>>
     ELSE Write(r, [run[r] EXCEPT !.status = "FAILED", !.job = again, !.mode = "resume",
                                  !.attempts = @ + 1])
  /\ exec' = IF permanent THEN [exec EXCEPT !.pc = "cleanup"] ELSE Idle
  /\ UNCHANGED <<dir, remote, sweep, lock, budget>>

\* A transient failure is tried again while attempts are left, a permanent one
\* ends the run; nothing is written to rows that are gone.
Fail(permanent) ==
  LET r == Current
      again == ~permanent /\ run[r].attempts + 1 < MaxAttempts IN
  /\ At("fail") \/ (At("ready") /\ run[r].status = "DELETED")
  /\ IF run[r].status = "DELETED" THEN UNCHANGED <<run, stale>>
     ELSE Write(r, [run[r] EXCEPT !.status = "FAILED", !.job = again, !.mode = "resume",
                                  !.attempts = @ + 1])
  /\ exec' = IF permanent THEN [exec EXCEPT !.pc = "cleanup"] ELSE Idle
  /\ UNCHANGED <<dir, remote, sweep, lock, budget>>

\* Mutant: only runs that execute keep the workspace.
ShouldCleanupUnlessRunning ==
  /\ At("cleanup")
  /\ IF \E r \in Runs : run[r].status = "RUNNING" THEN exec' = Idle ELSE Goto("remove")
  /\ UNCHANGED <<dir, budget>> /\ NoOtherChange

\* shouldCleanup is asked before the lock is taken.
ShouldCleanup ==
  /\ At("cleanup")
  /\ IF \E r \in Runs : run[r].status \in Active THEN exec' = Idle ELSE Goto("remove")
  /\ UNCHANGED <<dir, budget>> /\ NoOtherChange

DeleteWorkspace ==
  /\ At("remove") /\ lock = "free"
  /\ dir' = NoDirectory /\ exec' = Idle
  /\ UNCHANGED budget /\ NoOtherChange

-----------------------------------------------------------------------------
(* cleanupExpiredWorkspaces, at every bootstrap. *)

SweepLock ==
  /\ sweep = "waiting" /\ lock = "free"
  /\ IF dir.kind = "absent" THEN sweep' = "done" /\ UNCHANGED lock
     ELSE sweep' = "looking" /\ lock' = "sweep"
  /\ UNCHANGED <<dir, remote, run, exec, stale, budget>>

\* The rows are read: no run, or none updated within the retention period.
SweepLook ==
  /\ sweep = "looking"
  /\ IF stale \/ \A r \in Runs : run[r].status \in {"NONE", "DELETED"}
     THEN sweep' = "removing" /\ UNCHANGED lock
     ELSE sweep' = "done" /\ lock' = "free"
  /\ UNCHANGED <<dir, remote, run, exec, stale, budget>>

SweepRemove ==
  /\ sweep = "removing"
  /\ dir' = NoDirectory /\ sweep' = "done" /\ lock' = "free"
  /\ UNCHANGED <<remote, run, exec, stale, budget>>

-----------------------------------------------------------------------------
(* What others do, and faults. *)

\* cleanupRepository: the directory, without the lock, then the rows.
RevokeDirectory ==
  /\ Spend("revocations")
  /\ dir' = NoDirectory
  /\ UNCHANGED <<remote, run, exec, sweep, lock, stale>>
RevokeRows ==
  /\ InitialBudget["revocations"] > budget["revocations"]
  /\ \E r \in Runs : run[r].status # "DELETED"
  /\ run' = [r \in Runs |-> [run[r] EXCEPT !.status = "DELETED", !.job = FALSE]]
  /\ UNCHANGED <<dir, remote, exec, sweep, lock, stale, budget>>

\* The pull request is merged on GitHub and its branch may be deleted.
Merge ==
  /\ Spend("merges")
  /\ remote[Target] # {} /\ Extends(ChainOf(remote, Target), ChainOf(remote, Default))
  /\ \E kept \in {{}, remote[Target]} :
       remote' = [remote EXCEPT ![Default] = remote[Target], ![Target] = kept]
  /\ UNCHANGED <<dir, run, exec, sweep, lock, stale>>

\* The retention period passes while nothing is executed.
Age ==
  /\ Spend("ages") /\ At("idle")
  /\ stale' = TRUE
  /\ UNCHANGED <<dir, remote, run, exec, sweep, lock>>

\* The process stops and starts again; the job it had is delivered again.
Restart ==
  /\ Spend("crashes")
  /\ run' = IF At("idle") \/ At("cleanup") \/ At("remove") \/ run[Current].status = "DELETED" THEN run
            ELSE [run EXCEPT ![Current].job = TRUE]
  /\ exec' = Idle /\ sweep' = "waiting" /\ lock' = "free"
  /\ UNCHANGED <<dir, remote, stale>>

-----------------------------------------------------------------------------
Execute ==
  \/ Open \/ Clone \/ Analyse \/ Proceed
  \/ WriteDocuments \/ Checkout \/ Pull \/ Add \/ Commit \/ Checkpoint
  \/ ReadOrigin \/ SetToken \/ Push \/ RestoreOrigin
  \/ RollbackSwitch \/ RollbackReset \/ RollbackDelete
  \/ Propose \/ ShouldCleanup \/ DeleteWorkspace
  \/ \E permanent \in BOOLEAN : Fail(permanent)

Sweep == SweepLock \/ SweepLook \/ SweepRemove

Next ==
  \/ Execute \/ Sweep
  \/ \E r \in Runs : Arrive(r) \/ Take(r) \/ Approve(r)
  \/ RevokeDirectory \/ RevokeRows \/ Merge \/ Age \/ Restart

Spec == Init /\ [][Next]_vars

-----------------------------------------------------------------------------
Untouched(event) == budget[event] = InitialBudget[event]

\* What reached GitHub stays: a push only moves the documentation branch forward,
\* whatever the working copy went through, and a branch that is deleted has been
\* merged.
RemoteHistoryKept ==
  [][\A b \in Branch : remote[b] # {} =>
       Extends(ChainOf(remote', IF remote'[b] = {} THEN Default ELSE b), ChainOf(remote, b))]_vars

\* A commit changes the files of one run only, to what that run wrote, however
\* many runs left files in the shared working tree before; only a process that
\* died or a rollback that failed may have left some staged.
CommitsAreOwn ==
  Untouched("crashes") /\ Untouched("rollbacks") =>
    \A b \in Branch : \A c \in dir.git.local[b] \cup remote[b] : \A i \in 1..Len(c) :
      \E r \in Runs : \A p \in Paths :
        LET before == IF i = 1 THEN Nobody ELSE c[i - 1][p] IN
          c[i][p] # before => c[i][p] = r /\ p \in Docs[r] /\ run[r].approved

\* The origin URL carries a token only while a push is under way, unless the
\* process died during one.
OriginIsPlain ==
  Untouched("crashes") /\ exec.pc \notin Pushing => dir.url = "plain"

\* Terminal cleanup never takes the directory from a run that is executed or
\* waits for its reviewer: between runs it stays while anyone still needs it.
WorkspaceIsKept ==
  [][dir.kind = "clone" /\ dir'.kind = "absent" /\ At("remove")
       => \A r \in Runs : run[r].status \notin {"RUNNING", "WAITING_FOR_REVIEW"}]_vars
=============================================================================
