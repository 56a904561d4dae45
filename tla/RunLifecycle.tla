---------------------------- MODULE RunLifecycle ----------------------------
(***************************************************************************)
(* The life of one workflow run: the WorkflowRun row with its checkpoint   *)
(* (workflow-checkpoint.repository.ts), the executor and its node wrapper  *)
(* (workflow-executor.service.ts, workflow-node-execution.wrapper.ts), the *)
(* BullMQ jobs that drive it (workflow.processor.ts), the human reviews    *)
(* (reviews.service.ts) and what it does to git and GitHub.                *)
(*                                                                         *)
(* One action is what happens between two awaits whose order another       *)
(* process can observe: a database write, a queue operation, or the        *)
(* business part of a node.  Faults are bounded by the variable budget.    *)
(***************************************************************************)
EXTENDS Pipeline, FiniteSets

CONSTANTS
  Workers,       \* worker processes; one per backend process (no concurrency option)
  Jobs,          \* identities of BullMQ jobs; bounds how many are ever enqueued
  Reviews,       \* identities of Review rows; bounds how many are ever created
  NoJob, NoReview, NoWorker,
  MaxAttempts,   \* QUEUE_MAX_RETRIES, the attempts option of a job
  MaxStalls,     \* BullMQ's maxStalledCount
  FailureKinds,  \* how a node's failure is classified: "transient", "permanent"
  InitialBudget  \* bounds on failures, stalls, rejections, evictions and drops

Faults == {"failures", "stalls", "rejections", "evictions", "drops"}

ASSUME LifecycleAssumption ==
  /\ NoJob \notin Jobs /\ NoReview \notin Reviews /\ NoWorker \notin Workers
  /\ Jobs # {}
  /\ MaxAttempts \in Nat \ {0}
  /\ MaxStalls \in Nat
  /\ FailureKinds \subseteq {"transient", "permanent"}
  /\ InitialBudget \in [Faults -> Nat]

VARIABLES
  run,      \* the WorkflowRun row
  reviews,  \* the Review rows of the run
  jobs,     \* the jobs of the workflow-execution queue
  dlq,      \* the jobs routed to the dead letter queue
  worker,   \* what each worker process holds in memory
  owed,     \* decided reviews whose resume job is not enqueued yet
  site,     \* the workspace, its local branch, the remote branch and the pull request
  written,  \* how many generations of documents the writer has produced
  budget

vars == <<run, reviews, jobs, dlq, worker, owed, site, written, budget>>

Snapshot == [node : Node \cup {"NONE"}, state : GraphState]
RunStatus == {"QUEUED", "RUNNING", "CHECKPOINTED", "WAITING_FOR_REVIEW",
              "COMPLETED", "FAILED"}
\* WorkspaceLifecycleService.shouldCleanup and its list of active statuses.
Active == {"QUEUED", "RUNNING", "CHECKPOINTED", "WAITING_FOR_REVIEW"}

NoSnapshot == [node |-> "NONE", state |-> FreshState]
\* docs is a history field: the generation the reviewer decided about.
NoRow == [status |-> "NONE", docs |-> 0]
UnusedJob == [state |-> "unused", mode |-> "start", attempts |-> 0,
              stalls |-> 0, owner |-> NoWorker]
NewJob(mode) == [UnusedJob EXCEPT !.state = "waiting", !.mode = mode]
Idle == [pc |-> "idle", job |-> NoJob, first |-> "EarlySkip", node |-> "EarlySkip",
         ver |-> 0, state |-> FreshState, update |-> FreshState, err |-> "none"]
PC == {"idle", "start", "resume", "mark", "node", "save", "saveFailure",
       "suspend", "complete", "markFailed", "cleanup", "settle"}

RunRow == [status : RunStatus, version : Nat, snap : Snapshot, review : Reviews \cup {NoReview}]
ReviewRow == [status : Verdict, docs : Nat]
Job == [state : {"unused", "waiting", "active", "completed", "failed"},
        mode : {"start", "resume"}, attempts : Nat, stalls : Nat,
        owner : Workers \cup {NoWorker}]
Process == [pc : PC, job : Jobs \cup {NoJob}, first : Node, node : Node, ver : Nat,
            state : GraphState, update : GraphState, err : {"none", "transient", "permanent"}]
Site == [workspace : BOOLEAN, local : SUBSET Nat, remote : SUBSET Nat, pr : BOOLEAN]

TypeOK ==
  /\ run \in RunRow
  /\ reviews \in [Reviews -> ReviewRow]
  /\ jobs \in [Jobs -> Job]
  /\ dlq \subseteq Jobs
  /\ worker \in [Workers -> Process]
  /\ owed \subseteq Reviews
  /\ site \in Site
  /\ written \in Nat
  /\ budget \in [Faults -> Nat]

\* The webhook has created the QUEUED run and enqueued its first job.
Init ==
  /\ run = [status |-> "QUEUED", version |-> 1, snap |-> NoSnapshot, review |-> NoReview]
  /\ reviews = [r \in Reviews |-> NoRow]
  /\ \E j \in Jobs : jobs = [[k \in Jobs |-> UnusedJob] EXCEPT ![j] = NewJob("start")]
  /\ dlq = {}
  /\ worker = [w \in Workers |-> Idle]
  /\ owed = {}
  /\ site = [workspace |-> FALSE, local |-> {}, remote |-> {}, pr |-> FALSE]
  /\ written = 0
  /\ budget = InitialBudget

-----------------------------------------------------------------------------
At(w, pc) == worker[w].pc = pc
Spend(fault) == budget[fault] > 0 /\ budget' = [budget EXCEPT ![fault] = @ - 1]
Goto(w, pc) == worker' = [worker EXCEPT ![w].pc = pc]
Abort(w, pc, kind) == worker' = [worker EXCEPT ![w].pc = pc, ![w].err = kind]
Owns(w) == worker[w].job \in Jobs /\ jobs[worker[w].job].owner = w
PendingReviews == {r \in Reviews : reviews[r].status = "PENDING"}
\* Mutant: a run that was reviewed is taken to be approved.
CurrentVerdictAssumed == IF run.review = NoReview THEN "NONE" ELSE "APPROVED"
\* The status of the review the row points to.
CurrentVerdict == IF run.review = NoReview THEN "NONE" ELSE reviews[run.review].status

\* Mutant: the graph state of a resumed run is not rebuilt from the checkpoint.
HydratedBlank == [FreshState EXCEPT !.verdict = CurrentVerdict]
\* The checkpointed graph state, with the verdict looked up again.
Hydrated == [run.snap.state EXCEPT !.verdict = CurrentVerdict]

\* Mutant: an execution that ends at the critic is done.
StepUnsuspended(n, s) ==
  IF Route(n, s) # "END" THEN [pc |-> "node", node |-> Route(n, s)]
  ELSE [pc |-> "complete", node |-> n]

\* Where the graph goes after node n, with graph state s.
Step(n, s) ==
  CASE Route(n, s) # "END" -> [pc |-> "node", node |-> Route(n, s)]
    [] n = "DocumentationCritic" -> [pc |-> "suspend", node |-> n]
    [] OTHER -> [pc |-> "complete", node |-> n]

\* A missing workspace is cloned; the clone has the default branch checked out,
\* which under CURRENT_BRANCH may be the branch the run commits to.
Cloned ==
  IF site.workspace THEN {site}
  ELSE {[site EXCEPT !.workspace = TRUE, !.local = branch] :
          branch \in {{}} \cup (IF OpensPullRequest THEN {} ELSE {site.remote \cup {0}})}

-----------------------------------------------------------------------------
(* Taking a job: WorkflowProcessor.process up to the call of the executor. *)

Deliver(w, j) ==
  /\ At(w, "idle") /\ jobs[j].state = "waiting"
  /\ jobs' = [jobs EXCEPT ![j].state = "active", ![j].owner = w]
  /\ worker' = [worker EXCEPT ![w] =
       [Idle EXCEPT !.job = j,
                    !.pc = IF jobs[j].attempts > 0 THEN "resume" ELSE jobs[j].mode]]
  /\ UNCHANGED <<run, reviews, dlq, owed, site, written, budget>>

\* start: the upsert keeps the version and the snapshot of an existing row.
Start(w) ==
  /\ At(w, "start")
  /\ run' = [run EXCEPT !.status = "RUNNING"]
  /\ worker' = [worker EXCEPT ![w] =
       [@ EXCEPT !.pc = "node", !.first = "RepositoryAnalyzer", !.ver = run.version]]
  /\ UNCHANGED <<reviews, jobs, dlq, owed, site, written, budget>>

\* resume, up to the status update: load the row, clone again if the workspace
\* is gone, choose the entry node and rebuild the graph state.
Resume(w) ==
  /\ At(w, "resume")
  /\ IF run.status = "COMPLETED"
     THEN Goto(w, "settle") /\ UNCHANGED site
     ELSE /\ site' \in Cloned
          /\ worker' = [worker EXCEPT ![w] =
               [@ EXCEPT !.pc = "mark",
                         !.first = FirstNode(CurrentVerdict, run.snap.node),
                         !.ver = run.version,
                         !.state = Hydrated]]
  /\ UNCHANGED <<run, reviews, jobs, dlq, owed, written, budget>>

\* A run without a checkpoint is resumed with a state that names no run, and
\* the first adapter throws for want of an orchestration context.
MarkRunning(w) ==
  /\ At(w, "mark")
  /\ run' = [run EXCEPT !.status = "RUNNING"]
  /\ IF worker[w].first = "EarlySkip"
     THEN Abort(w, "markFailed", "transient")
     ELSE Goto(w, "node")
  /\ UNCHANGED <<reviews, jobs, dlq, owed, site, written, budget>>

\* The clone or the database fails before the executor's try block.
SetupFails(w) ==
  /\ At(w, "start") \/ (At(w, "resume") /\ run.status # "COMPLETED")
  /\ Spend("failures")
  /\ Abort(w, "settle", "transient")
  /\ site' \in {site} \cup (IF At(w, "resume") THEN Cloned ELSE {})
  /\ UNCHANGED <<run, reviews, jobs, dlq, owed, written>>

-----------------------------------------------------------------------------
(* One node: the adapter, the wrapper, the node's own effects. *)

Skipped(w) == ShouldSkip(worker[w].node, worker[w].first, worker[w].state)

SkipNode(w) ==
  /\ At(w, "node") /\ Skipped(w)
  /\ LET next == Step(worker[w].node, worker[w].state) IN
       worker' = [worker EXCEPT ![w].pc = next.pc, ![w].node = next.node]
  /\ UNCHANGED <<run, reviews, jobs, dlq, owed, site, written, budget>>

\* The wrapper looks the repository up before its try block; when that fails no
\* failure is recorded against the node.
LookupFails(w) ==
  /\ At(w, "node") /\ ~Skipped(w)
  /\ Spend("failures")
  /\ Abort(w, "markFailed", "transient")
  /\ UNCHANGED <<run, reviews, jobs, dlq, owed, site, written>>

\* What the node needs of the world besides the graph state: a clone; a branch to
\* push, which has everything the remote one has; and, for GitHub to accept a pull
\* request, commits on the pushed branch.
Possible(n) ==
  /\ n \in {"DocumentationLocator", "CodebaseAnalyzer", "GitCommit", "PushBranch"} => site.workspace
  /\ n = "PushBranch" => site.local # {} /\ site.remote \subseteq site.local
  /\ n = "CreatePullRequest" /\ OpensPullRequest => site.remote \ {0} # {}

\* A branch is the set of generations committed on it, 0 standing for commits
\* without documents of this run.  commitChanges goes on with the local branch, or
\* checks out the remote one, or, when that fails because the documents are already
\* in the working tree, starts a new branch of the same name.
Committed(docs) ==
  {[site EXCEPT !.local = base \cup {docs}] :
     base \in IF site.local = {} THEN {{}, site.remote} ELSE {site.local}}

Pushed == [site EXCEPT !.remote = @ \cup site.local]

\* rollback deletes the local branch, unless it fails, which it keeps to itself.
RolledBack(after) == {after, [after EXCEPT !.local = {}]}

\* What becomes of the workspace, the branches and GitHub when n succeeds.
Effects(n, docs) ==
  CASE n = "RepositoryAnalyzer" -> Cloned
    [] n = "GitCommit" -> Committed(docs)
    [] n = "PushBranch" -> {Pushed}
    [] n = "CreatePullRequest" -> {[site EXCEPT !.pr = @ \/ OpensPullRequest]}
    [] OTHER -> {site}

NodeSucceeds(w) ==
  LET n == worker[w].node
      s == worker[w].state IN
  /\ At(w, "node") /\ ~Skipped(w)
  /\ Ready(n, s) /\ Possible(n)
  /\ \E out \in Outputs(n, s, written + 1) :
       worker' = [worker EXCEPT ![w] = [@ EXCEPT !.pc = "save", !.update = out]]
  /\ site' \in Effects(n, s.docs)
  /\ written' = IF n = "TechnicalWriter" THEN written + 1 ELSE written
  /\ UNCHANGED <<run, reviews, jobs, dlq, owed, budget>>

\* A node may fail before or after it took effect; a failed commit or push is
\* rolled back.
NodeFails(w) ==
  LET n == worker[w].node
      s == worker[w].state IN
  /\ At(w, "node") /\ ~Skipped(w)
  /\ \/ /\ Ready(n, s) /\ Possible(n)
        /\ Spend("failures")
        /\ \E kind \in FailureKinds : Abort(w, "saveFailure", kind)
        /\ \E after \in {site} \cup Effects(n, s.docs) :
             site' \in IF n \in {"GitCommit", "PushBranch"} THEN RolledBack(after) ELSE {after}
     \/ /\ ~Ready(n, s) \/ ~Possible(n)
        /\ Abort(w, "saveFailure", "transient")
        /\ UNCHANGED <<site, budget>>
  /\ UNCHANGED <<run, reviews, jobs, dlq, owed, written>>

\* saveNodeCheckpoint, inside its transaction.
Checkpoint(w, status, s) ==
  /\ worker[w].ver = run.version
  /\ run' = [run EXCEPT !.status = status, !.version = @ + 1,
                        !.snap = [node |-> worker[w].node,
                                  state |-> [s EXCEPT !.verdict = "NONE"]]]

SaveCheckpoint(w) ==
  LET next == Step(worker[w].node, worker[w].update) IN
  /\ At(w, "save")
  /\ \/ /\ Checkpoint(w, "CHECKPOINTED", worker[w].update)
        /\ worker' = [worker EXCEPT ![w] =
             [@ EXCEPT !.pc = next.pc, !.node = next.node, !.ver = run'.version,
                       !.state = worker[w].update]]
        /\ UNCHANGED budget
     \/ /\ worker[w].ver # run.version
        /\ Abort(w, "saveFailure", "transient")
        /\ UNCHANGED <<run, budget>>
     \/ /\ Spend("failures")
        /\ Abort(w, "saveFailure", "transient")
        /\ UNCHANGED run
  /\ UNCHANGED <<reviews, jobs, dlq, owed, site, written>>

\* The wrapper's catch block: record the failure against the state the node was
\* given; an error while doing so is swallowed.
SaveFailure(w) ==
  /\ At(w, "saveFailure")
  /\ \/ Checkpoint(w, "FAILED", worker[w].state) /\ UNCHANGED budget
     \/ worker[w].ver # run.version /\ UNCHANGED <<run, budget>>
     \/ Spend("failures") /\ UNCHANGED run
  /\ Goto(w, "markFailed")
  /\ UNCHANGED <<reviews, jobs, dlq, owed, site, written>>

-----------------------------------------------------------------------------
(* The end of an invocation: the executor after compiledGraph.invoke. *)

\* Mutant: the transaction does not look for a pending review.
SuspendUnchecked(w) ==
  /\ At(w, "suspend")
  /\ \E r \in Reviews :
       /\ reviews[r].status = "NONE"
       /\ reviews' = [reviews EXCEPT ![r].status = "PENDING"]
       /\ run' = [run EXCEPT !.review = r, !.status = "WAITING_FOR_REVIEW"]
  /\ Goto(w, "settle")
  /\ UNCHANGED <<jobs, dlq, owed, site, written, budget>>

\* The suspension transaction; it throws if a review is already pending.
Suspend(w) ==
  /\ At(w, "suspend")
  /\ \/ /\ PendingReviews = {}
        /\ \E r \in Reviews :
             /\ reviews[r].status = "NONE"
             /\ reviews' = [reviews EXCEPT ![r].status = "PENDING"]
             /\ run' = [run EXCEPT !.review = r, !.status = "WAITING_FOR_REVIEW"]
        /\ Goto(w, "settle")
     \/ /\ PendingReviews # {}
        /\ Abort(w, "markFailed", "transient")
        /\ UNCHANGED <<run, reviews>>
  /\ UNCHANGED <<jobs, dlq, owed, site, written, budget>>

\* markRunCompleted, like markRunFailed, writes whatever the row holds.
Complete(w) ==
  /\ At(w, "complete")
  /\ run' = [run EXCEPT !.status = "COMPLETED"]
  /\ Goto(w, "cleanup")
  /\ UNCHANGED <<reviews, jobs, dlq, owed, site, written, budget>>

\* Mutant: the row is left as it is.
MarkFailedSilently(w) ==
  /\ At(w, "markFailed")
  /\ Goto(w, IF worker[w].err = "permanent" THEN "cleanup" ELSE "settle")
  /\ UNCHANGED <<run, reviews, jobs, dlq, owed, site, written, budget>>

\* The executor's catch block; the error goes on to the processor.
MarkFailed(w) ==
  /\ At(w, "markFailed")
  /\ run' = [run EXCEPT !.status = "FAILED"]
  /\ Goto(w, IF worker[w].err = "permanent" THEN "cleanup" ELSE "settle")
  /\ UNCHANGED <<reviews, jobs, dlq, owed, site, written, budget>>

\* The finally block of a terminal execution.
Cleanup(w) ==
  /\ At(w, "cleanup")
  /\ site' = IF run.status \in Active THEN site
             ELSE [site EXCEPT !.workspace = FALSE, !.local = {}]
  /\ Goto(w, "settle")
  /\ UNCHANGED <<run, reviews, jobs, dlq, owed, written, budget>>

\* What becomes of a job whose handler returned or threw.
JobAfter(job, err) ==
  CASE err = "none" -> [job EXCEPT !.state = "completed", !.owner = NoWorker]
    [] err = "permanent" -> [job EXCEPT !.state = "failed", !.owner = NoWorker]
    [] err = "transient" ->
         [job EXCEPT !.attempts = @ + 1, !.owner = NoWorker,
                     !.state = IF job.attempts + 1 < MaxAttempts THEN "waiting" ELSE "failed"]

\* The processor's catch block and BullMQ's bookkeeping; a worker that lost the
\* lock of its job cannot move it.
Settle(w) ==
  LET j == worker[w].job IN
  /\ At(w, "settle")
  /\ dlq' = IF worker[w].err = "permanent" THEN dlq \cup {j} ELSE dlq
  /\ jobs' = IF Owns(w) THEN [jobs EXCEPT ![j] = JobAfter(@, worker[w].err)] ELSE jobs
  /\ worker' = [worker EXCEPT ![w] = Idle]
  /\ UNCHANGED <<run, reviews, owed, site, written, budget>>

-----------------------------------------------------------------------------
(* Human review: ReviewsService.approveReview and rejectReview. *)

\* Mutant: a decided review can be decided again.
DecideAgain(r, verdict) ==
  /\ reviews[r].status # "NONE"
  /\ IF verdict = "REJECTED" THEN Spend("rejections") ELSE UNCHANGED budget
  /\ reviews' = [reviews EXCEPT ![r] = [status |-> verdict, docs |-> run.snap.state.docs]]
  /\ owed' = owed \cup {r}
  /\ UNCHANGED <<run, jobs, dlq, worker, site, written>>

\* Mutant: only an approval is followed by a resume job.
DecideQuietly(r, verdict) ==
  /\ reviews[r].status = "PENDING"
  /\ IF verdict = "REJECTED" THEN Spend("rejections") ELSE UNCHANGED budget
  /\ reviews' = [reviews EXCEPT ![r] = [status |-> verdict, docs |-> run.snap.state.docs]]
  /\ owed' = IF verdict = "APPROVED" THEN owed \cup {r} ELSE owed
  /\ UNCHANGED <<run, jobs, dlq, worker, site, written>>

\* The guarded update of the Review row.
Decide(r, verdict) ==
  /\ reviews[r].status = "PENDING"
  /\ IF verdict = "REJECTED" THEN Spend("rejections") ELSE UNCHANGED budget
  /\ reviews' = [reviews EXCEPT ![r] = [status |-> verdict, docs |-> run.snap.state.docs]]
  /\ owed' = owed \cup {r}
  /\ UNCHANGED <<run, jobs, dlq, worker, site, written>>

\* The resume job, enqueued after the transaction committed.
EnqueueResume(r, j) ==
  /\ r \in owed /\ jobs[j].state = "unused"
  /\ owed' = owed \ {r}
  /\ jobs' = [jobs EXCEPT ![j] = NewJob("resume")]
  /\ UNCHANGED <<run, reviews, dlq, worker, site, written, budget>>

-----------------------------------------------------------------------------
(* Faults. *)

\* The backend process stops; its jobs stay active until BullMQ finds them
\* stalled.
Crash(w) ==
  /\ ~At(w, "idle") /\ Spend("stalls")
  /\ jobs' = [j \in Jobs |-> IF jobs[j].owner = w THEN [jobs[j] EXCEPT !.owner = NoWorker]
                             ELSE jobs[j]]
  /\ worker' = [worker EXCEPT ![w] = Idle]
  /\ UNCHANGED <<run, reviews, dlq, owed, site, written>>

\* A busy event loop misses the lock renewal: the job is given up although the
\* handler still runs.
LoseLock(w) ==
  /\ Owns(w) /\ Spend("stalls")
  /\ jobs' = [jobs EXCEPT ![worker[w].job].owner = NoWorker]
  /\ UNCHANGED <<run, reviews, dlq, worker, owed, site, written>>

\* BullMQ's stalled check; it does not count as an attempt.
Redeliver(j) ==
  /\ jobs[j].state = "active" /\ jobs[j].owner = NoWorker
  /\ jobs' = [jobs EXCEPT ![j].stalls = @ + 1,
                          ![j].state = IF jobs[j].stalls < MaxStalls THEN "waiting" ELSE "failed"]
  /\ UNCHANGED <<run, reviews, dlq, worker, owed, site, written, budget>>

\* The process stops, or Redis refuses the job, between the two halves of a
\* decision.
DropResume(r) ==
  /\ r \in owed /\ Spend("drops")
  /\ owed' = owed \ {r}
  /\ UNCHANGED <<run, reviews, jobs, dlq, worker, site, written>>

\* Another run of the repository, the sweep at bootstrap or the loss of the disk
\* removes the workspace between two executions.
Evict ==
  /\ \A w \in Workers : At(w, "idle")
  /\ site.workspace /\ Spend("evictions")
  /\ site' = [site EXCEPT !.workspace = FALSE, !.local = {}]
  /\ UNCHANGED <<run, reviews, jobs, dlq, worker, owed, written>>

-----------------------------------------------------------------------------
Execute(w) ==
  \/ Start(w) \/ Resume(w) \/ MarkRunning(w) \/ SetupFails(w)
  \/ SkipNode(w) \/ LookupFails(w) \/ NodeSucceeds(w) \/ NodeFails(w)
  \/ SaveCheckpoint(w) \/ SaveFailure(w)
  \/ Suspend(w) \/ Complete(w) \/ MarkFailed(w) \/ Cleanup(w) \/ Settle(w)

Next ==
  \/ \E w \in Workers : Execute(w) \/ Crash(w) \/ LoseLock(w)
  \/ \E w \in Workers, j \in Jobs : Deliver(w, j)
  \/ \E j \in Jobs : Redeliver(j)
  \/ \E r \in Reviews : \E v \in {"APPROVED", "REJECTED"} : Decide(r, v)
  \/ \E r \in Reviews, j \in Jobs : EnqueueResume(r, j)
  \/ \E r \in Reviews : DropResume(r)
  \/ Evict

\* A running process goes on, BullMQ hands out waiting jobs and finds stalled
\* ones, a request handler that was not cut off enqueues its job.  Reviewers
\* and faults are under no obligation.
Fairness ==
  /\ \A w \in Workers : WF_vars(Execute(w))
  /\ WF_vars(\E w \in Workers, j \in Jobs : Deliver(w, j))
  /\ \A j \in Jobs : WF_vars(Redeliver(j))
  /\ \A r \in Reviews : WF_vars(\E j \in Jobs : EnqueueResume(r, j))

Spec == Init /\ [][Next]_vars
FairSpec == Spec /\ Fairness

-----------------------------------------------------------------------------
Approved == {r \in Reviews : reviews[r].status = "APPROVED"}
Published == site.local \ {0} # {} \/ site.remote # {} \/ site.pr

\* Nothing is committed, pushed or proposed unless a human approved a review of
\* the run: the graph reaches GitCommit only through the critic's conditional
\* edge, whatever the checkpoint says the execution resumes from.
NoPublicationWithoutApproval == Published => Approved # {}

\* A run never has two reviews waiting for an answer, so approving one cannot
\* leave a second, contradictory question open.
OnePendingReview == \A r, q \in PendingReviews : r = q

\* What is committed or pushed is what the reviewer saw when approving: no later
\* generation of the writer slips in under an earlier approval.
PublishedDocsApproved ==
  (site.local \cup site.remote) \ {0} \subseteq {reviews[r].docs : r \in Approved}

\* COMPLETED is only reported of a run whose documents reached the remote branch
\* and, unless the strategy does without, a pull request.
CompletedIsPublished ==
  run.status = "COMPLETED" => site.remote \ {0} # {} /\ (OpensPullRequest => site.pr)

\* Outputs recorded by a checkpoint survive every later checkpoint, failures and
\* retries included.
CheckpointKeepsWork == [][run.snap.state.done \subseteq run'.snap.state.done]_vars

\* A run being executed is not executed for ever: it completes, fails or waits
\* for its reviewer.
ExecutionEnds ==
  run.status \in {"RUNNING", "CHECKPOINTED"}
    ~> run.status \in {"WAITING_FOR_REVIEW", "COMPLETED", "FAILED"}

\* Once the pending review of a waiting run is decided, the run leaves
\* WAITING_FOR_REVIEW: the decision is acted upon, unless the process stopped
\* between the decision and the job that resumes the run.
DecisionTakesEffect ==
  (run.status = "WAITING_FOR_REVIEW" /\ CurrentVerdict \in {"APPROVED", "REJECTED"})
    ~> (run.status # "WAITING_FOR_REVIEW" \/ budget["drops"] < InitialBudget["drops"])

\* The run, seen from its reviews and from GitHub, is a ReviewGate: reviews are
\* asked for one at a time and answered once, and no step of any worker puts
\* anything on GitHub before the answer was yes.
Gate == INSTANCE ReviewGate WITH
  verdict <- [r \in Reviews |-> reviews[r].status],
  published <- site.remote # {} \/ site.pr

ImplementsReviewGate == Gate!GateSpec
=============================================================================
