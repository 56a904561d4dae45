------------------------ MODULE RunLifecycleProofs ------------------------
(***************************************************************************)
(* What holds of every run, for any number of workers, jobs, reviews and   *)
(* faults: its variables keep their types, nothing is published without an *)
(* approval, and reviews are asked for one at a time, as ReviewGate has it.*)
(***************************************************************************)
EXTENDS RunLifecycle, TLAPS

-----------------------------------------------------------------------------
(* The pipeline graph. *)

\* The nodes that change a branch or GitHub.
Publishing == {"GitCommit", "PushBranch", "CreatePullRequest"}

\* A node stands at its position in the sequential order of the graph.
LEMMA PositionOfNode ==
  ASSUME NEW n \in Node
  PROVE  Position(n) \in 1..9 /\ SequentialOrder[Position(n)] = n
<1>1. Len(SequentialOrder) = 9
  BY DEF SequentialOrder
<1>2. \E i \in 1..Len(SequentialOrder) : SequentialOrder[i] = n
  BY DEF Node
<1> QED
  BY <1>1, <1>2 DEF Position

\* The entries of the sequential order, one by one.
LEMMA OrderEntries ==
  /\ SequentialOrder[1] = "EarlySkip"
  /\ SequentialOrder[2] = "RepositoryAnalyzer"
  /\ SequentialOrder[3] = "DocumentationLocator"
  /\ SequentialOrder[4] = "CodebaseAnalyzer"
  /\ SequentialOrder[5] = "TechnicalWriter"
  /\ SequentialOrder[6] = "DocumentationCritic"
  /\ SequentialOrder[7] = "GitCommit"
  /\ SequentialOrder[8] = "PushBranch"
  /\ SequentialOrder[9] = "CreatePullRequest"
BY DEF SequentialOrder

\* The nodes, one by one.
LEMMA NodeEnumerated ==
  Node = {"EarlySkip", "RepositoryAnalyzer", "DocumentationLocator",
          "CodebaseAnalyzer", "TechnicalWriter", "DocumentationCritic",
          "GitCommit", "PushBranch", "CreatePullRequest"}
<1>1. Len(SequentialOrder) = 9
  BY DEF SequentialOrder
<1>2. Node = {SequentialOrder[i] : i \in 1..9}
  BY <1>1 DEF Node
<1> QED
  BY <1>2, OrderEntries

\* The node after n in the order is a node, unless n is the last.
LEMMA SuccessorInNode ==
  ASSUME NEW n \in Node, n # "CreatePullRequest"
  PROVE  /\ SequentialOrder[Position(n) + 1] \in Node
         /\ SequentialOrder[Position(n) + 1] \in Publishing
              => n \in {"DocumentationCritic"} \cup Publishing
<1>1. Position(n) \in 1..8
  BY PositionOfNode, OrderEntries
<1> QED
  BY <1>1, PositionOfNode, OrderEntries, NodeEnumerated DEF Publishing

\* The graph knows no edge to anything but its nodes and its end, and the only
\* edge into the publishing nodes from outside is that of an approval.
LEMMA RouteFacts ==
  ASSUME NEW n \in Node, NEW s \in GraphState
  PROVE  /\ Route(n, s) \in Node \cup {"END"}
         /\ Route(n, s) \in Publishing => n \in Publishing \/ s.verdict = "APPROVED"
<1>1. CASE n = "CreatePullRequest"
  BY <1>1 DEF Route, Publishing
<1>2. CASE n = "DocumentationCritic"
  BY <1>2, NodeEnumerated DEF Route, Publishing
<1>3. CASE n \notin {"CreatePullRequest", "DocumentationCritic"}
  <2>1. CASE n = "EarlySkip" /\ s.skip
    BY <2>1 DEF Route, Publishing
  <2>2. CASE ~(n = "EarlySkip" /\ s.skip)
    <3>1. Route(n, s) = SequentialOrder[Position(n) + 1]
      BY <1>3, <2>2 DEF Route
    <3> QED
      BY <1>3, <3>1, SuccessorInNode
  <2> QED
    BY <2>1, <2>2
<1> QED
  BY <1>1, <1>2, <1>3

\* Wherever an execution enters the graph, it enters it at a node.
LEMMA FirstNodeType ==
  ASSUME NEW verdict \in Verdict, NEW last \in Node \cup {"NONE"}
  PROVE  FirstNode(verdict, last) \in Node
<1>1. DetermineNextNode(last) \in Node
  <2>1. CASE last = "NONE"
    BY <2>1, NodeEnumerated DEF DetermineNextNode
  <2>2. CASE last = "CreatePullRequest"
    BY <2>2, NodeEnumerated DEF DetermineNextNode
  <2>3. CASE last \notin {"NONE", "CreatePullRequest"}
    BY <2>3, SuccessorInNode DEF DetermineNextNode
  <2> QED
    BY <2>1, <2>2, <2>3
<1> QED
  BY <1>1, NodeEnumerated DEF FirstNode

\* A node returns a graph state, and no node forges a human verdict.
LEMMA OutputsFacts ==
  ASSUME NEW n \in Node, NEW s \in GraphState, NEW generation \in Nat,
         NEW out \in Outputs(n, s, generation)
  PROVE  out \in GraphState /\ out.verdict \in {"NONE", s.verdict}
<1>1. CASE n = "EarlySkip"
  <2>1. PICK b \in BOOLEAN : out = [s EXCEPT !.done = @ \cup {n}, !.skip = b]
    BY <1>1 DEF Outputs
  <2> QED
    BY <2>1 DEF GraphState
<1>2. CASE n = "TechnicalWriter"
  <2>1. out = [s EXCEPT !.done = @ \cup {n},
                        !.docs = generation,
                        !.iter = IF s.verdict = "REJECTED" THEN @ + 1 ELSE @,
                        !.verdict = "NONE"]
    BY <1>2 DEF Outputs
  <2>2. (IF s.verdict = "REJECTED" THEN s.iter + 1 ELSE s.iter) \in Nat
    BY DEF GraphState
  <2>3. out.verdict = "NONE"
    BY <2>1 DEF GraphState
  <2>4. ASSUME NEW k \in Nat
        PROVE  [s EXCEPT !.done = @ \cup {n}, !.docs = generation,
                         !.iter = k, !.verdict = "NONE"] \in GraphState
    BY DEF GraphState, Verdict
  <2> QED
    BY <2>1, <2>2, <2>3, <2>4
<1>3. CASE n \notin {"EarlySkip", "TechnicalWriter"}
  <2>1. out = [s EXCEPT !.done = @ \cup {n}]
    BY <1>3 DEF Outputs
  <2> QED
    BY <2>1 DEF GraphState
<1> QED
  BY <1>1, <1>2, <1>3

\* A fresh execution starts from a well-formed state.
LEMMA FreshStateType == FreshState \in GraphState
BY DEF FreshState, GraphState, Verdict

-----------------------------------------------------------------------------
(* Types of the values the actions build. *)

\* The values variables start from are well-formed.
LEMMA InitialValues ==
  /\ NoSnapshot \in Snapshot
  /\ NoRow \in ReviewRow
  /\ UnusedJob \in Job
  /\ Idle \in Process
  /\ \A mode \in {"start", "resume"} : NewJob(mode) \in Job
<1>1. NoSnapshot \in Snapshot
  BY FreshStateType DEF NoSnapshot, Snapshot
<1>2. NoRow \in ReviewRow
  BY DEF NoRow, ReviewRow, Verdict
<1>3. UnusedJob \in Job
  BY DEF UnusedJob, Job
<1>4. Idle \in Process
  BY FreshStateType, NodeEnumerated DEF Idle, Process, PC
<1>5. \A mode \in {"start", "resume"} : NewJob(mode) \in Job
  BY DEF UnusedJob, NewJob, Job
<1> QED
  BY <1>1, <1>2, <1>3, <1>4, <1>5

\* A new run is well-formed.
LEMMA InitType == Init => TypeOK
<1> SUFFICES ASSUME Init PROVE TypeOK
  OBVIOUS
<1> USE DEF Init
<1>1. run \in RunRow
  BY InitialValues DEF RunRow, RunStatus
<1>2. reviews \in [Reviews -> ReviewRow]
  BY InitialValues
<1>3. jobs \in [Jobs -> Job]
  BY InitialValues
<1>4. worker \in [Workers -> Process]
  BY InitialValues
<1>5. site \in Site
  BY DEF Site
<1> QED
  BY <1>1, <1>2, <1>3, <1>4, <1>5, LifecycleAssumption DEF TypeOK

\* Where the graph goes next is a node, at a program counter of the process.
LEMMA StepType ==
  ASSUME NEW n \in Node, NEW s \in GraphState
  PROVE  Step(n, s).pc \in {"node", "suspend", "complete"} /\ Step(n, s).node \in Node
<1>1. CASE Route(n, s) # "END"
  BY <1>1, RouteFacts DEF Step
<1>2. CASE Route(n, s) = "END" /\ n = "DocumentationCritic"
  BY <1>2 DEF Step
<1>3. CASE Route(n, s) = "END" /\ n # "DocumentationCritic"
  BY <1>3 DEF Step
<1> QED
  BY <1>1, <1>2, <1>3

\* The verdict looked up is a verdict.
LEMMA VerdictType ==
  ASSUME TypeOK
  PROVE  CurrentVerdict \in Verdict
BY DEF TypeOK, RunRow, ReviewRow, CurrentVerdict, Verdict

\* A clone is a well-formed site.
LEMMA ClonedType ==
  ASSUME TypeOK
  PROVE  Cloned \subseteq Site
<1>1. ASSUME NEW branch \in SUBSET Nat
      PROVE  [site EXCEPT !.workspace = TRUE, !.local = branch] \in Site
  BY DEF TypeOK, Site
<1>2. site.remote \cup {0} \in SUBSET Nat
  BY DEF TypeOK, Site
<1>3. site \in Site
  BY DEF TypeOK
<1>4. \A branch \in {{}} \cup (IF OpensPullRequest THEN {} ELSE {site.remote \cup {0}}) :
        branch \in SUBSET Nat
  BY <1>2
<1> QED
  BY <1>1, <1>3, <1>4 DEF Cloned

\* Whatever a node does to the world leaves a well-formed world.
LEMMA EffectsType ==
  ASSUME TypeOK, NEW n \in Node, NEW docs \in Nat
  PROVE  Effects(n, docs) \subseteq Site
<1> USE DEF TypeOK
<1>1. CASE n = "RepositoryAnalyzer"
  BY <1>1, ClonedType DEF Effects
<1>2. CASE n = "GitCommit"
  <2>1. ASSUME NEW branch \in SUBSET Nat
        PROVE  [site EXCEPT !.local = branch] \in Site
    BY DEF Site
  <2>2. \A base \in IF site.local = {} THEN {{}, site.remote} ELSE {site.local} :
           base \cup {docs} \in SUBSET Nat
    BY DEF Site
  <2>3. Effects(n, docs) = Committed(docs)
    BY <1>2 DEF Effects
  <2> QED
    BY <2>1, <2>2, <2>3 DEF Committed
<1>3. CASE n = "PushBranch"
  <2>1. Effects(n, docs) = {[site EXCEPT !.remote = @ \cup site.local]}
    BY <1>3 DEF Effects, Pushed
  <2> QED
    BY <2>1 DEF Site
<1>4. CASE n = "CreatePullRequest"
  <2>1. Effects(n, docs) = {[site EXCEPT !.pr = @ \/ OpensPullRequest]}
    BY <1>4 DEF Effects
  <2> QED
    BY <2>1, PipelineAssumption DEF Site
<1>5. CASE n \notin {"RepositoryAnalyzer", "GitCommit", "PushBranch", "CreatePullRequest"}
  BY <1>5 DEF Effects
<1> QED
  BY <1>1, <1>2, <1>3, <1>4, <1>5

\* A process that is doing something is doing it for a job.
BusyHasJob == \A w \in Workers : At(w, "idle") \/ worker[w].job \in Jobs

-----------------------------------------------------------------------------
(* Type correctness is kept by every action. *)

\* A process record stays one when a field is given a value of its type.
LEMMA ProcessFields ==
  ASSUME NEW p \in Process
  PROVE  /\ \A x \in PC : [p EXCEPT !.pc = x] \in Process
         /\ \A x \in Node : [p EXCEPT !.first = x] \in Process
         /\ \A x \in Node : [p EXCEPT !.node = x] \in Process
         /\ \A x \in Nat : [p EXCEPT !.ver = x] \in Process
         /\ \A x \in GraphState : [p EXCEPT !.state = x] \in Process
         /\ \A x \in GraphState : [p EXCEPT !.update = x] \in Process
BY DEF Process

\* Deliver leaves the system well-formed.
LEMMA DeliverType ==
  ASSUME TypeOK, NEW w \in Workers, NEW j \in Jobs, Deliver(w, j)
  PROVE  TypeOK'
<1> USE DEF TypeOK, Deliver
<1>1. jobs' \in [Jobs -> Job]
  BY ZenonT(40) DEF Job
<1>2. worker' \in [Workers -> Process]
  <2>1. jobs[j].mode \in {"start", "resume"}
    BY DEF Job
  <2>2. [Idle EXCEPT !.job = j,
                     !.pc = IF jobs[j].attempts > 0 THEN "resume" ELSE jobs[j].mode] \in Process
    BY <2>1, InitialValues DEF Process, PC
  <2> QED
    BY <2>2
<1> QED
  BY <1>1, <1>2

\* Start leaves the system well-formed.
LEMMA StartType ==
  ASSUME TypeOK, NEW w \in Workers, Start(w)
  PROVE  TypeOK'
<1> USE DEF TypeOK, Start
<1>1. run' \in RunRow
  BY DEF RunRow, RunStatus
<1>2. worker' \in [Workers -> Process]
  <2>1. [worker[w] EXCEPT !.pc = "node", !.first = "RepositoryAnalyzer", !.ver = run.version] \in Process
    <3>1. worker[w] \in Process /\ run.version \in Nat
      BY DEF RunRow
    <3>2. [worker[w] EXCEPT !.pc = "node"] \in Process
      BY <3>1, ProcessFields DEF PC
    <3>3. [[worker[w] EXCEPT !.pc = "node"] EXCEPT !.first = "RepositoryAnalyzer"] \in Process
      BY ONLY <3>2, ProcessFields, NodeEnumerated
    <3> HIDE DEF TypeOK, Start
    <3> QED
      BY <3>1, <3>3, ProcessFields
  <2> QED
    BY <2>1
<1> QED
  BY <1>1, <1>2

\* Resume leaves the system well-formed.
LEMMA ResumeType ==
  ASSUME TypeOK, NEW w \in Workers, Resume(w)
  PROVE  TypeOK'
<1> USE DEF TypeOK, Resume, Hydrated
<1>1. site' \in Site
  BY ClonedType
<1>2. worker' \in [Workers -> Process]
  <2>1. CASE run.status = "COMPLETED"
    BY <2>1 DEF Goto, Process, PC
  <2>2. CASE run.status # "COMPLETED"
    <3>1. FirstNode(CurrentVerdict, run.snap.node) \in Node
      BY VerdictType, FirstNodeType DEF RunRow, Snapshot
    <3>2. [run.snap.state EXCEPT !.verdict = CurrentVerdict] \in GraphState
      BY VerdictType DEF RunRow, Snapshot, GraphState
    <3>3. run.version \in Nat
      BY DEF RunRow
    <3>4. [worker[w] EXCEPT !.pc = "mark"] \in Process
      BY ProcessFields DEF PC
    <3>5. ASSUME NEW p \in Process, NEW n \in Node, NEW s \in GraphState, NEW v \in Nat
          PROVE  [p EXCEPT !.first = n, !.ver = v, !.state = s] \in Process
      <4>1. [p EXCEPT !.first = n, !.ver = v] \in Process
        BY ProcessFields
      <4> QED
        BY <4>1, ProcessFields
    <3>6. worker' = [worker EXCEPT ![w] =
            [[@ EXCEPT !.pc = "mark"] EXCEPT !.first = FirstNode(CurrentVerdict, run.snap.node),
                       !.ver = run.version,
                       !.state = [run.snap.state EXCEPT !.verdict = CurrentVerdict]]]
      BY <2>2
    <3> HIDE DEF Resume, Hydrated
    <3> QED
      BY <3>1, <3>2, <3>3, <3>4, <3>5, <3>6
  <2> QED
    BY <2>1, <2>2
<1> QED
  BY <1>1, <1>2

\* The moves of a process that only change its program counter or error.
LEMMA GotoType ==
  ASSUME TypeOK, NEW w \in Workers, NEW pc \in PC, Goto(w, pc)
  PROVE  worker' \in [Workers -> Process]
BY DEF TypeOK, Goto, Process

\* Giving up leaves a process well-formed.
LEMMA AbortType ==
  ASSUME TypeOK, NEW w \in Workers, NEW pc \in PC,
         NEW kind \in {"none", "transient", "permanent"}, Abort(w, pc, kind)
  PROVE  worker' \in [Workers -> Process]
BY ZenonT(40) DEF TypeOK, Abort, Process

\* Spending leaves a budget.
LEMMA SpendType ==
  ASSUME TypeOK, NEW fault \in Faults, Spend(fault)
  PROVE  budget' \in [Faults -> Nat]
BY DEF TypeOK, Spend

\* MarkRunning leaves the system well-formed.
LEMMA MarkRunningType ==
  ASSUME TypeOK, NEW w \in Workers, MarkRunning(w)
  PROVE  TypeOK'
<1> USE DEF MarkRunning
<1>1. run' \in RunRow
  BY DEF TypeOK, RunRow, RunStatus
<1>2. worker' \in [Workers -> Process]
  BY GotoType, AbortType DEF PC
<1> QED
  BY <1>1, <1>2 DEF TypeOK

\* SetupFails leaves the system well-formed.
LEMMA SetupFailsType ==
  ASSUME TypeOK, NEW w \in Workers, SetupFails(w)
  PROVE  TypeOK'
<1> USE DEF SetupFails
<1>1. site' \in Site
  BY ClonedType DEF TypeOK
<1>2. worker' \in [Workers -> Process]
  BY AbortType DEF PC
<1>3. budget' \in [Faults -> Nat]
  BY SpendType DEF Faults
<1> QED
  BY <1>1, <1>2, <1>3 DEF TypeOK

\* SkipNode leaves the system well-formed.
LEMMA SkipNodeType ==
  ASSUME TypeOK, NEW w \in Workers, SkipNode(w)
  PROVE  TypeOK'
<1> DEFINE next == Step(worker[w].node, worker[w].state)
<1>1. next.pc \in PC /\ next.node \in Node
  BY StepType DEF TypeOK, Process, PC
<1>2. worker' = [worker EXCEPT ![w].pc = next.pc, ![w].node = next.node]
  BY DEF SkipNode
<1> HIDE DEF next
<1>3. worker' \in [Workers -> Process]
  BY ZenonT(40), <1>1, <1>2 DEF TypeOK, Process
<1> QED
  BY <1>3 DEF TypeOK, SkipNode

\* LookupFails leaves the system well-formed.
LEMMA LookupFailsType ==
  ASSUME TypeOK, NEW w \in Workers, LookupFails(w)
  PROVE  TypeOK'
<1>1. worker' \in [Workers -> Process]
  BY AbortType DEF LookupFails, PC
<1>2. budget' \in [Faults -> Nat]
  BY SpendType DEF LookupFails, Faults
<1> QED
  BY <1>1, <1>2 DEF LookupFails, TypeOK

\* NodeSucceeds leaves the system well-formed.
LEMMA NodeSucceedsType ==
  ASSUME TypeOK, NEW w \in Workers, NodeSucceeds(w)
  PROVE  TypeOK'
<1> DEFINE n == worker[w].node
           s == worker[w].state
<1>1. n \in Node /\ s \in GraphState /\ s.docs \in Nat
  BY DEF TypeOK, Process, GraphState
<1>2. site' \in Site
  BY <1>1, EffectsType DEF NodeSucceeds
<1>3. written' \in Nat /\ written + 1 \in Nat
  BY DEF NodeSucceeds, TypeOK
<1>4. worker' \in [Workers -> Process]
  <2>1. PICK out \in Outputs(n, s, written + 1) :
          worker' = [worker EXCEPT ![w] = [@ EXCEPT !.pc = "save", !.update = out]]
    BY DEF NodeSucceeds
  <2>2. out \in GraphState
    BY <1>1, <1>3, OutputsFacts
  <2>3. [worker[w] EXCEPT !.pc = "save", !.update = out] \in Process
    BY <2>2, ProcessFields DEF TypeOK, PC
  <2> QED
    BY <2>1, <2>3 DEF TypeOK
<1> QED
  BY <1>2, <1>3, <1>4 DEF TypeOK, NodeSucceeds

\* NodeFails leaves the system well-formed.
LEMMA NodeFailsType ==
  ASSUME TypeOK, NEW w \in Workers, NodeFails(w)
  PROVE  TypeOK'
<1> DEFINE n == worker[w].node
           s == worker[w].state
<1>1. n \in Node /\ s \in GraphState /\ s.docs \in Nat
  BY DEF TypeOK, Process, GraphState
<1>2. site' \in Site
  <2>1. {site} \cup Effects(n, s.docs) \subseteq Site
    BY <1>1, EffectsType DEF TypeOK
  <2>2. \A after \in Site : [after EXCEPT !.local = {}] \in Site
    BY DEF Site
  <2> QED
    BY <2>1, <2>2 DEF NodeFails, RolledBack, TypeOK
<1>3. worker' \in [Workers -> Process]
  BY AbortType, LifecycleAssumption DEF NodeFails, PC
<1>4. budget' \in [Faults -> Nat]
  BY SpendType DEF NodeFails, TypeOK, Faults
<1> QED
  BY <1>2, <1>3, <1>4 DEF TypeOK, NodeFails

\* A checkpoint is a well-formed row.
LEMMA CheckpointType ==
  ASSUME TypeOK, NEW w \in Workers, NEW status \in RunStatus, NEW s \in GraphState,
         Checkpoint(w, status, s)
  PROVE  run' \in RunRow
<1> DEFINE snap == [node |-> worker[w].node, state |-> [s EXCEPT !.verdict = "NONE"]]
<1>1. snap \in Snapshot
  BY DEF TypeOK, Process, Snapshot, GraphState, Verdict
<1>2. run' = [run EXCEPT !.status = status, !.version = @ + 1, !.snap = snap]
  BY DEF Checkpoint
<1>3. ASSUME NEW row \in RunRow, NEW x \in Snapshot, NEW v \in Nat
      PROVE  [row EXCEPT !.status = status, !.version = v, !.snap = x] \in RunRow
  <2>1. [row EXCEPT !.status = status] \in RunRow
    BY DEF RunRow
  <2>2. [[row EXCEPT !.status = status] EXCEPT !.version = v] \in RunRow
    BY <2>1 DEF RunRow
  <2> QED
    BY <2>2 DEF RunRow
<1> HIDE DEF snap
<1>4. run \in RunRow /\ run.version + 1 \in Nat
  BY DEF TypeOK, RunRow
<1>5. run' = [run EXCEPT !.status = status, !.version = run.version + 1, !.snap = snap]
  BY <1>2, <1>4 DEF RunRow
<1> QED
  BY <1>1, <1>3, <1>4, <1>5

\* SaveCheckpoint leaves the system well-formed.
LEMMA SaveCheckpointType ==
  ASSUME TypeOK, NEW w \in Workers, SaveCheckpoint(w)
  PROVE  TypeOK'
<1> DEFINE next == Step(worker[w].node, worker[w].update)
<1>1. worker[w] \in Process /\ worker[w].node \in Node /\ worker[w].update \in GraphState
  BY DEF TypeOK, Process
<1>2. next.pc \in PC /\ next.node \in Node
  BY <1>1, StepType DEF PC
<1> HIDE DEF next
<1>3. CASE /\ Checkpoint(w, "CHECKPOINTED", worker[w].update)
           /\ worker' = [worker EXCEPT ![w] =
                [@ EXCEPT !.pc = next.pc, !.node = next.node, !.ver = run'.version,
                          !.state = worker[w].update]]
           /\ UNCHANGED <<budget, reviews, jobs, dlq, owed, site, written>>
  <2>1. run' \in RunRow
    BY <1>1, <1>3, CheckpointType DEF RunStatus
  <2>2. [worker[w] EXCEPT !.pc = next.pc, !.node = next.node] \in Process
    BY <1>1, <1>2, ProcessFields
  <2>3. ASSUME NEW p \in Process, NEW v \in Nat, NEW s \in GraphState
        PROVE  [p EXCEPT !.ver = v, !.state = s] \in Process
    BY ProcessFields
  <2>4. worker' = [worker EXCEPT ![w] =
          [[@ EXCEPT !.pc = next.pc, !.node = next.node]
             EXCEPT !.ver = run'.version, !.state = worker[w].update]]
    BY <1>3
  <2>5. worker' \in [Workers -> Process]
    <3>1. run'.version \in Nat
      BY <2>1 DEF RunRow
    <3> QED
      BY <1>1, <2>2, <2>3, <2>4, <3>1 DEF TypeOK
  <2> QED
    BY <1>3, <2>1, <2>5 DEF TypeOK
<1>4. CASE /\ Abort(w, "saveFailure", "transient")
           /\ UNCHANGED run
           /\ Spend("failures") \/ UNCHANGED budget
           /\ UNCHANGED <<reviews, jobs, dlq, owed, site, written>>
  <2>1. worker' \in [Workers -> Process]
    BY <1>4, AbortType DEF PC
  <2>2. budget' \in [Faults -> Nat]
    BY <1>4, SpendType DEF TypeOK, Faults
  <2> QED
    BY <1>4, <2>1, <2>2 DEF TypeOK
<1> QED
  BY <1>3, <1>4 DEF SaveCheckpoint, next

\* SaveFailure leaves the system well-formed.
LEMMA SaveFailureType ==
  ASSUME TypeOK, NEW w \in Workers, SaveFailure(w)
  PROVE  TypeOK'
<1>1. worker' \in [Workers -> Process]
  BY GotoType DEF SaveFailure, PC
<1>2. run' \in RunRow
  <2>1. worker[w].state \in GraphState
    BY DEF TypeOK, Process
  <2> QED
    BY <2>1, CheckpointType DEF SaveFailure, RunStatus, TypeOK
<1>3. budget' \in [Faults -> Nat]
  BY SpendType DEF SaveFailure, TypeOK, Faults
<1> QED
  BY <1>1, <1>2, <1>3 DEF SaveFailure, TypeOK

\* Suspend leaves the system well-formed.
LEMMA SuspendType ==
  ASSUME TypeOK, NEW w \in Workers, Suspend(w)
  PROVE  TypeOK'
<1>1. worker' \in [Workers -> Process]
  BY GotoType, AbortType DEF Suspend, PC
<1>2. run' \in RunRow
  BY DEF Suspend, TypeOK, RunRow, RunStatus
<1>3. reviews' \in [Reviews -> ReviewRow]
  <2>1. ASSUME NEW r \in Reviews
        PROVE  [reviews EXCEPT ![r].status = "PENDING"] \in [Reviews -> ReviewRow]
    BY DEF TypeOK, ReviewRow, Verdict
  <2> QED
    BY <2>1 DEF Suspend, TypeOK
<1> QED
  BY <1>1, <1>2, <1>3 DEF Suspend, TypeOK

\* Complete leaves the system well-formed.
LEMMA CompleteType ==
  ASSUME TypeOK, NEW w \in Workers, Complete(w)
  PROVE  TypeOK'
<1>1. worker' \in [Workers -> Process]
  BY GotoType DEF Complete, PC
<1>2. run' \in RunRow
  BY DEF Complete, TypeOK, RunRow, RunStatus
<1> QED
  BY <1>1, <1>2 DEF Complete, TypeOK

\* MarkFailed leaves the system well-formed.
LEMMA MarkFailedType ==
  ASSUME TypeOK, NEW w \in Workers, MarkFailed(w)
  PROVE  TypeOK'
<1>1. worker' \in [Workers -> Process]
  BY GotoType DEF MarkFailed, PC
<1>2. run' \in RunRow
  BY DEF MarkFailed, TypeOK, RunRow, RunStatus
<1> QED
  BY <1>1, <1>2 DEF MarkFailed, TypeOK

\* Cleanup leaves the system well-formed.
LEMMA CleanupType ==
  ASSUME TypeOK, NEW w \in Workers, Cleanup(w)
  PROVE  TypeOK'
<1>1. worker' \in [Workers -> Process]
  BY GotoType DEF Cleanup, PC
<1>2. site' \in Site
  BY DEF Cleanup, TypeOK, Site
<1> QED
  BY <1>1, <1>2 DEF Cleanup, TypeOK

\* A job that was settled is a well-formed job.
LEMMA JobAfterType ==
  ASSUME NEW job \in Job, NEW err \in {"none", "transient", "permanent"}
  PROVE  JobAfter(job, err) \in Job
<1>1. CASE err = "none"
  BY <1>1 DEF JobAfter, Job
<1>2. CASE err = "permanent"
  BY <1>2 DEF JobAfter, Job
<1>3. CASE err = "transient"
  <2>1. JobAfter(job, err) =
          [job EXCEPT !.attempts = @ + 1, !.owner = NoWorker,
                      !.state = IF job.attempts + 1 < MaxAttempts THEN "waiting" ELSE "failed"]
    BY <1>3 DEF JobAfter
  <2>2. [job EXCEPT !.attempts = @ + 1] \in Job
    BY DEF Job
  <2>3. [[job EXCEPT !.attempts = @ + 1] EXCEPT !.owner = NoWorker] \in Job
    BY <2>2 DEF Job
  <2>4. (IF job.attempts + 1 < MaxAttempts THEN "waiting" ELSE "failed") \in {"waiting", "failed"}
    OBVIOUS
  <2> QED
    BY <2>1, <2>3, <2>4 DEF Job
<1> QED
  BY <1>1, <1>2, <1>3

\* Settle leaves the system well-formed.
LEMMA SettleType ==
  ASSUME TypeOK, BusyHasJob, NEW w \in Workers, Settle(w)
  PROVE  TypeOK'
<1> DEFINE j == worker[w].job
           after == JobAfter(jobs[j], worker[w].err)
<1>1. worker' \in [Workers -> Process]
  BY InitialValues DEF Settle, TypeOK
<1>2. jobs' \in [Jobs -> Job]
  <2>1. CASE Owns(w)
    <3>1. j \in Jobs /\ worker[w].err \in {"none", "transient", "permanent"}
      BY <2>1 DEF Owns, TypeOK, Process
    <3>2. after \in Job
      BY <3>1, JobAfterType DEF TypeOK
    <3>3. jobs' = [jobs EXCEPT ![j] = after]
      BY <2>1, <3>1 DEF Settle, TypeOK
    <3> QED
      BY <3>1, <3>2, <3>3 DEF TypeOK
  <2>2. CASE ~Owns(w)
    BY <2>2 DEF Settle, TypeOK
  <2> QED
    BY <2>1, <2>2
<1>3. dlq' \subseteq Jobs
  BY DEF Settle, TypeOK, BusyHasJob, At
<1> QED
  BY <1>1, <1>2, <1>3 DEF Settle, TypeOK

\* Decide leaves the system well-formed.
LEMMA DecideType ==
  ASSUME TypeOK, NEW r \in Reviews, NEW v \in {"APPROVED", "REJECTED"}, Decide(r, v)
  PROVE  TypeOK'
<1>1. reviews' \in [Reviews -> ReviewRow]
  <2>1. [status |-> v, docs |-> run.snap.state.docs] \in ReviewRow
    BY DEF TypeOK, RunRow, Snapshot, GraphState, ReviewRow, Verdict
  <2> QED
    BY <2>1 DEF Decide, TypeOK
<1>2. budget' \in [Faults -> Nat]
  BY SpendType DEF Decide, TypeOK, Faults
<1> QED
  BY <1>1, <1>2 DEF Decide, TypeOK

\* EnqueueResume leaves the system well-formed.
LEMMA EnqueueResumeType ==
  ASSUME TypeOK, NEW r \in Reviews, NEW j \in Jobs, EnqueueResume(r, j)
  PROVE  TypeOK'
<1>1. jobs' \in [Jobs -> Job]
  BY InitialValues DEF EnqueueResume, TypeOK
<1> QED
  BY <1>1 DEF EnqueueResume, TypeOK

\* Crash leaves the system well-formed.
LEMMA CrashType ==
  ASSUME TypeOK, NEW w \in Workers, Crash(w)
  PROVE  TypeOK'
<1>1. jobs' \in [Jobs -> Job]
  BY DEF Crash, TypeOK, Job
<1>2. worker' \in [Workers -> Process]
  BY InitialValues DEF Crash, TypeOK
<1>3. budget' \in [Faults -> Nat]
  BY SpendType DEF Crash, Faults
<1> QED
  BY <1>1, <1>2, <1>3 DEF Crash, TypeOK

\* LoseLock leaves the system well-formed.
LEMMA LoseLockType ==
  ASSUME TypeOK, NEW w \in Workers, LoseLock(w)
  PROVE  TypeOK'
<1>1. jobs' \in [Jobs -> Job]
  BY ZenonT(40) DEF LoseLock, TypeOK, Job
<1>2. budget' \in [Faults -> Nat]
  BY SpendType DEF LoseLock, Faults
<1> QED
  BY <1>1, <1>2 DEF LoseLock, TypeOK

\* Redeliver leaves the system well-formed.
LEMMA RedeliverType ==
  ASSUME TypeOK, NEW j \in Jobs, Redeliver(j)
  PROVE  TypeOK'
<1>1. ASSUME NEW state \in {"waiting", "failed"}
      PROVE  [jobs EXCEPT ![j].stalls = @ + 1, ![j].state = state] \in [Jobs -> Job]
  <2>1. [jobs EXCEPT ![j].stalls = @ + 1] \in [Jobs -> Job]
    BY DEF TypeOK, Job
  <2> QED
    BY <2>1 DEF Job
<1> QED
  BY <1>1 DEF Redeliver, TypeOK

\* DropResume leaves the system well-formed.
LEMMA DropResumeType ==
  ASSUME TypeOK, NEW r \in Reviews, DropResume(r)
  PROVE  TypeOK'
<1>1. budget' \in [Faults -> Nat]
  BY SpendType DEF DropResume, Faults
<1> QED
  BY <1>1 DEF DropResume, TypeOK

\* Evict leaves the system well-formed.
LEMMA EvictType ==
  ASSUME TypeOK, Evict
  PROVE  TypeOK'
<1>1. site' \in Site
  BY DEF Evict, TypeOK, Site
<1>2. budget' \in [Faults -> Nat]
  BY SpendType DEF Evict, Faults
<1> QED
  BY <1>1, <1>2 DEF Evict, TypeOK

-----------------------------------------------------------------------------
(* Type correctness as an invariant. *)

\* A step of an execution concerns one busy process, which keeps its job until it
\* is done with it.
LEMMA ExecuteFacts ==
  ASSUME TypeOK, NEW w \in Workers, Execute(w)
  PROVE  /\ ~At(w, "idle")
         /\ \A x \in Workers \ {w} : worker'[x] = worker[x]
         /\ worker'[w] = Idle \/ worker'[w].job = worker[w].job
<1> USE DEF TypeOK, At, Process
<1>1. CASE Start(w)
  BY <1>1 DEF Start
<1>2. CASE Resume(w)
  <2>1. CASE run.status = "COMPLETED"
    BY <1>2, <2>1 DEF Resume, Hydrated, Goto
  <2>2. CASE run.status # "COMPLETED"
    BY ZenonT(40), <1>2, <2>2 DEF Resume, Hydrated
  <2> QED
    BY <2>1, <2>2
<1>3. CASE MarkRunning(w) \/ SetupFails(w) \/ LookupFails(w)
  BY <1>3 DEF MarkRunning, SetupFails, LookupFails, Goto, Abort
<1>4. CASE SkipNode(w)
  BY <1>4 DEF SkipNode
<1>5. CASE NodeSucceeds(w)
  BY <1>5 DEF NodeSucceeds
<1>6. CASE NodeFails(w)
  BY <1>6 DEF NodeFails, Abort
<1>7. CASE SaveCheckpoint(w) \/ SaveFailure(w)
  BY ZenonT(40), <1>7 DEF SaveCheckpoint, SaveFailure, Abort, Goto
<1>8. CASE Suspend(w) \/ Complete(w) \/ MarkFailed(w) \/ Cleanup(w)
  BY ZenonT(40), <1>8 DEF Suspend, Complete, MarkFailed, Cleanup, Abort, Goto
<1>9. CASE Settle(w)
  BY <1>9 DEF Settle
<1> QED
  BY <1>1, <1>2, <1>3, <1>4, <1>5, <1>6, <1>7, <1>8, <1>9 DEF Execute

\* A process takes up work only with a job.
LEMMA BusyStep ==
  ASSUME TypeOK, BusyHasJob, [Next]_vars
  PROVE  BusyHasJob'
<1> USE DEF BusyHasJob, At
<1>1. ASSUME NEW w \in Workers, Execute(w)
      PROVE  BusyHasJob'
  BY <1>1, ExecuteFacts DEF Idle, TypeOK
<1>2. ASSUME NEW w \in Workers, Crash(w) \/ LoseLock(w)
      PROVE  BusyHasJob'
  BY <1>2 DEF Crash, LoseLock, Idle, TypeOK
<1>3. ASSUME NEW w \in Workers, NEW j \in Jobs, Deliver(w, j)
      PROVE  BusyHasJob'
  <2>1. worker'[w].job = j
    BY <1>3 DEF Deliver, Idle, TypeOK
  <2> QED
    BY <1>3, <2>1 DEF Deliver, TypeOK
<1>4. ASSUME UNCHANGED worker
      PROVE  BusyHasJob'
  BY <1>4
<1> QED
  BY <1>1, <1>2, <1>3, <1>4
     DEF Next, vars, Redeliver, Decide, EnqueueResume, DropResume, Evict

\* Every step leaves the system well-formed.
LEMMA TypeStep ==
  ASSUME TypeOK, BusyHasJob, [Next]_vars
  PROVE  TypeOK'
<1>1. ASSUME NEW w \in Workers, Execute(w)
      PROVE  TypeOK'
  BY <1>1, StartType, ResumeType, MarkRunningType, SetupFailsType, LookupFailsType, SkipNodeType,
     NodeSucceedsType, NodeFailsType, SaveCheckpointType, SaveFailureType,
     SuspendType, CompleteType, MarkFailedType, CleanupType, SettleType
     DEF Execute
<1>2. ASSUME NEW w \in Workers, Crash(w) \/ LoseLock(w)
      PROVE  TypeOK'
  BY <1>2, CrashType, LoseLockType
<1>3. ASSUME NEW r \in Reviews,
             \/ \E v \in {"APPROVED", "REJECTED"} : Decide(r, v)
             \/ \E j \in Jobs : EnqueueResume(r, j)
             \/ DropResume(r)
      PROVE  TypeOK'
  BY <1>3, DecideType, EnqueueResumeType, DropResumeType
<1>4. ASSUME UNCHANGED vars
      PROVE  TypeOK'
  BY <1>4 DEF vars, TypeOK
<1> QED
  BY <1>1, <1>2, <1>3, <1>4, DeliverType, RedeliverType, EvictType DEF Next

\* The invariant behind TypeCorrect.
LEMMA TypeInvariant == Spec => [](TypeOK /\ BusyHasJob)
<1>1. Init => TypeOK /\ BusyHasJob
  <2>1. Init => BusyHasJob
    BY DEF Init, BusyHasJob, At, Idle
  <2> QED
    BY <2>1, InitType
<1>2. TypeOK /\ BusyHasJob /\ [Next]_vars => (TypeOK /\ BusyHasJob)'
  BY TypeStep, BusyStep
<1> QED
  BY <1>1, <1>2, PTL DEF Spec

\* Every value in the database, the queue, the processes, the clone and on GitHub
\* has its type; no process routes anything but a job to the dead letter queue.
THEOREM TypeCorrect == Spec => []TypeOK
BY TypeInvariant, PTL

-----------------------------------------------------------------------------
(* Reviews gate publication. *)

\* A process that may be on its way to publishing: it carries an approval in its
\* graph state, or stands at or past the commit.
Headed(p) ==
  \/ p.state.verdict = "APPROVED"
  \/ p.update.verdict = "APPROVED"
  \/ p.node \in Publishing

\* Such processes, like anything published, have an approved review behind them.
Gated ==
  /\ \A w \in Workers : Headed(worker[w]) => Approved # {}
  /\ Published => Approved # {}

GateInvariant == TypeOK /\ BusyHasJob /\ Gated /\ OnePendingReview

-----------------------------------------------------------------------------
(* What actions do to reviews. *)

\* A step that touches the reviews asks for one when none is pending, or answers
\* a pending one.
LEMMA ReviewStep ==
  ASSUME TypeOK, [Next]_vars
  PROVE  \/ reviews' = reviews
         \/ /\ PendingReviews = {}
            /\ \E r \in Reviews : /\ reviews[r].status = "NONE"
                                  /\ reviews' = [reviews EXCEPT ![r].status = "PENDING"]
         \/ \E r \in Reviews, v \in {"APPROVED", "REJECTED"} :
              /\ reviews[r].status = "PENDING"
              /\ reviews' = [reviews EXCEPT ![r] = [status |-> v, docs |-> run.snap.state.docs]]
<1>1. ASSUME NEW w \in Workers, Execute(w), ~Suspend(w)
      PROVE  reviews' = reviews
  BY <1>1 DEF Execute, Start, Resume, Hydrated, MarkRunning, SetupFails, LookupFails, SkipNode, NodeSucceeds,
     NodeFails, SaveCheckpoint, SaveFailure, Complete, MarkFailed, Cleanup, Settle
<1>2. ASSUME NEW w \in Workers, Suspend(w), reviews' # reviews
      PROVE  /\ PendingReviews = {}
             /\ \E r \in Reviews : /\ reviews[r].status = "NONE"
                                   /\ reviews' = [reviews EXCEPT ![r].status = "PENDING"]
  BY <1>2 DEF Suspend
<1>3. ASSUME NEW r \in Reviews, NEW v \in {"APPROVED", "REJECTED"}, Decide(r, v)
      PROVE  /\ reviews[r].status = "PENDING"
             /\ reviews' = [reviews EXCEPT ![r] = [status |-> v, docs |-> run.snap.state.docs]]
  BY <1>3 DEF Decide
<1> QED
  BY <1>1, <1>2, <1>3
     DEF Next, vars, Crash, LoseLock, Deliver, Redeliver, EnqueueResume, DropResume, Evict

\* An approval is never taken back.
LEMMA ApprovedGrows ==
  ASSUME TypeOK, [Next]_vars
  PROVE  Approved \subseteq Approved'
<1>1. ASSUME NEW r \in Reviews, reviews[r].status = "APPROVED"
      PROVE  reviews'[r].status = "APPROVED"
  <2> USE <1>1 DEF TypeOK, ReviewRow
  <2>1. CASE reviews' = reviews
    BY <2>1
  <2>2. CASE \E q \in Reviews : /\ reviews[q].status = "NONE"
                                /\ reviews' = [reviews EXCEPT ![q].status = "PENDING"]
    BY <2>2
  <2>3. CASE \E q \in Reviews, v \in {"APPROVED", "REJECTED"} :
               /\ reviews[q].status = "PENDING"
               /\ reviews' = [reviews EXCEPT ![q] = [status |-> v, docs |-> run.snap.state.docs]]
    BY <2>3
  <2> QED
    BY <2>1, <2>2, <2>3, ReviewStep
<1> QED
  BY <1>1 DEF Approved

\* No step asks a second question while one is open.
LEMMA OnePendingStep ==
  ASSUME TypeOK, OnePendingReview, [Next]_vars
  PROVE  OnePendingReview'
<1> USE DEF OnePendingReview, PendingReviews, TypeOK, ReviewRow
<1>1. CASE reviews' = reviews
  BY <1>1
<1>2. CASE /\ PendingReviews = {}
           /\ \E r \in Reviews : reviews' = [reviews EXCEPT ![r].status = "PENDING"]
  BY <1>2
<1>3. CASE \E r \in Reviews, v \in {"APPROVED", "REJECTED"} :
             reviews' = [reviews EXCEPT ![r] = [status |-> v, docs |-> run.snap.state.docs]]
  BY <1>3
<1> QED
  BY <1>1, <1>2, <1>3, ReviewStep

-----------------------------------------------------------------------------
(* What actions do to the processes. *)

\* A process without a job is not on its way to publishing.
LEMMA IdleNotHeaded == ~Headed(Idle)
BY DEF Headed, Idle, FreshState, Publishing

\* The graph leads to the publishing nodes only from there or on an approval.
LEMMA StepToPublishing ==
  ASSUME NEW n \in Node, NEW s \in GraphState, Step(n, s).node \in Publishing
  PROVE  n \in Publishing \/ s.verdict = "APPROVED"
<1>1. CASE Route(n, s) # "END"
  BY <1>1, RouteFacts DEF Step
<1>2. CASE Route(n, s) = "END" /\ n = "DocumentationCritic"
  BY <1>2 DEF Step
<1>3. CASE Route(n, s) = "END" /\ n # "DocumentationCritic"
  BY <1>3 DEF Step
<1> QED
  BY <1>1, <1>2, <1>3

\* A resumed process is headed for publication only if the current review is
\* approved.
LEMMA CurrentApproval ==
  ASSUME TypeOK, CurrentVerdict = "APPROVED"
  PROVE  Approved # {}
BY DEF CurrentVerdict, Approved, TypeOK, RunRow

\* Going elsewhere, or giving up, puts no process on its way to publishing.
LEMMA StayHeaded ==
  ASSUME TypeOK, NEW w \in Workers,
         NEW pc, NEW kind,
         Goto(w, pc) \/ Abort(w, pc, kind),
         Headed(worker'[w])
  PROVE  Headed(worker[w])
BY DEF TypeOK, Process, Goto, Abort, Headed

\* An execution is headed towards publication only with an approval behind it.
LEMMA ExecuteHeaded ==
  ASSUME TypeOK, Gated, NEW w \in Workers, Execute(w), Headed(worker'[w])
  PROVE  Approved # {}
<1>0. worker[w] \in Process /\ (Headed(worker[w]) => Approved # {})
  BY DEF TypeOK, Gated
<1>1. CASE Start(w)
  BY <1>0, <1>1 DEF Start, TypeOK, Process, Headed
<1>2. CASE Resume(w)
  <2>1. CASE run.status = "COMPLETED"
    BY <1>0, <1>2, <2>1, StayHeaded DEF Resume, Hydrated
  <2>2. CASE run.status # "COMPLETED"
    <3>1. /\ worker'[w].state = [run.snap.state EXCEPT !.verdict = CurrentVerdict]
          /\ worker'[w].update = worker[w].update
          /\ worker'[w].node = worker[w].node
      BY <1>2, <2>2 DEF Resume, Hydrated, TypeOK, Process
    <3>2. worker'[w].state.verdict = CurrentVerdict
      BY <3>1 DEF TypeOK, RunRow, Snapshot, GraphState
    <3> QED
      BY <1>0, <3>1, <3>2, CurrentApproval DEF Headed
  <2> QED
    BY <2>1, <2>2
<1>3. CASE MarkRunning(w) \/ SetupFails(w) \/ LookupFails(w) \/ NodeFails(w) \/ SaveFailure(w)
  BY <1>0, <1>3, StayHeaded DEF MarkRunning, SetupFails, LookupFails, NodeFails, SaveFailure
<1>4. CASE Suspend(w) \/ Complete(w) \/ MarkFailed(w) \/ Cleanup(w)
  BY <1>0, <1>4, StayHeaded DEF Suspend, Complete, MarkFailed, Cleanup
<1>5. CASE SkipNode(w)
  <2> DEFINE next == Step(worker[w].node, worker[w].state)
  <2>1. next.node \in Publishing => Headed(worker[w])
    BY <1>0, StepToPublishing DEF Process, Headed
  <2>2. worker' = [worker EXCEPT ![w].pc = next.pc, ![w].node = next.node]
    BY <1>5 DEF SkipNode
  <2> HIDE DEF next
  <2>3. /\ worker'[w].state = worker[w].state
        /\ worker'[w].update = worker[w].update
        /\ worker'[w].node = next.node
    BY <2>2 DEF TypeOK, Process
  <2> QED
    BY <1>0, <2>1, <2>3 DEF Headed
<1>6. CASE NodeSucceeds(w)
  <2>1. PICK out \in Outputs(worker[w].node, worker[w].state, written + 1) :
          worker' = [worker EXCEPT ![w] = [@ EXCEPT !.pc = "save", !.update = out]]
    BY <1>6 DEF NodeSucceeds
  <2>2. out.verdict = "APPROVED" => worker[w].state.verdict = "APPROVED"
    BY <1>0, OutputsFacts DEF Process, TypeOK
  <2>3. /\ worker'[w].state = worker[w].state
        /\ worker'[w].update = out
        /\ worker'[w].node = worker[w].node
    BY <2>1 DEF TypeOK, Process
  <2> QED
    BY <1>0, <2>2, <2>3 DEF Headed
<1>7. CASE SaveCheckpoint(w)
  <2> DEFINE next == Step(worker[w].node, worker[w].update)
  <2>1. next.node \in Publishing => Headed(worker[w])
    BY <1>0, StepToPublishing DEF Process, Headed
  <2> HIDE DEF next
  <2>2. CASE worker' = [worker EXCEPT ![w] =
                [@ EXCEPT !.pc = next.pc, !.node = next.node, !.ver = run'.version,
                          !.state = worker[w].update]]
    <3>1. /\ worker'[w].state = worker[w].update
          /\ worker'[w].update = worker[w].update
          /\ worker'[w].node = next.node
      BY <2>2 DEF TypeOK, Process
    <3> QED
      BY <1>0, <2>1, <3>1 DEF Headed
  <2>3. CASE Abort(w, "saveFailure", "transient")
    BY <1>0, <2>3, StayHeaded
  <2> QED
    BY <1>7, <2>2, <2>3 DEF SaveCheckpoint, next
<1>8. CASE Settle(w)
  BY <1>8, IdleNotHeaded DEF Settle, TypeOK
<1> QED
  BY <1>1, <1>2, <1>3, <1>4, <1>5, <1>6, <1>7, <1>8 DEF Execute

\* So is every process after any step.
LEMMA HeadedStep ==
  ASSUME TypeOK, Gated, [Next]_vars, NEW w \in Workers, Headed(worker'[w])
  PROVE  Approved # {}
<1>0. Headed(worker[w]) => Approved # {}
  BY DEF Gated
<1>1. ASSUME NEW x \in Workers, Execute(x)
      PROVE  Approved # {}
  BY <1>0, <1>1, ExecuteFacts, ExecuteHeaded
<1>2. ASSUME NEW x \in Workers, Crash(x) \/ LoseLock(x)
      PROVE  Approved # {}
  BY <1>0, <1>2, IdleNotHeaded DEF Crash, LoseLock, TypeOK
<1>3. ASSUME NEW x \in Workers, NEW j \in Jobs, Deliver(x, j)
      PROVE  Approved # {}
  <2>1. CASE x = w
    <3>1. /\ worker'[w].state = Idle.state
          /\ worker'[w].update = Idle.update
          /\ worker'[w].node = Idle.node
      BY <1>3, <2>1 DEF Deliver, TypeOK, Idle
    <3> QED
      BY <3>1, IdleNotHeaded DEF Headed
  <2>2. CASE x # w
    BY <1>0, <1>3, <2>2 DEF Deliver, TypeOK
  <2> QED
    BY <2>1, <2>2
<1>4. ASSUME UNCHANGED worker
      PROVE  Approved # {}
  BY <1>0, <1>4
<1> QED
  BY <1>1, <1>2, <1>3, <1>4
     DEF Next, vars, Redeliver, Decide, EnqueueResume, DropResume, Evict

-----------------------------------------------------------------------------
(* What actions do to the world. *)

\* Anything of a site that counts as publication.
Visible(x) == x.local \ {0} # {} \/ x.remote # {} \/ x.pr

\* A clone shows nothing that was not shown before.
LEMMA ClonedVisible ==
  ASSUME TypeOK, NEW x \in Cloned, Visible(x)
  PROVE  Visible(site)
<1>1. CASE site.workspace
  BY <1>1 DEF Cloned
<1>2. CASE ~site.workspace
  <2>1. PICK branch \in {{}} \cup (IF OpensPullRequest THEN {} ELSE {site.remote \cup {0}}) :
          x = [site EXCEPT !.workspace = TRUE, !.local = branch]
    BY <1>2 DEF Cloned
  <2>2. branch \ {0} \subseteq site.remote
    BY <2>1
  <2>3. x.local = branch /\ x.remote = site.remote /\ x.pr = site.pr
    BY <2>1 DEF TypeOK, Site
  <2> QED
    BY <2>2, <2>3 DEF Visible
<1> QED
  BY <1>1, <1>2

\* Only the publishing nodes make anything visible.
LEMMA EffectsVisible ==
  ASSUME TypeOK, NEW n \in Node, NEW docs \in Nat, NEW x \in Effects(n, docs), Visible(x)
  PROVE  Visible(site) \/ n \in Publishing
<1>1. CASE n = "RepositoryAnalyzer"
  BY <1>1, ClonedVisible DEF Effects
<1>2. CASE n \in Publishing
  BY <1>2
<1>3. CASE n # "RepositoryAnalyzer" /\ n \notin Publishing
  BY <1>3 DEF Effects, Publishing
<1> QED
  BY <1>1, <1>2, <1>3

\* Something becomes visible only while a worker is at a publishing node.
LEMMA SiteStep ==
  ASSUME TypeOK, [Next]_vars, Visible(site'), ~Visible(site)
  PROVE  \E w \in Workers : worker[w].node \in Publishing
<1>1. ASSUME NEW w \in Workers, NodeSucceeds(w) \/ NodeFails(w)
      PROVE  worker[w].node \in Publishing
  <2> DEFINE n == worker[w].node
             docs == worker[w].state.docs
  <2>1. n \in Node /\ docs \in Nat
    BY DEF TypeOK, Process, GraphState
  <2>2. CASE NodeSucceeds(w)
    <3>1. site' \in Effects(n, docs)
      BY <2>2 DEF NodeSucceeds
    <3> QED
      BY <2>1, <3>1, EffectsVisible
  <2>3. CASE NodeFails(w)
    <3>1. CASE UNCHANGED site
      BY <3>1
    <3>2. CASE n \in {"GitCommit", "PushBranch"}
      BY <3>2 DEF Publishing
    <3>3. CASE site' \in {site} \cup Effects(n, docs)
      BY <2>1, <3>3, EffectsVisible
    <3> QED
      BY <2>3, <3>1, <3>2, <3>3 DEF NodeFails, RolledBack
  <2> QED
    BY <1>1, <2>2, <2>3
<1>2. ASSUME NEW w \in Workers, Resume(w) \/ SetupFails(w)
      PROVE  FALSE
  BY <1>2, ClonedVisible DEF Resume, Hydrated, SetupFails
<1>3. ASSUME \/ \E w \in Workers : Cleanup(w)
             \/ Evict
      PROVE  FALSE
  BY <1>3 DEF Cleanup, Evict, Visible, TypeOK, Site
<1>4. ASSUME NEW w \in Workers,
             \/ Start(w) \/ MarkRunning(w) \/ LookupFails(w) \/ SkipNode(w) \/ SaveCheckpoint(w)
             \/ SaveFailure(w) \/ Suspend(w) \/ Complete(w) \/ MarkFailed(w) \/ Settle(w)
             \/ Crash(w) \/ LoseLock(w) \/ \E j \in Jobs : Deliver(w, j)
      PROVE  FALSE
  BY <1>4 DEF Start, MarkRunning, LookupFails, SkipNode, SaveCheckpoint, SaveFailure, Suspend,
     Complete, MarkFailed, Settle, Crash, LoseLock, Deliver
<1> QED
  BY <1>1, <1>2, <1>3, <1>4
     DEF Next, Execute, vars, Redeliver, Decide, EnqueueResume, DropResume

\* What GitHub has of a run only grows.
Grown(x) == site.remote \subseteq x.remote /\ (site.pr => x.pr)

\* Neither a clone nor a node takes anything off GitHub.
LEMMA EffectsGrow ==
  ASSUME TypeOK, NEW n \in Node, NEW docs \in Nat, NEW x \in Cloned \cup Effects(n, docs)
  PROVE  Grown(x)
<1>1. ASSUME x \in Cloned
      PROVE  Grown(x)
  BY <1>1 DEF Cloned, Grown, TypeOK, Site
<1>2. CASE x \in Effects(n, docs) /\ n = "RepositoryAnalyzer"
  BY <1>1, <1>2 DEF Effects
<1>3. CASE x \in Effects(n, docs) /\ n = "GitCommit"
  BY <1>3 DEF Effects, Committed, Grown, TypeOK, Site
<1>4. CASE x \in Effects(n, docs) /\ n = "PushBranch"
  BY <1>4 DEF Effects, Pushed, Grown, TypeOK, Site
<1>5. CASE x \in Effects(n, docs) /\ n = "CreatePullRequest"
  <2>1. x = [site EXCEPT !.pr = @ \/ OpensPullRequest]
    BY <1>5 DEF Effects
  <2>2. x.remote = site.remote /\ x.pr = (site.pr \/ OpensPullRequest)
    BY <2>1 DEF TypeOK, Site
  <2> QED
    BY <2>2 DEF Grown
<1>6. CASE /\ x \in Effects(n, docs)
           /\ n \notin {"RepositoryAnalyzer", "GitCommit", "PushBranch", "CreatePullRequest"}
  BY <1>6 DEF Effects, Grown
<1> QED
  BY <1>1, <1>2, <1>3, <1>4, <1>5, <1>6

\* What is on GitHub stays on GitHub, whatever step is taken.
LEMMA GitHubGrows ==
  ASSUME TypeOK, [Next]_vars
  PROVE  Grown(site')
<1>1. ASSUME NEW w \in Workers, NodeSucceeds(w) \/ NodeFails(w)
      PROVE  Grown(site')
  <2> DEFINE n == worker[w].node
             docs == worker[w].state.docs
  <2>1. n \in Node /\ docs \in Nat
    BY DEF TypeOK, Process, GraphState
  <2>2. \A x \in {site} \cup Effects(n, docs) : Grown(x) /\ x \in Site
    BY <2>1, EffectsGrow, EffectsType DEF TypeOK, Grown
  <2>3. \A x \in Site : Grown(x) => Grown([x EXCEPT !.local = {}])
    BY DEF Grown, Site
  <2>4. CASE NodeSucceeds(w)
    BY <2>2, <2>4 DEF NodeSucceeds
  <2>5. CASE NodeFails(w)
    BY <2>2, <2>3, <2>5 DEF NodeFails, RolledBack
  <2> QED
    BY <1>1, <2>4, <2>5
<1>2. ASSUME NEW w \in Workers, Resume(w) \/ SetupFails(w)
      PROVE  Grown(site')
  <2>1. "EarlySkip" \in Node /\ 0 \in Nat
    BY NodeEnumerated
  <2>2. \A x \in Cloned : Grown(x)
    BY <2>1, EffectsGrow
  <2> QED
    <3>1. site' \in Cloned \/ site' = site
      BY <1>2 DEF Resume, Hydrated, SetupFails
    <3>2. Grown(site)
      BY DEF Grown
    <3> QED
      BY <2>2, <3>1, <3>2
<1>3. ASSUME \/ \E w \in Workers : Cleanup(w)
             \/ Evict
      PROVE  Grown(site')
  BY <1>3 DEF Cleanup, Evict, Grown, TypeOK, Site
<1>4. ASSUME UNCHANGED site
      PROVE  Grown(site')
  BY <1>4 DEF Grown
<1> QED
  BY <1>1, <1>2, <1>3, <1>4
     DEF Next, Execute, vars, Start, MarkRunning, LookupFails, SkipNode, SaveCheckpoint, SaveFailure, Suspend,
     Complete, MarkFailed, Settle, Crash, LoseLock, Deliver, Redeliver, Decide, EnqueueResume,
     DropResume

-----------------------------------------------------------------------------
(* The theorems. *)

\* The invariant is inductive.
LEMMA GatedStep ==
  ASSUME TypeOK, Gated, [Next]_vars
  PROVE  Gated'
<1>1. Approved # {} => Approved' # {}
  BY ApprovedGrows
<1>2. ASSUME NEW w \in Workers, Headed(worker'[w])
      PROVE  Approved' # {}
  BY <1>1, <1>2, HeadedStep
<1>3. ASSUME Published'
      PROVE  Approved' # {}
  <2>1. CASE Visible(site)
    BY <1>1, <2>1 DEF Gated, Published, Visible
  <2>2. CASE ~Visible(site)
    <3>1. Visible(site')
      BY <1>3 DEF Published, Visible
    <3> QED
      BY <1>1, <2>2, <3>1, SiteStep DEF Gated, Headed
  <2> QED
    BY <2>1, <2>2
<1>4. \A w \in Workers : Headed(worker[w])' => Approved' # {}
  BY <1>2 DEF Headed
<1> QED
  BY <1>3, <1>4 DEF Gated

\* It holds of a new run.
LEMMA GateInit ==
  Init => Gated /\ OnePendingReview
<1> SUFFICES ASSUME Init PROVE Gated /\ OnePendingReview
  OBVIOUS
<1>1. Gated
  BY IdleNotHeaded DEF Init, Gated, Published
<1>2. OnePendingReview
  BY DEF Init, NoRow, OnePendingReview, PendingReviews
<1> QED
  BY <1>1, <1>2

\* So it holds of every run at any time.
LEMMA GateAlways == Spec => []GateInvariant
<1>1. Init => Gated /\ OnePendingReview
  BY GateInit
<1>2. TypeOK /\ Gated /\ OnePendingReview /\ [Next]_vars => (Gated /\ OnePendingReview)'
  BY GatedStep, OnePendingStep
<1> QED
  BY <1>1, <1>2, TypeInvariant, PTL DEF Spec, GateInvariant

\* No crash, retry or redelivery, and no two workers on one run, lets the pipeline
\* commit, push or propose anything before a reviewer approved.
THEOREM PublicationIsGated == Spec => []NoPublicationWithoutApproval
<1>1. GateInvariant => NoPublicationWithoutApproval
  BY DEF GateInvariant, Gated, NoPublicationWithoutApproval
<1> QED
  BY <1>1, GateAlways, PTL

\* However often the pipeline suspends, at most one review waits for an answer.
THEOREM ReviewsAreAskedOneAtATime == Spec => []OnePendingReview
<1>1. GateInvariant => OnePendingReview
  BY DEF GateInvariant
<1> QED
  BY <1>1, GateAlways, PTL

-----------------------------------------------------------------------------
(* A run implements its ReviewGate. *)

Shown(x) == x.remote # {} \/ x.pr

\* What is on GitHub stays on GitHub.
LEMMA ShownStays ==
  ASSUME TypeOK, [Next]_vars, Shown(site)
  PROVE  Shown(site')
BY GitHubGrows DEF Grown, Shown

\* Reviews and the world never change in the same step.
LEMMA ReviewOrSite ==
  ASSUME [Next]_vars
  PROVE  reviews' = reviews \/ site' = site
BY DEF Next, Execute, vars, Start, Resume, Hydrated, MarkRunning, SetupFails, LookupFails, SkipNode, NodeSucceeds,
   NodeFails, SaveCheckpoint, SaveFailure, Suspend, Complete, MarkFailed, Cleanup, Settle, Crash,
   LoseLock, Deliver, Redeliver, Decide, EnqueueResume, DropResume, Evict

\* A new run is a new gate.
LEMMA RefinesInit == Init => Gate!GateInit
BY DEF Init, Gate!GateInit, NoRow

\* Every step of a run is a step of its gate, or none.
LEMMA RefinesNext ==
  ASSUME GateInvariant, GateInvariant', [Next]_vars
  PROVE  [Gate!GateNext]_(Gate!gateVars)
<1> USE DEF GateInvariant
<1> DEFINE verdict == [r \in Reviews |-> reviews[r].status]
           published == site.remote # {} \/ site.pr
<1>1. CASE reviews' = reviews
  <2>1. verdict' = verdict
    BY <1>1
  <2>2. CASE Shown(site) <=> Shown(site')
    BY <2>1, <2>2 DEF Shown, Gate!gateVars
  <2>3. CASE ~Shown(site) /\ Shown(site')
    <3>1. Approved # {}
      BY <1>1, <2>3 DEF Gated, Published, Approved, Shown
    <3>2. \E r \in Reviews : verdict[r] = "APPROVED"
      BY <3>1 DEF Approved
    <3>3. published' = TRUE
      BY <2>3 DEF Shown
    <3> QED
      BY <2>1, <3>2, <3>3 DEF Gate!GateNext, Gate!Publish
  <2> QED
    BY <2>2, <2>3, ShownStays
<1>2. CASE reviews' # reviews
  <2>1. published' = published
    BY <1>2, ReviewOrSite
  <2>2. CASE /\ PendingReviews = {}
             /\ \E r \in Reviews : /\ reviews[r].status = "NONE"
                                   /\ reviews' = [reviews EXCEPT ![r].status = "PENDING"]
    <3>1. PICK r \in Reviews : /\ reviews[r].status = "NONE"
                               /\ reviews' = [reviews EXCEPT ![r].status = "PENDING"]
      BY <2>2
    <3>2. verdict' = [verdict EXCEPT ![r] = "PENDING"]
      BY <3>1 DEF TypeOK, ReviewRow
    <3>3. verdict[r] = "NONE" /\ \A q \in Reviews : verdict[q] # "PENDING"
      BY <2>2, <3>1 DEF PendingReviews
    <3> QED
      BY <2>1, <3>2, <3>3 DEF Gate!GateNext, Gate!Ask
  <2>3. CASE \E r \in Reviews, v \in {"APPROVED", "REJECTED"} :
               /\ reviews[r].status = "PENDING"
               /\ reviews' = [reviews EXCEPT ![r] = [status |-> v, docs |-> run.snap.state.docs]]
    <3>1. PICK r \in Reviews, v \in {"APPROVED", "REJECTED"} :
               /\ reviews[r].status = "PENDING"
               /\ reviews' = [reviews EXCEPT ![r] = [status |-> v, docs |-> run.snap.state.docs]]
      BY <2>3
    <3>2. verdict' = [verdict EXCEPT ![r] = v]
      BY <3>1 DEF TypeOK, ReviewRow
    <3>3. verdict[r] = "PENDING"
      BY <3>1
    <3> QED
      BY <2>1, <3>2, <3>3 DEF Gate!GateNext, Gate!Judge
  <2> QED
    BY <1>2, <2>2, <2>3, ReviewStep
<1> QED
  BY <1>1, <1>2

\* Seen from its reviews and from GitHub, a run is a ReviewGate: one question at a
\* time, one answer to each, nothing published before a yes or unpublished after.
THEOREM RunImplementsReviewGate == Spec => ImplementsReviewGate
<1>1. GateInvariant /\ GateInvariant' /\ [Next]_vars => [Gate!GateNext]_(Gate!gateVars)
  BY RefinesNext
<1> QED
  BY <1>1, RefinesInit, GateAlways, PTL DEF Spec, ImplementsReviewGate, Gate!GateSpec

-----------------------------------------------------------------------------
(* What is reported as completed is on GitHub. *)

\* A process stays at the same work.
SameWork(p, q) ==
  /\ q.job = p.job /\ q.first = p.first /\ q.node = p.node
  /\ q.state = p.state /\ q.update = p.update

\* What an action makes of its process, field by field.
LEMMA WorkMoves ==
  ASSUME TypeOK, NEW w \in Workers
  PROVE  LET p == worker[w]
             q == worker'[w] IN
         /\ \A pc : Goto(w, pc) => SameWork(p, q) /\ q.pc = pc /\ q.err = p.err
         /\ \A pc, kind : Abort(w, pc, kind) => SameWork(p, q) /\ q.pc = pc /\ q.err = kind
         /\ Start(w) => /\ q.pc = "node" /\ q.first = "RepositoryAnalyzer" /\ q.node = p.node
                        /\ q.state = p.state /\ q.update = p.update /\ q.job = p.job /\ q.err = p.err
         /\ Resume(w) /\ run.status # "COMPLETED" =>
              /\ q.pc = "mark" /\ q.first = FirstNode(CurrentVerdict, run.snap.node) /\ q.node = p.node
              /\ q.state = Hydrated /\ q.update = p.update /\ q.job = p.job /\ q.err = p.err
         /\ SkipNode(w) =>
              /\ q.pc = Step(p.node, p.state).pc /\ q.node = Step(p.node, p.state).node /\ q.first = p.first
              /\ q.state = p.state /\ q.update = p.update /\ q.job = p.job /\ q.err = p.err
         /\ NodeSucceeds(w) =>
              /\ q.pc = "save" /\ q.update \in Outputs(p.node, p.state, written + 1)
              /\ q.first = p.first /\ q.node = p.node /\ q.state = p.state /\ q.job = p.job /\ q.err = p.err
         /\ SaveCheckpoint(w) =>
              \/ /\ q.pc = Step(p.node, p.update).pc /\ q.node = Step(p.node, p.update).node
                 /\ q.first = p.first /\ q.state = p.update /\ q.update = p.update /\ q.job = p.job
                 /\ q.err = p.err /\ Checkpoint(w, "CHECKPOINTED", p.update)
              \/ Abort(w, "saveFailure", "transient") /\ run' = run
         /\ Settle(w) => q = Idle
<1> DEFINE p == worker[w]
           q == worker'[w]
<1>1. worker \in [Workers -> Process] /\ p \in Process
  BY DEF TypeOK
<1>2. ASSUME NEW pc, Goto(w, pc)
      PROVE  SameWork(p, q) /\ q.pc = pc /\ q.err = p.err
  BY <1>1, <1>2 DEF Goto, SameWork, Process
<1>3. ASSUME NEW pc, NEW kind, Abort(w, pc, kind)
      PROVE  SameWork(p, q) /\ q.pc = pc /\ q.err = kind
  BY <1>1, <1>3 DEF Abort, SameWork, Process
<1>4. ASSUME Start(w)
      PROVE  /\ q.pc = "node" /\ q.first = "RepositoryAnalyzer" /\ q.node = p.node
             /\ q.state = p.state /\ q.update = p.update /\ q.job = p.job /\ q.err = p.err
  BY <1>1, <1>4 DEF Start, Process
<1>5. ASSUME Resume(w), run.status # "COMPLETED"
      PROVE  /\ q.pc = "mark" /\ q.first = FirstNode(CurrentVerdict, run.snap.node) /\ q.node = p.node
             /\ q.state = Hydrated /\ q.update = p.update /\ q.job = p.job /\ q.err = p.err
  <2> DEFINE first == FirstNode(CurrentVerdict, run.snap.node)
             state == Hydrated
  <2>1. worker' = [worker EXCEPT ![w] = [@ EXCEPT !.pc = "mark", !.first = first, !.ver = run.version,
                                                  !.state = state]]
    BY <1>5 DEF Resume
  <2> HIDE DEF first, state
  <2>2. /\ q.pc = "mark" /\ q.first = first /\ q.node = p.node
        /\ q.state = state /\ q.update = p.update /\ q.job = p.job /\ q.err = p.err
    BY <1>1, <2>1 DEF Process
  <2> QED
    BY <2>2 DEF first, state
<1>6. ASSUME SkipNode(w)
      PROVE  /\ q.pc = Step(p.node, p.state).pc /\ q.node = Step(p.node, p.state).node /\ q.first = p.first
             /\ q.state = p.state /\ q.update = p.update /\ q.job = p.job /\ q.err = p.err
  <2> DEFINE next == Step(p.node, p.state)
  <2>1. worker' = [worker EXCEPT ![w].pc = next.pc, ![w].node = next.node]
    BY <1>6 DEF SkipNode
  <2> HIDE DEF next
  <2>2. /\ q.pc = next.pc /\ q.node = next.node /\ q.first = p.first
        /\ q.state = p.state /\ q.update = p.update /\ q.job = p.job /\ q.err = p.err
    BY <1>1, <2>1 DEF Process
  <2> QED
    BY <2>2 DEF next
<1>7. ASSUME NodeSucceeds(w)
      PROVE  /\ q.pc = "save" /\ q.update \in Outputs(p.node, p.state, written + 1)
             /\ q.first = p.first /\ q.node = p.node /\ q.state = p.state /\ q.job = p.job /\ q.err = p.err
  <2>1. PICK out \in Outputs(p.node, p.state, written + 1) :
          worker' = [worker EXCEPT ![w] = [@ EXCEPT !.pc = "save", !.update = out]]
    BY <1>7 DEF NodeSucceeds
  <2> QED
    BY <1>1, <2>1 DEF Process
<1>8. ASSUME SaveCheckpoint(w), ~(Abort(w, "saveFailure", "transient") /\ run' = run)
      PROVE  /\ q.pc = Step(p.node, p.update).pc /\ q.node = Step(p.node, p.update).node
             /\ q.first = p.first /\ q.state = p.update /\ q.update = p.update /\ q.job = p.job
             /\ q.err = p.err /\ Checkpoint(w, "CHECKPOINTED", p.update)
  <2> DEFINE next == Step(p.node, p.update)
  <2>1. /\ Checkpoint(w, "CHECKPOINTED", p.update)
        /\ worker' = [worker EXCEPT ![w] = [@ EXCEPT !.pc = next.pc, !.node = next.node, !.ver = run'.version,
                                                     !.state = p.update]]
    BY <1>8 DEF SaveCheckpoint
  <2> HIDE DEF next
  <2>2. /\ q.pc = next.pc /\ q.node = next.node
        /\ q.first = p.first /\ q.state = p.update /\ q.update = p.update /\ q.job = p.job
        /\ q.err = p.err
    BY <1>1, <2>1 DEF Process
  <2> QED
    BY <2>1, <2>2 DEF next
<1>9. Settle(w) => q = Idle
  BY <1>1 DEF Settle
<1> HIDE DEF p, q
<1>10. /\ \A pc : Goto(w, pc) => SameWork(p, q) /\ q.pc = pc /\ q.err = p.err
       /\ \A pc, kind : Abort(w, pc, kind) => SameWork(p, q) /\ q.pc = pc /\ q.err = kind
  BY <1>2, <1>3
<1> QED
  BY <1>4, <1>5, <1>6, <1>7, <1>8, <1>9, <1>10 DEF p, q

\* An invocation is over after the last node, if the early skip does not end it.
LEMMA StepFacts ==
  ASSUME NEW n \in Node, NEW s \in GraphState
  PROVE  /\ Step(n, s).pc \in {"node", "suspend", "complete"}
         /\ Step(n, s).pc = "complete" => n = "CreatePullRequest" \/ s.skip
<1>1. ASSUME n \notin {"CreatePullRequest", "DocumentationCritic"}, ~s.skip
      PROVE  Route(n, s) # "END"
  <2>1. Route(n, s) = SequentialOrder[Position(n) + 1]
    BY <1>1 DEF Route
  <2>2. Route(n, s) \in Node
    BY <1>1, <2>1, SuccessorInNode
  <2> QED
    BY <2>2, NodeEnumerated
<1>2. CASE Route(n, s) # "END"
  BY <1>2 DEF Step
<1>3. CASE Route(n, s) = "END" /\ n = "DocumentationCritic"
  BY <1>3 DEF Step
<1>4. CASE Route(n, s) = "END" /\ n # "DocumentationCritic"
  BY <1>1, <1>4 DEF Step
<1> QED
  BY <1>2, <1>3, <1>4

\* The positions that count.
LEMMA Positions ==
  ASSUME NEW n \in Node
  PROVE  /\ Position("EarlySkip") < Position(n) \/ n = "EarlySkip"
         /\ ~(Position("CreatePullRequest") < Position(n))
         /\ Position("TechnicalWriter") < Position("GitCommit")
<1>1. "EarlySkip" \in Node /\ "CreatePullRequest" \in Node /\ "TechnicalWriter" \in Node /\ "GitCommit" \in Node
  BY NodeEnumerated
<1>2. /\ Position("EarlySkip") = 1 /\ Position("CreatePullRequest") = 9
      /\ Position("TechnicalWriter") = 5 /\ Position("GitCommit") = 7
  <2>1. /\ Position("EarlySkip") \in 1..9 /\ SequentialOrder[Position("EarlySkip")] = "EarlySkip"
        /\ Position("CreatePullRequest") \in 1..9
        /\ SequentialOrder[Position("CreatePullRequest")] = "CreatePullRequest"
        /\ Position("TechnicalWriter") \in 1..9
        /\ SequentialOrder[Position("TechnicalWriter")] = "TechnicalWriter"
        /\ Position("GitCommit") \in 1..9 /\ SequentialOrder[Position("GitCommit")] = "GitCommit"
    BY <1>1, PositionOfNode
  <2> QED
    BY <2>1, OrderEntries
<1>3. Position(n) \in 1..9 /\ (Position(n) = 1 => n = "EarlySkip")
  BY PositionOfNode, OrderEntries
<1> QED
  BY <1>2, <1>3

Landed == site.remote \ {0} # {} /\ site.pr

\* How far a process that may complete the run has come; no state says to skip, because
\* no execution that is worth a checkpoint enters at the early skip.
Landing(p) ==
  /\ ~p.state.skip /\ ~p.update.skip
  /\ p.pc \in {"node", "save"} => p.first # "EarlySkip"
  /\ p.pc = "save" /\ p.node = "CreatePullRequest" => Landed
  /\ p.pc = "complete" => Landed

LandingInvariant ==
  /\ ~run.snap.state.skip
  /\ \A w \in Workers : Landing(worker[w])
  /\ run.status = "COMPLETED" => Landed

\* A node that runs after the early skip leaves skip alone.
LEMMA OutputsKeepSkip ==
  ASSUME NEW n \in Node, n # "EarlySkip", NEW s \in GraphState, ~s.skip,
         NEW generation \in Nat, NEW out \in Outputs(n, s, generation)
  PROVE  ~out.skip
<1>1. CASE n = "TechnicalWriter"
  <2>1. \E k : out = [s EXCEPT !.done = @ \cup {n}, !.docs = generation, !.iter = k, !.verdict = "NONE"]
    BY <1>1 DEF Outputs
  <2> QED
    BY <2>1 DEF GraphState
<1>2. CASE n # "TechnicalWriter"
  BY <1>2 DEF Outputs, GraphState
<1> QED
  BY <1>1, <1>2

\* The process that goes on.
LEMMA LandingMoves ==
  ASSUME OpensPullRequest, TypeOK, LandingInvariant, NEW w \in Workers, Execute(w), Landed => Landed'
  PROVE  Landing(worker[w])'
<1> DEFINE p == worker[w]
           q == worker'[w]
<1>1. p \in Process /\ p.node \in Node /\ p.first \in Node /\ p.state \in GraphState /\ p.update \in GraphState
      /\ Landing(p)
  BY DEF TypeOK, Process, LandingInvariant
<1>2. SUFFICES /\ ~q.state.skip /\ ~q.update.skip
               /\ q.pc \in {"node", "save"} => q.first # "EarlySkip"
               /\ q.pc = "save" /\ q.node = "CreatePullRequest" => Landed'
               /\ q.pc = "complete" => Landed'
  BY DEF Landing, Landed
<1>3. ASSUME SameWork(p, q), q.pc \notin {"node", "save", "complete"}
      PROVE  /\ ~q.state.skip /\ ~q.update.skip
             /\ q.pc \in {"node", "save"} => q.first # "EarlySkip"
             /\ q.pc = "save" /\ q.node = "CreatePullRequest" => Landed'
             /\ q.pc = "complete" => Landed'
  BY <1>1, <1>3 DEF SameWork, Landing
<1>4. CASE \/ SetupFails(w) \/ LookupFails(w) \/ NodeFails(w) \/ SaveFailure(w)
           \/ Suspend(w) \/ Complete(w) \/ MarkFailed(w) \/ Cleanup(w)
           \/ Resume(w) /\ run.status = "COMPLETED"
  <2>1. \/ \E pc \in {"settle", "cleanup", "markFailed"} : Goto(w, pc)
        \/ \E pc \in {"settle", "markFailed", "saveFailure"}, kind \in {"transient"} \cup FailureKinds : Abort(w, pc, kind)
    BY <1>4 DEF SetupFails, LookupFails, NodeFails, SaveFailure, Suspend, Complete, MarkFailed, Cleanup, Resume
  <2>2. SameWork(p, q) /\ q.pc \in {"settle", "cleanup", "markFailed", "saveFailure"}
    BY <2>1, WorkMoves
  <2> QED
    BY <1>3, <2>2
<1>5. CASE MarkRunning(w)
  <2>1. CASE p.first = "EarlySkip"
    <3>1. SameWork(p, q) /\ q.pc = "markFailed"
      BY <1>5, <2>1, WorkMoves DEF MarkRunning
    <3> QED
      BY <1>3, <3>1
  <2>2. CASE p.first # "EarlySkip"
    <3>1. SameWork(p, q) /\ q.pc = "node"
      BY <1>5, <2>2, WorkMoves DEF MarkRunning
    <3> QED
      BY <1>1, <2>2, <3>1 DEF SameWork, Landing
  <2> QED
    BY <2>1, <2>2
<1>6. CASE Start(w)
  <2>1. q.pc = "node" /\ q.first = "RepositoryAnalyzer" /\ q.state = p.state /\ q.update = p.update
    BY <1>6, WorkMoves
  <2> QED
    BY <1>1, <2>1 DEF Landing
<1>7. CASE Resume(w) /\ run.status # "COMPLETED"
  <2>1. q.pc = "mark" /\ q.state = Hydrated /\ q.update = p.update
    BY <1>7, WorkMoves
  <2>2. ~Hydrated.skip
    BY DEF Hydrated, LandingInvariant, TypeOK, RunRow, Snapshot, GraphState
  <2> QED
    BY <1>1, <2>1, <2>2 DEF Landing
<1>8. CASE SkipNode(w)
  <2>1. /\ q.pc = Step(p.node, p.state).pc /\ q.first = p.first /\ q.state = p.state /\ q.update = p.update
        /\ p.pc = "node" /\ ShouldSkip(p.node, p.first, p.state)
    BY <1>8, WorkMoves DEF SkipNode, Skipped, At
  <2>2. p.node # "CreatePullRequest"
    BY <1>1, <2>1, Positions DEF ShouldSkip
  <2>3. q.pc \in {"node", "suspend"}
    BY <1>1, <2>1, <2>2, StepFacts DEF Landing
  <2> QED
    BY <1>1, <2>1, <2>3 DEF Landing
<1>9. CASE NodeSucceeds(w)
  <2>1. /\ q.pc = "save" /\ q.update \in Outputs(p.node, p.state, written + 1)
        /\ q.first = p.first /\ q.node = p.node /\ q.state = p.state
    BY <1>9, WorkMoves
  <2>2. p.pc = "node" /\ ~ShouldSkip(p.node, p.first, p.state) /\ Possible(p.node) /\ site' \in Effects(p.node, p.state.docs)
    BY <1>9 DEF NodeSucceeds, Skipped, At
  <2>3. p.first # "EarlySkip" /\ p.node # "EarlySkip"
    BY <1>1, <2>2, Positions DEF ShouldSkip, Landing
  <2>4. ~q.update.skip
    BY <1>1, <2>1, <2>3, OutputsKeepSkip DEF TypeOK, Landing
  <2>5. ASSUME p.node = "CreatePullRequest"
        PROVE  Landed'
    <3>1. site.remote \ {0} # {}
      BY <2>2, <2>5 DEF Possible
    <3>2. site' = [site EXCEPT !.pr = @ \/ OpensPullRequest]
      BY <2>2, <2>5 DEF Effects
    <3>3. site'.remote = site.remote /\ site'.pr
      BY <3>2 DEF TypeOK, Site
    <3> QED
      BY <3>1, <3>3 DEF Landed
  <2> QED
    BY <1>1, <2>1, <2>3, <2>4, <2>5 DEF Landing
<1>10. CASE SaveCheckpoint(w)
  <2>1. CASE Abort(w, "saveFailure", "transient")
    <3>1. SameWork(p, q) /\ q.pc = "saveFailure"
      BY <2>1, WorkMoves
    <3> QED
      BY <1>3, <3>1
  <2>2. CASE ~Abort(w, "saveFailure", "transient")
    <3>1. /\ q.pc = Step(p.node, p.update).pc /\ q.first = p.first /\ q.state = p.update /\ q.update = p.update
          /\ p.pc = "save"
      BY <1>10, <2>2, WorkMoves DEF SaveCheckpoint, At
    <3>2. q.pc \in {"node", "suspend", "complete"} /\ (q.pc = "complete" => p.node = "CreatePullRequest")
      BY <1>1, <3>1, StepFacts DEF Landing
    <3> QED
      BY <1>1, <3>1, <3>2 DEF Landing
  <2> QED
    BY <2>1, <2>2
<1>11. CASE Settle(w)
  BY <1>11, WorkMoves DEF Idle, FreshState
<1> QED
  BY <1>4, <1>5, <1>6, <1>7, <1>8, <1>9, <1>10, <1>11 DEF Execute

\* What an execution makes of the row: only its end reports it completed, only a
\* checkpoint touches the snapshot, only a suspension the review.
LEMMA RunMoves ==
  ASSUME TypeOK, NEW w \in Workers, Execute(w)
  PROVE  /\ run'.status = "COMPLETED" => run.status = "COMPLETED" \/ At(w, "complete")
         /\ \/ run'.snap = run.snap
            \/ At(w, "save") /\ Checkpoint(w, "CHECKPOINTED", worker[w].update)
            \/ At(w, "saveFailure") /\ Checkpoint(w, "FAILED", worker[w].state)
         /\ run'.review = run.review \/ Suspend(w)
<1> USE DEF TypeOK, RunRow
<1>1. ASSUME run' = run
      PROVE  /\ run'.status = "COMPLETED" => run.status = "COMPLETED"
             /\ run'.snap = run.snap
             /\ run'.review = run.review
  BY <1>1
<1>2. ASSUME NEW status, run' = [run EXCEPT !.status = status]
      PROVE  run'.status = status /\ run'.snap = run.snap /\ run'.review = run.review
  BY <1>2
<1>3. ASSUME NEW status, NEW s, Checkpoint(w, status, s)
      PROVE  run'.status = status /\ run'.review = run.review
  BY <1>3 DEF Checkpoint
<1>4. CASE \/ Resume(w) \/ SetupFails(w) \/ SkipNode(w) \/ LookupFails(w) \/ NodeSucceeds(w) \/ NodeFails(w)
           \/ Cleanup(w) \/ Settle(w)
  BY <1>1, <1>4 DEF Resume, Hydrated, SetupFails, SkipNode, LookupFails, NodeSucceeds, NodeFails, Cleanup, Settle
<1>5. CASE Start(w) \/ MarkRunning(w) \/ MarkFailed(w)
  BY <1>2, <1>5 DEF Start, MarkRunning, MarkFailed
<1>6. CASE Complete(w)
  BY <1>2, <1>6 DEF Complete
<1>7. CASE SaveCheckpoint(w)
  BY <1>1, <1>3, <1>7 DEF SaveCheckpoint
<1>8. CASE SaveFailure(w)
  BY <1>1, <1>3, <1>8 DEF SaveFailure
<1>9. CASE Suspend(w)
  BY <1>9 DEF Suspend
<1> QED
  BY <1>4, <1>5, <1>6, <1>7, <1>8, <1>9 DEF Execute

\* A checkpoint holds the graph state it is given, but for the verdict.
LEMMA CheckpointKeeps ==
  ASSUME TypeOK, NEW w \in Workers, NEW status, NEW s \in GraphState, Checkpoint(w, status, s)
  PROVE  /\ run'.snap.state.done = s.done /\ run'.snap.state.docs = s.docs
         /\ run'.snap.state.skip = s.skip
BY DEF Checkpoint, TypeOK, RunRow, GraphState

\* What was landed stays landed.
LEMMA LandedStays ==
  ASSUME TypeOK, [Next]_vars, Landed
  PROVE  Landed'
BY GitHubGrows DEF Grown, Landed

\* The invariant is inductive.
LEMMA LandingStep ==
  ASSUME OpensPullRequest, TypeOK, LandingInvariant, [Next]_vars
  PROVE  LandingInvariant'
<1>1. Landed => Landed'
  BY LandedStays
<1>2. ASSUME NEW x \in Workers, worker'[x] = worker[x]
      PROVE  Landing(worker[x])'
  BY <1>1, <1>2 DEF LandingInvariant, Landing, Landed
<1>3. ASSUME run' = run
      PROVE  ~run'.snap.state.skip /\ (run'.status = "COMPLETED" => Landed')
  BY <1>1, <1>3 DEF LandingInvariant
<1>4. ASSUME NEW w \in Workers, Execute(w)
      PROVE  LandingInvariant'
  <2>1. \A x \in Workers : Landing(worker[x])'
    BY <1>1, <1>2, <1>4, ExecuteFacts, LandingMoves
  <2>2. ~run'.snap.state.skip
    <3>1. Landing(worker[w]) /\ worker[w].state \in GraphState /\ worker[w].update \in GraphState
      BY DEF LandingInvariant, TypeOK, Process
    <3> QED
      BY <1>4, <3>1, RunMoves, CheckpointKeeps DEF LandingInvariant, Landing
  <2>3. run'.status = "COMPLETED" => Landed'
    BY <1>1, <1>4, RunMoves DEF LandingInvariant, Landing, At
  <2> QED
    BY <2>1, <2>2, <2>3 DEF LandingInvariant, Landed
<1>5. ASSUME NEW w \in Workers, Crash(w) \/ LoseLock(w) \/ \E j \in Jobs : Deliver(w, j)
      PROVE  LandingInvariant'
  <2>1. \A x \in Workers \ {w} : worker'[x] = worker[x]
    BY <1>5 DEF Crash, LoseLock, Deliver, TypeOK
  <2>2. \/ worker'[w] = worker[w]
        \/ /\ worker'[w].pc \in {"idle", "start", "resume"}
           /\ worker'[w].state = FreshState /\ worker'[w].update = FreshState
    <3>1. CASE Crash(w) \/ LoseLock(w)
      BY <3>1 DEF Crash, LoseLock, Idle, TypeOK
    <3>2. ASSUME NEW j \in Jobs, Deliver(w, j)
          PROVE  /\ worker'[w].pc \in {"start", "resume"}
                 /\ worker'[w].state = FreshState /\ worker'[w].update = FreshState
      BY <3>2 DEF Deliver, Idle, TypeOK, Job
    <3> QED
      BY <1>5, <3>1, <3>2
  <2>3. Landing(worker[w])'
    BY <1>2, <2>2 DEF Landing, FreshState, Landed
  <2>4. run' = run
    BY <1>5 DEF Crash, LoseLock, Deliver
  <2> QED
    BY <1>2, <1>3, <2>1, <2>3, <2>4 DEF LandingInvariant, Landed
<1>6. ASSUME UNCHANGED <<run, worker>>
      PROVE  LandingInvariant'
  BY <1>2, <1>3, <1>6 DEF LandingInvariant, Landed
<1> QED
  BY <1>4, <1>5, <1>6 DEF Next, vars, Redeliver, Decide, EnqueueResume, DropResume, Evict

\* A run that opens pull requests is reported as completed only when its documents
\* are on the remote branch and proposed, however many workers execute it at once and
\* however often they crash.
THEOREM CompletedRunsArePublished ==
  ASSUME OpensPullRequest
  PROVE  Spec => []CompletedIsPublished
<1>1. Init => LandingInvariant
  BY DEF Init, LandingInvariant, Landing, Idle, FreshState, NoSnapshot
<1>2. TypeOK /\ LandingInvariant /\ [Next]_vars => LandingInvariant'
  BY LandingStep
<1>3. LandingInvariant => CompletedIsPublished
  BY DEF LandingInvariant, Landed, CompletedIsPublished
<1> QED
  BY <1>1, <1>2, <1>3, TypeCorrect, PTL DEF Spec

-----------------------------------------------------------------------------
(* One driver at a time: as long as no job stalls, a run is acted for by one job,  *)
(* or waits for one answer, and never both.                                       *)

\* A process whose job is not going to be completed or failed by what it does next.
Carries(p) == p.pc # "idle" /\ ~(p.pc = "settle" /\ p.err # "transient")

\* A job that makes the run go on.
Drives(j) ==
  \/ jobs[j].state = "waiting"
  \/ \E w \in Workers : worker[w].job = j /\ Carries(worker[w])

\* The reviews on whose answer, or on whose resume job, the run waits.
Asked == PendingReviews \cup owed

JobsAreOwned ==
  /\ \A w \in Workers : At(w, "idle") \/ (Owns(w) /\ jobs[worker[w].job].state = "active")
  /\ \A j \in Jobs : jobs[j].state = "active" => jobs[j].owner # NoWorker

OneDriver ==
  /\ \A j, k \in Jobs : Drives(j) /\ Drives(k) => j = k
  /\ \A r, q \in Asked : r = q
  /\ \A j \in Jobs : Drives(j) => Asked = {}

\* The first attempt of the first job finds nothing done.
Untouched == run.review = NoReview /\ run.snap.state.done = {}

Unharmed == {"start", "resume", "mark", "node", "save", "suspend", "complete"}

Begun(p) ==
  /\ p.pc = "start" => Untouched
  /\ p.pc \in {"start", "resume"} => p.node = "EarlySkip" /\ p.state = FreshState
  /\ p.pc \in Unharmed => p.err = "none"

Beginnings ==
  /\ \A j \in Jobs : jobs[j].state = "waiting" /\ jobs[j].mode = "start" /\ jobs[j].attempts = 0 => Untouched
  /\ \A w \in Workers : Begun(worker[w])

ApprovedDocs == {reviews[r].docs : r \in Approved}

\* A process in the graph works on what the checkpoint holds; from an approval on, on
\* the documents that were approved, and it publishes only from then on.
Entered(p) == p.pc \in {"mark", "node", "save", "saveFailure"}

Faithful(p) ==
  /\ run.snap.state.done \subseteq p.state.done
  /\ p.pc = "save" => run.snap.state.done \subseteq p.update.done
  /\ CurrentVerdict = "APPROVED" => p.first = "GitCommit" /\ p.state.docs \in ApprovedDocs
  /\ CurrentVerdict = "APPROVED" /\ p.pc = "save" => p.update.docs \in ApprovedDocs
  /\ p.state.verdict = "APPROVED" => CurrentVerdict = "APPROVED"
  /\ p.pc = "save" /\ p.update.verdict = "APPROVED" => CurrentVerdict = "APPROVED"
  /\ p.node \in Publishing => CurrentVerdict = "APPROVED"

WorkIsFaithful ==
  /\ CurrentVerdict = "APPROVED" => run.snap.state.docs \in ApprovedDocs
  /\ \A w \in Workers : Entered(worker[w]) => Faithful(worker[w])
  /\ \A r \in owed : reviews[r].status \in {"APPROVED", "REJECTED"}

SoleDriver ==
  /\ budget["stalls"] = 0
  /\ JobsAreOwned
  /\ OneDriver
  /\ Beginnings
  /\ WorkIsFaithful
  /\ PublishedDocsApproved

\* While one process carries the run, nobody else does and nothing is asked.
LEMMA WorkAlone ==
  ASSUME JobsAreOwned, OneDriver, NEW w \in Workers, Carries(worker[w])
  PROVE  /\ worker[w].job \in Jobs /\ jobs[worker[w].job].state = "active" /\ Drives(worker[w].job)
         /\ \A x \in Workers \ {w} : ~Carries(worker[x])
         /\ \A j \in Jobs : jobs[j].state # "waiting"
         /\ Asked = {}
<1>1. \A x \in Workers : Carries(worker[x]) =>
        /\ worker[x].job \in Jobs /\ jobs[worker[x].job].owner = x /\ jobs[worker[x].job].state = "active"
        /\ Drives(worker[x].job)
  BY DEF JobsAreOwned, Carries, Drives, Owns, At
<1>2. \A x \in Workers \ {w} : ~Carries(worker[x])
  BY <1>1 DEF OneDriver
<1>3. \A j \in Jobs : jobs[j].state = "waiting" => Drives(j)
  BY DEF Drives
<1> QED
  BY <1>1, <1>2, <1>3 DEF OneDriver

\* Where an execution that gives up, or is over, goes from.
EndsWork(w) ==
  \/ SetupFails(w) \/ LookupFails(w) \/ NodeFails(w) \/ SaveFailure(w)
  \/ Suspend(w) \/ Complete(w) \/ MarkFailed(w) \/ Cleanup(w)
  \/ Resume(w) /\ run.status = "COMPLETED"
  \/ MarkRunning(w) /\ worker[w].first = "EarlySkip"
  \/ SaveCheckpoint(w) /\ Abort(w, "saveFailure", "transient")

LEMMA WorkEnds ==
  ASSUME TypeOK, NEW w \in Workers, EndsWork(w)
  PROVE  /\ SameWork(worker[w], worker'[w])
         /\ worker'[w].pc \in {"settle", "cleanup", "markFailed", "saveFailure"}
         /\ worker'[w].pc = "saveFailure" => worker[w].pc \in {"node", "save"}
<1>1. CASE \E pc \in {"settle", "cleanup", "markFailed"} : Goto(w, pc)
  BY <1>1, WorkMoves
<1>2. CASE \E pc \in {"settle", "markFailed"} : Abort(w, pc, "transient")
  BY <1>2, WorkMoves
<1>3. CASE /\ worker[w].pc \in {"node", "save"}
           /\ \E kind \in {"transient"} \cup FailureKinds : Abort(w, "saveFailure", kind)
  BY <1>3, WorkMoves
<1> QED
  BY <1>1, <1>2, <1>3
     DEF EndsWork, SetupFails, LookupFails, NodeFails, SaveFailure, Suspend, Complete, MarkFailed, Cleanup, Resume,
         MarkRunning, SaveCheckpoint, At

\* An execution that is not over keeps its job busy.
LEMMA WorkGoesOn ==
  ASSUME TypeOK, NEW w \in Workers, Execute(w), ~Settle(w)
  PROVE  /\ Carries(worker[w])
         /\ worker'[w].pc \notin {"idle", "start", "resume"}
         /\ worker'[w].job = worker[w].job
         /\ UNCHANGED <<jobs, owed>>
<1>1. /\ worker[w].pc \notin {"idle", "settle"}
      /\ UNCHANGED <<jobs, owed>>
  BY DEF Execute, Start, Resume, Hydrated, MarkRunning, SetupFails, LookupFails, SkipNode, NodeSucceeds, NodeFails,
         SaveCheckpoint, SaveFailure, Suspend, Complete, MarkFailed, Cleanup, At
<1>2. worker'[w].job = worker[w].job /\ worker'[w].pc \notin {"idle", "start", "resume"}
  <2>1. CASE EndsWork(w)
    BY <2>1, WorkEnds DEF SameWork
  <2>2. CASE MarkRunning(w) /\ ~EndsWork(w)
    BY <2>2, WorkMoves DEF EndsWork, MarkRunning, SameWork
  <2>3. CASE \/ Start(w) \/ NodeSucceeds(w)
             \/ Resume(w) /\ run.status # "COMPLETED"
    BY <2>3, WorkMoves
  <2>4. CASE SkipNode(w) \/ (SaveCheckpoint(w) /\ ~EndsWork(w))
    <3>1. worker[w].node \in Node /\ worker[w].state \in GraphState /\ worker[w].update \in GraphState
      BY DEF TypeOK, Process
    <3> QED
      BY <2>4, <3>1, WorkMoves, StepType DEF EndsWork
  <2> QED
    BY <2>1, <2>2, <2>3, <2>4 DEF Execute, EndsWork
<1> QED
  BY <1>1, <1>2 DEF Carries

\* Nothing stalls when nothing may.
LEMMA NothingStalls ==
  ASSUME TypeOK, budget["stalls"] = 0, [Next]_vars
  PROVE  /\ budget'["stalls"] = 0
         /\ \A w \in Workers : ~Crash(w) /\ ~LoseLock(w)
<1>1. "stalls" \in Faults /\ budget \in [Faults -> Nat]
  BY DEF Faults, TypeOK
<1>2. \A w \in Workers : ~Crash(w) /\ ~LoseLock(w)
  BY DEF Crash, LoseLock, Spend
<1>3. ASSUME NEW fault \in {"failures", "rejections", "evictions", "drops"}, Spend(fault)
      PROVE  budget'["stalls"] = 0
  BY <1>1, <1>3 DEF Spend
<1>4. ASSUME NEW w \in Workers, Execute(w)
      PROVE  budget'["stalls"] = 0
  BY <1>3, <1>4 DEF Execute, Start, Resume, Hydrated, MarkRunning, SetupFails, LookupFails, SkipNode, NodeSucceeds,
     NodeFails, SaveCheckpoint, SaveFailure, Suspend, Complete, MarkFailed, Cleanup, Settle
<1> QED
  BY <1>2, <1>3, <1>4
     DEF Next, vars, Deliver, Redeliver, Decide, EnqueueResume, DropResume, Evict

\* Who acts for the run changes hands in the queue and at the reviewer.
LEMMA SettledJob ==
  ASSUME TypeOK, JobsAreOwned, NEW w \in Workers, Settle(w)
  PROVE  LET j == worker[w].job IN
         /\ j \in Jobs /\ jobs[j].owner = w
         /\ \A k \in Jobs \ {j} : jobs'[k] = jobs[k]
         /\ \A x \in Workers \ {w} : worker'[x] = worker[x] /\ (At(x, "idle") \/ worker[x].job # j)
         /\ worker'[w] = Idle
         /\ jobs'[j].state \in {"waiting", "completed", "failed"}
         /\ jobs'[j].state = "waiting" => Carries(worker[w]) /\ jobs'[j].attempts > 0
<1> DEFINE j == worker[w].job
<1>1. j \in Jobs /\ jobs[j].owner = w /\ At(w, "settle")
  BY DEF Settle, JobsAreOwned, At, Owns
<1>2. jobs' = [jobs EXCEPT ![j] = JobAfter(@, worker[w].err)] /\ worker' = [worker EXCEPT ![w] = Idle]
  BY <1>1 DEF Settle, Owns
<1>3. jobs[j] \in Job /\ worker[w].err \in {"none", "transient", "permanent"}
  BY <1>1 DEF TypeOK, Process
<1>4. jobs'[j] = JobAfter(jobs[j], worker[w].err)
  BY <1>1, <1>2 DEF TypeOK
<1>5. jobs'[j].state \in {"waiting", "completed", "failed"}
      /\ (jobs'[j].state = "waiting" => worker[w].err = "transient" /\ jobs'[j].attempts > 0)
  <2>1. CASE worker[w].err = "none"
    BY <1>3, <1>4, <2>1 DEF JobAfter, Job
  <2>2. CASE worker[w].err = "permanent"
    BY <1>3, <1>4, <2>2 DEF JobAfter, Job
  <2>3. CASE worker[w].err = "transient"
    <3> DEFINE state == IF jobs[j].attempts + 1 < MaxAttempts THEN "waiting" ELSE "failed"
    <3>1. jobs'[j] = [jobs[j] EXCEPT !.attempts = @ + 1, !.owner = NoWorker, !.state = state]
      BY <1>4, <2>3 DEF JobAfter
    <3>2. state \in {"waiting", "failed"}
      OBVIOUS
    <3> HIDE DEF state
    <3>3. jobs'[j].state = state /\ jobs'[j].attempts = jobs[j].attempts + 1 /\ jobs[j].attempts \in Nat
      BY <1>3, <3>1 DEF Job
    <3> QED
      BY <2>3, <3>2, <3>3
  <2> QED
    BY <1>3, <2>1, <2>2, <2>3
<1>6. \A x \in Workers \ {w} : worker'[x] = worker[x] /\ (At(x, "idle") \/ worker[x].job # j)
  BY <1>1, <1>2 DEF TypeOK, JobsAreOwned, Owns
<1> QED
  BY <1>1, <1>2, <1>5, <1>6 DEF TypeOK, Carries, At

\* A busy process owns its job, and the job is active.
LEMMA OwnedStep ==
  ASSUME TypeOK, BusyHasJob, SoleDriver, [Next]_vars
  PROVE  JobsAreOwned'
<1> USE DEF SoleDriver
<1>1. /\ \A w \in Workers : worker[w].pc = "idle" \/ (Owns(w) /\ jobs[worker[w].job].state = "active")
      /\ \A j \in Jobs : jobs[j].state = "active" => jobs[j].owner # NoWorker
  BY DEF JobsAreOwned, At
<1>2. ASSUME NEW w \in Workers, Execute(w), ~Settle(w)
      PROVE  JobsAreOwned'
  BY <1>1, <1>2, WorkGoesOn, ExecuteFacts DEF Carries, JobsAreOwned, Owns, At
<1>3. ASSUME NEW w \in Workers, Settle(w)
      PROVE  JobsAreOwned'
  BY <1>1, <1>3, SettledJob DEF JobsAreOwned, Owns, At, Idle
<1>4. ASSUME NEW w \in Workers, NEW j \in Jobs, Deliver(w, j)
      PROVE  JobsAreOwned'
  <2>1. /\ jobs[j].state = "waiting"
        /\ jobs'[j].state = "active" /\ jobs'[j].owner = w
        /\ \A k \in Jobs \ {j} : jobs'[k] = jobs[k]
        /\ worker'[w].job = j
        /\ \A x \in Workers \ {w} : worker'[x] = worker[x]
    BY <1>4 DEF Deliver, TypeOK, Job, Idle
  <2> QED
    BY <1>1, <2>1, LifecycleAssumption DEF JobsAreOwned, Owns, At
<1>5. ASSUME NEW r \in Reviews, NEW j \in Jobs, EnqueueResume(r, j)
      PROVE  JobsAreOwned'
  <2>1. /\ jobs[j].state = "unused" /\ jobs'[j].state = "waiting"
        /\ \A k \in Jobs \ {j} : jobs'[k] = jobs[k]
        /\ worker' = worker
    BY <1>5 DEF EnqueueResume, NewJob, UnusedJob, TypeOK
  <2> QED
    BY <1>1, <2>1 DEF JobsAreOwned, Owns, At
<1>6. ASSUME UNCHANGED <<jobs, worker>>
      PROVE  JobsAreOwned'
  BY <1>1, <1>6 DEF JobsAreOwned, Owns, At
<1>7. ASSUME NEW j \in Jobs
      PROVE  ~Redeliver(j)
  BY <1>1 DEF Redeliver
<1> QED
  BY <1>2, <1>3, <1>4, <1>5, <1>6, <1>7, NothingStalls
     DEF Next, Execute, vars, Decide, DropResume, Evict

\* Nobody new acts for the run, and nothing new is asked.
NoNewDriver == (\A j \in Jobs : Drives(j)' => Drives(j)) /\ Asked' \subseteq Asked

LEMMA NoNewDriverSuffices ==
  ASSUME OneDriver, NoNewDriver
  PROVE  OneDriver'
<1>1. \A j, k \in Jobs : Drives(j)' /\ Drives(k)' => j = k
  BY DEF OneDriver, NoNewDriver
<1>2. \A r, q \in Asked' : r = q
  BY DEF OneDriver, NoNewDriver
<1>3. \A j \in Jobs : Drives(j)' => Asked' = {}
  BY DEF OneDriver, NoNewDriver
<1> QED
  BY <1>1, <1>2, <1>3 DEF OneDriver

\* A suspension passes the run to the reviewer, and the resume job takes it back.
LEMMA DriverStep ==
  ASSUME TypeOK, BusyHasJob, SoleDriver, [Next]_vars
  PROVE  OneDriver'
<1> USE DEF SoleDriver
<1>1. ASSUME NEW w \in Workers, Execute(w), ~Settle(w), ~Suspend(w)
      PROVE  NoNewDriver
  <2>1. reviews' = reviews
    BY <1>1 DEF Execute, Start, Resume, Hydrated, MarkRunning, SetupFails, LookupFails, SkipNode, NodeSucceeds,
       NodeFails, SaveCheckpoint, SaveFailure, Complete, MarkFailed, Cleanup
  <2>2. Asked' = Asked
    BY <1>1, <2>1, WorkGoesOn DEF Asked, PendingReviews
  <2>3. ASSUME NEW j \in Jobs, Drives(j)'
        PROVE  Drives(j)
    <3>1. CASE jobs'[j].state = "waiting"
      BY <1>1, <3>1, WorkGoesOn DEF Drives
    <3>2. ASSUME NEW x \in Workers, worker'[x].job = j, Carries(worker'[x])
          PROVE  Drives(j)
      BY <1>1, <3>2, WorkGoesOn, ExecuteFacts DEF Drives
    <3> QED
      BY <2>3, <3>1, <3>2 DEF Drives, Carries
  <2> QED
    BY <2>2, <2>3 DEF NoNewDriver
<1>2. ASSUME NEW w \in Workers, Suspend(w)
      PROVE  OneDriver'
  <2>1. /\ Carries(worker[w]) /\ worker[w].err = "none"
        /\ UNCHANGED <<jobs, owed>>
        /\ \A x \in Workers \ {w} : worker'[x] = worker[x]
    BY <1>2, WorkGoesOn, ExecuteFacts
       DEF Execute, Settle, Suspend, At, Beginnings, Begun, Unharmed
  <2>2. /\ \A x \in Workers \ {w} : ~Carries(worker[x])
        /\ \A j \in Jobs : jobs[j].state # "waiting"
        /\ Asked = {}
    BY <2>1, WorkAlone
  <2>3. PICK r \in Reviews : /\ reviews[r].status = "NONE"
                             /\ reviews' = [reviews EXCEPT ![r].status = "PENDING"]
    BY <1>2, <2>2 DEF Suspend, Asked
  <2>4. Asked' \subseteq {r}
    BY <2>1, <2>2, <2>3 DEF Asked, PendingReviews, TypeOK
  <2>5. worker'[w].pc = "settle" /\ worker'[w].err = "none"
    <3>1. Goto(w, "settle")
      BY <1>2, <2>2 DEF Suspend, Asked
    <3>2. worker'[w].pc = "settle" /\ worker'[w].err = worker[w].err
      BY <3>1, WorkMoves
    <3> QED
      BY <2>1, <3>2
  <2>6. \A j \in Jobs : ~Drives(j)'
    BY <2>1, <2>2, <2>5 DEF Drives, Carries
  <2> QED
    BY <2>4, <2>6 DEF OneDriver
<1>3. ASSUME NEW w \in Workers, Settle(w)
      PROVE  NoNewDriver
  <2>1. Asked' = Asked
    BY <1>3 DEF Settle, Asked, PendingReviews
  <2>2. ASSUME NEW j \in Jobs, Drives(j)'
        PROVE  Drives(j)
    BY <1>3, <2>2, SettledJob DEF Drives, Carries, Idle
  <2> QED
    BY <2>1, <2>2 DEF NoNewDriver
<1>4. ASSUME NEW w \in Workers, NEW j \in Jobs, Deliver(w, j)
      PROVE  NoNewDriver
  <2>1. /\ jobs[j].state = "waiting"
        /\ jobs'[j].state = "active"
        /\ \A k \in Jobs \ {j} : jobs'[k] = jobs[k]
        /\ worker'[w].job = j
        /\ \A x \in Workers \ {w} : worker'[x] = worker[x]
        /\ UNCHANGED <<reviews, owed>>
    BY <1>4 DEF Deliver, TypeOK, Job, Idle
  <2>2. Asked' = Asked
    BY <2>1 DEF Asked, PendingReviews
  <2>3. ASSUME NEW k \in Jobs, Drives(k)'
        PROVE  Drives(k)
    BY <2>1, <2>3 DEF Drives, Carries
  <2> QED
    BY <2>2, <2>3 DEF NoNewDriver
<1>5. ASSUME NEW r \in Reviews, NEW v \in {"APPROVED", "REJECTED"}, Decide(r, v)
      PROVE  NoNewDriver
  <2>1. /\ reviews[r].status = "PENDING" /\ owed' = owed \cup {r}
        /\ reviews'[r].status = v
        /\ \A q \in Reviews \ {r} : reviews'[q] = reviews[q]
        /\ UNCHANGED <<jobs, worker>>
    BY <1>5 DEF Decide, TypeOK, ReviewRow
  <2>2. Asked' \subseteq Asked
    BY <2>1 DEF Asked, PendingReviews
  <2>3. \A j \in Jobs : Drives(j)' => Drives(j)
    BY <2>1 DEF Drives, Carries
  <2> QED
    BY <2>2, <2>3 DEF NoNewDriver
<1>6. ASSUME NEW r \in Reviews, NEW j \in Jobs, EnqueueResume(r, j)
      PROVE  OneDriver'
  <2>1. /\ jobs[j].state = "unused"
        /\ \A k \in Jobs \ {j} : jobs'[k] = jobs[k]
        /\ r \in owed /\ owed' = owed \ {r}
        /\ UNCHANGED <<worker, reviews>>
    BY <1>6 DEF EnqueueResume, TypeOK
  <2>2. Asked = {r} /\ \A k \in Jobs : ~Drives(k)
    BY <2>1 DEF OneDriver, Asked
  <2>3. Asked' = {}
    <3>1. reviews[r].status # "PENDING"
      BY <2>1 DEF WorkIsFaithful
    <3> QED
      BY <2>1, <2>2, <3>1 DEF Asked, PendingReviews
  <2>4. ASSUME NEW k \in Jobs \ {j}
        PROVE  ~Drives(k)'
    BY <2>1, <2>2, <2>4 DEF Drives, Carries
  <2> QED
    BY <2>3, <2>4 DEF OneDriver
<1>7. ASSUME UNCHANGED <<jobs, worker, reviews>>, owed' \subseteq owed
      PROVE  NoNewDriver
  <2>1. Asked' \subseteq Asked
    BY <1>7 DEF Asked, PendingReviews
  <2>2. \A j \in Jobs : Drives(j)' => Drives(j)
    BY <1>7 DEF Drives, Carries
  <2> QED
    BY <2>1, <2>2 DEF NoNewDriver
<1>8. ASSUME NEW j \in Jobs
      PROVE  ~Redeliver(j)
  BY DEF Redeliver, JobsAreOwned
<1> QED
  BY <1>1, <1>2, <1>3, <1>4, <1>5, <1>6, <1>7, <1>8, NothingStalls, NoNewDriverSuffices
     DEF Next, Execute, vars, DropResume, Evict

\* A process that has not failed says so.
LEMMA StaysUnharmed ==
  ASSUME TypeOK, Beginnings, NEW w \in Workers, Execute(w), ~Settle(w), worker'[w].pc \in Unharmed
  PROVE  worker'[w].err = "none"
<1>1. worker[w].pc \in Unharmed => worker[w].err = "none"
  BY DEF Beginnings, Begun
<1>2. ~EndsWork(w)
  BY WorkEnds DEF Unharmed
<1>3. /\ worker'[w].err = worker[w].err
      /\ worker[w].pc \in Unharmed
  BY <1>2, WorkMoves
     DEF Execute, EndsWork, Start, Resume, MarkRunning, SkipNode, NodeSucceeds, SaveCheckpoint, At, Unharmed, SameWork
<1> QED
  BY <1>1, <1>3

\* The first attempt of the first job finds nothing done; later work starts afresh in memory.
LEMMA BeginningsStep ==
  ASSUME TypeOK, BusyHasJob, SoleDriver, [Next]_vars
  PROVE  Beginnings'
<1> USE DEF SoleDriver
<1>1. /\ \A j \in Jobs : jobs[j].state = "waiting" /\ jobs[j].mode = "start" /\ jobs[j].attempts = 0 => Untouched
      /\ \A w \in Workers : Begun(worker[w])
  BY DEF Beginnings
<1>2. ASSUME NEW x \in Workers, worker'[x] = worker[x], run' = run
      PROVE  Begun(worker[x])'
  BY <1>1, <1>2 DEF Begun, Untouched
<1>3. ASSUME NEW x \in Workers, worker'[x] = worker[x], ~Carries(worker[x])
      PROVE  Begun(worker[x])'
  BY <1>3 DEF Begun, Carries, Unharmed
<1>4. ASSUME NEW w \in Workers, Execute(w), ~Settle(w)
      PROVE  Beginnings'
  <2>1. Carries(worker[w]) /\ worker'[w].pc \notin {"idle", "start", "resume"} /\ UNCHANGED jobs
    BY <1>4, WorkGoesOn
  <2>2. \A j \in Jobs : jobs'[j].state # "waiting"
    BY <2>1, WorkAlone
  <2>3. \A x \in Workers \ {w} : Begun(worker[x])'
    BY <1>3, <1>4, <2>1, WorkAlone, ExecuteFacts
  <2>4. Begun(worker[w])'
    BY <1>4, <2>1, StaysUnharmed DEF Begun
  <2> QED
    BY <2>2, <2>3, <2>4 DEF Beginnings
<1>5. ASSUME NEW w \in Workers, Settle(w)
      PROVE  Beginnings'
  <2>1. run' = run
    BY <1>5 DEF Settle
  <2>2. \A x \in Workers : Begun(worker[x])'
    <3>1. Begun(worker[w])'
      BY <1>5, SettledJob DEF Begun, Idle, Unharmed
    <3> QED
      BY <1>2, <1>5, <2>1, <3>1, SettledJob
  <2>3. \A j \in Jobs : jobs'[j].state = "waiting" /\ jobs'[j].mode = "start" /\ jobs'[j].attempts = 0 => Untouched
    <3>1. worker[w].job \in Jobs /\ jobs'[worker[w].job] \in Job
      BY <1>5, SettledJob, SettleType DEF TypeOK
    <3>2. jobs'[worker[w].job].attempts > 0 => jobs'[worker[w].job].attempts # 0
      BY <3>1 DEF Job
    <3> QED
      BY <1>1, <1>5, <3>2, SettledJob
  <2> QED
    BY <2>1, <2>2, <2>3 DEF Beginnings, Untouched
<1>6. ASSUME NEW w \in Workers, NEW j \in Jobs, Deliver(w, j)
      PROVE  Beginnings'
  <2>1. /\ jobs[j].state = "waiting" /\ jobs[j] \in Job
        /\ jobs'[j].state = "active"
        /\ \A k \in Jobs \ {j} : jobs'[k] = jobs[k]
        /\ \A x \in Workers \ {w} : worker'[x] = worker[x]
        /\ run' = run
    BY <1>6 DEF Deliver, TypeOK, Job
  <2>2. /\ worker'[w].pc = IF jobs[j].attempts > 0 THEN "resume" ELSE jobs[j].mode
        /\ worker'[w].node = "EarlySkip" /\ worker'[w].state = FreshState /\ worker'[w].err = "none"
    BY <1>6 DEF Deliver, TypeOK, Idle
  <2>3. worker'[w].pc = "start" => jobs[j].mode = "start" /\ jobs[j].attempts = 0
    BY <2>1, <2>2 DEF Job
  <2>4. Begun(worker[w])'
    BY <1>1, <2>1, <2>2, <2>3 DEF Begun, Untouched
  <2> QED
    BY <1>1, <1>2, <2>1, <2>4 DEF Beginnings, Untouched
<1>7. ASSUME NEW r \in Reviews, NEW j \in Jobs, EnqueueResume(r, j)
      PROVE  Beginnings'
  <2>1. /\ jobs'[j].mode = "resume"
        /\ \A k \in Jobs \ {j} : jobs'[k] = jobs[k]
        /\ UNCHANGED <<worker, run>>
    BY <1>7 DEF EnqueueResume, NewJob, UnusedJob, TypeOK
  <2> QED
    BY <1>1, <1>2, <2>1 DEF Beginnings, Untouched
<1>8. ASSUME UNCHANGED <<jobs, worker, run>>
      PROVE  Beginnings'
  BY <1>1, <1>2, <1>8 DEF Beginnings, Untouched
<1>9. ASSUME NEW j \in Jobs
      PROVE  ~Redeliver(j)
  BY DEF Redeliver, JobsAreOwned
<1> QED
  BY <1>4, <1>5, <1>6, <1>7, <1>8, <1>9, NothingStalls
     DEF Next, Execute, vars, Decide, DropResume, Evict

\* What was approved stays approved, the documents included.
LEMMA ApprovalsStand ==
  ASSUME TypeOK, [Next]_vars
  PROVE  /\ ApprovedDocs \subseteq ApprovedDocs'
         /\ \A r \in Reviews : reviews[r].status = "APPROVED" => reviews'[r] = reviews[r]
<1>1. ASSUME NEW r \in Reviews, reviews[r].status = "APPROVED"
      PROVE  reviews'[r] = reviews[r]
  <2> USE <1>1 DEF TypeOK, ReviewRow
  <2>1. CASE reviews' = reviews
    BY <2>1
  <2>2. CASE \E q \in Reviews : /\ reviews[q].status = "NONE"
                                /\ reviews' = [reviews EXCEPT ![q].status = "PENDING"]
    BY <2>2
  <2>3. CASE \E q \in Reviews, v \in {"APPROVED", "REJECTED"} :
               /\ reviews[q].status = "PENDING"
               /\ reviews' = [reviews EXCEPT ![q] = [status |-> v, docs |-> run.snap.state.docs]]
    BY <2>3
  <2> QED
    BY <2>1, <2>2, <2>3, ReviewStep
<1> QED
  BY <1>1 DEF ApprovedDocs, Approved

\* Generations that are committed or pushed.
Carried(x) == (x.local \cup x.remote) \ {0}

\* Neither a clone nor a node but the commit puts a generation anywhere it was not,
\* and the commit puts there the documents of its graph state.
LEMMA EffectsCarry ==
  ASSUME TypeOK, NEW n \in Node, NEW docs \in Nat, NEW x \in Cloned \cup Effects(n, docs)
  PROVE  x \in Site /\ Carried(x) \subseteq Carried(site) \cup (IF n = "GitCommit" THEN {docs} ELSE {})
<1> USE DEF TypeOK, Site
<1>0. x \in Site
  BY ClonedType, EffectsType
<1>1. ASSUME x \in Cloned
      PROVE  Carried(x) \subseteq Carried(site)
  <2>1. CASE x = site
    BY <2>1
  <2>2. ASSUME NEW branch \in {{}, site.remote \cup {0}},
               x = [site EXCEPT !.workspace = TRUE, !.local = branch]
        PROVE  Carried(x) \subseteq Carried(site)
    <3>1. x.local = branch /\ x.remote = site.remote
      BY <2>2
    <3> QED
      BY <3>1 DEF Carried
  <2> QED
    BY <1>1, <2>1, <2>2 DEF Cloned
<1>2. CASE x \in Effects(n, docs) /\ n = "RepositoryAnalyzer"
  BY <1>0, <1>1, <1>2 DEF Effects
<1>3. CASE x \in Effects(n, docs) /\ n = "GitCommit"
  <2>1. PICK base \in {{}, site.remote, site.local} : x = [site EXCEPT !.local = base \cup {docs}]
    BY <1>3 DEF Effects, Committed
  <2>2. x.local = base \cup {docs} /\ x.remote = site.remote
    BY <2>1
  <2> QED
    BY <1>0, <1>3, <2>2 DEF Carried
<1>4. CASE x \in Effects(n, docs) /\ n = "PushBranch"
  <2>1. x = [site EXCEPT !.remote = @ \cup site.local]
    BY <1>4 DEF Effects, Pushed
  <2>2. x.local = site.local /\ x.remote = site.remote \cup site.local
    BY <2>1
  <2> QED
    BY <1>0, <2>2 DEF Carried
<1>5. CASE x \in Effects(n, docs) /\ n = "CreatePullRequest"
  <2>1. x = [site EXCEPT !.pr = @ \/ OpensPullRequest]
    BY <1>5 DEF Effects
  <2>2. x.local = site.local /\ x.remote = site.remote
    BY <2>1
  <2> QED
    BY <1>0, <2>2 DEF Carried
<1>6. CASE /\ x \in Effects(n, docs)
           /\ n \notin {"RepositoryAnalyzer", "GitCommit", "PushBranch", "CreatePullRequest"}
  BY <1>0, <1>6 DEF Effects
<1> QED
  BY <1>0, <1>1, <1>2, <1>3, <1>4, <1>5, <1>6

\* Only approved documents are committed or pushed.
LEMMA PublishedStep ==
  ASSUME TypeOK, BusyHasJob, SoleDriver, [Next]_vars
  PROVE  PublishedDocsApproved'
<1> USE DEF SoleDriver
<1>1. ApprovedDocs \subseteq ApprovedDocs'
  BY ApprovalsStand
<1>2. Carried(site) \subseteq ApprovedDocs
  BY DEF PublishedDocsApproved, Carried, ApprovedDocs
<1>3. SUFFICES Carried(site') \subseteq ApprovedDocs
  BY <1>1 DEF PublishedDocsApproved, Carried, ApprovedDocs
<1>4. \A x \in Site : Carried([x EXCEPT !.local = {}]) \subseteq Carried(x)
      /\ Carried([x EXCEPT !.workspace = FALSE, !.local = {}]) \subseteq Carried(x)
  BY DEF Carried, Site
<1>5. site \in Site
  BY DEF TypeOK
<1>6. ASSUME NEW w \in Workers, NodeSucceeds(w) \/ NodeFails(w)
      PROVE  Carried(site') \subseteq ApprovedDocs
  <2> DEFINE n == worker[w].node
             docs == worker[w].state.docs
  <2>1. n \in Node /\ docs \in Nat
    BY DEF TypeOK, Process, GraphState
  <2>2. Faithful(worker[w])
    BY <1>6 DEF NodeSucceeds, NodeFails, At, Entered, WorkIsFaithful
  <2>3. n = "GitCommit" => docs \in ApprovedDocs
    BY <2>2 DEF Faithful, Publishing
  <2>4. \A x \in {site} \cup Effects(n, docs) : x \in Site /\ Carried(x) \subseteq ApprovedDocs
    <3> HIDE DEF n, docs
    <3> QED
      BY <1>2, <1>5, <2>1, <2>3, EffectsCarry
  <2>5. \E x \in {site} \cup Effects(n, docs) : site' = x \/ site' = [x EXCEPT !.local = {}]
    BY <1>6 DEF NodeSucceeds, NodeFails, RolledBack
  <2> QED
    BY <1>4, <2>4, <2>5
<1>7. ASSUME NEW w \in Workers, Resume(w) \/ SetupFails(w)
      PROVE  Carried(site') \subseteq ApprovedDocs
  <2>1. "EarlySkip" \in Node /\ 0 \in Nat
    BY NodeEnumerated
  <2>2. \A x \in Cloned : Carried(x) \subseteq Carried(site)
    BY <2>1, EffectsCarry
  <2>3. site' \in Cloned \/ site' = site
    BY <1>7 DEF Resume, Hydrated, SetupFails
  <2> QED
    BY <1>2, <2>2, <2>3
<1>8. ASSUME \/ \E w \in Workers : Cleanup(w)
             \/ Evict
      PROVE  Carried(site') \subseteq ApprovedDocs
  BY <1>2, <1>4, <1>5, <1>8 DEF Cleanup, Evict
<1>9. ASSUME UNCHANGED site
      PROVE  Carried(site') \subseteq ApprovedDocs
  BY <1>2, <1>9
<1> QED
  BY <1>6, <1>7, <1>8, <1>9
     DEF Next, Execute, vars, Start, MarkRunning, LookupFails, SkipNode, SaveCheckpoint, SaveFailure, Suspend,
     Complete, MarkFailed, Settle, Crash, LoseLock, Deliver, Redeliver, Decide, EnqueueResume,
     DropResume

\* What a node returns keeps what it was given; only the writer makes new documents.
LEMMA OutputsKeepWork ==
  ASSUME NEW n \in Node, NEW s \in GraphState, NEW generation \in Nat,
         NEW out \in Outputs(n, s, generation)
  PROVE  s.done \subseteq out.done /\ (n # "TechnicalWriter" => out.docs = s.docs)
<1>1. CASE n = "EarlySkip"
  <2>1. PICK b \in BOOLEAN : out = [s EXCEPT !.done = @ \cup {n}, !.skip = b]
    BY <1>1 DEF Outputs
  <2> QED
    BY <2>1 DEF GraphState
<1>2. CASE n = "TechnicalWriter"
  <2>1. \E k : out = [s EXCEPT !.done = @ \cup {n}, !.docs = generation, !.iter = k, !.verdict = "NONE"]
    BY <1>2 DEF Outputs
  <2> QED
    BY <1>2, <2>1 DEF GraphState
<1>3. CASE n \notin {"EarlySkip", "TechnicalWriter"}
  <2>1. out = [s EXCEPT !.done = @ \cup {n}]
    BY <1>3 DEF Outputs
  <2> QED
    BY <2>1 DEF GraphState
<1> QED
  BY <1>1, <1>2, <1>3

\* The verdict a process reads does not change under its steps, but by a suspension.
LEMMA VerdictStays ==
  ASSUME TypeOK, NEW w \in Workers, Execute(w), ~Suspend(w)
  PROVE  reviews' = reviews /\ CurrentVerdict' = CurrentVerdict /\ ApprovedDocs' = ApprovedDocs
<1>1. reviews' = reviews
  BY DEF Execute, Start, Resume, Hydrated, MarkRunning, SetupFails, LookupFails, SkipNode, NodeSucceeds,
     NodeFails, SaveCheckpoint, SaveFailure, Complete, MarkFailed, Cleanup, Settle
<1>2. run'.review = run.review
  BY RunMoves
<1> QED
  BY <1>1, <1>2 DEF CurrentVerdict, ApprovedDocs, Approved

\* The process that goes on stays faithful to the checkpoint and to the verdict.
LEMMA FaithfulMoves ==
  ASSUME TypeOK, BusyHasJob, SoleDriver, NEW w \in Workers, Execute(w), ~Suspend(w), Entered(worker'[w])
  PROVE  Faithful(worker[w])'
<1> USE DEF SoleDriver
<1> DEFINE p == worker[w]
           q == worker'[w]
<1>1. /\ p \in Process /\ p.node \in Node /\ p.first \in Node /\ p.state \in GraphState /\ p.update \in GraphState
      /\ Entered(p) => Faithful(p)
      /\ Begun(p)
      /\ run.snap.state \in GraphState /\ run.snap.node \in Node \cup {"NONE"}
  BY DEF TypeOK, Process, WorkIsFaithful, RunRow, Snapshot, Beginnings
<1>2. CurrentVerdict' = CurrentVerdict /\ ApprovedDocs' = ApprovedDocs
  BY VerdictStays
<1>3. SUFFICES /\ run'.snap.state.done \subseteq q.state.done
               /\ q.pc = "save" => run'.snap.state.done \subseteq q.update.done
               /\ CurrentVerdict = "APPROVED" => q.first = "GitCommit" /\ q.state.docs \in ApprovedDocs
               /\ CurrentVerdict = "APPROVED" /\ q.pc = "save" => q.update.docs \in ApprovedDocs
               /\ q.state.verdict = "APPROVED" => CurrentVerdict = "APPROVED"
               /\ q.pc = "save" /\ q.update.verdict = "APPROVED" => CurrentVerdict = "APPROVED"
               /\ q.node \in Publishing => CurrentVerdict = "APPROVED"
  BY <1>2 DEF Faithful
<1>4. CASE EndsWork(w)
  <2>1. SameWork(p, q) /\ q.pc = "saveFailure" /\ p.pc \in {"node", "save"}
    BY <1>4, WorkEnds DEF Entered
  <2>2. Faithful(p)
    BY <1>1, <2>1 DEF Entered
  <2>3. run'.snap = run.snap
    <3>1. CASE p.pc = "node"
      BY <3>1, RunMoves DEF At
    <3>2. CASE p.pc = "save"
      <4>1. SaveCheckpoint(w)
        BY <3>2 DEF Execute, Start, Resume, MarkRunning, SetupFails, SkipNode, LookupFails, NodeSucceeds,
           NodeFails, SaveFailure, Suspend, Complete, MarkFailed, Cleanup, Settle, At
      <4>2. Step(p.node, p.update).pc # "saveFailure"
        BY <1>1, StepType
      <4> QED
        BY <2>1, <4>1, <4>2, WorkMoves
    <3> QED
      BY <2>1, <3>1, <3>2
  <2> QED
    BY <2>1, <2>2, <2>3 DEF SameWork, Faithful
<1>5. CASE MarkRunning(w) /\ ~EndsWork(w)
  <2>1. SameWork(p, q) /\ q.pc = "node" /\ p.pc = "mark"
    BY <1>5, WorkMoves DEF MarkRunning, EndsWork, At
  <2>2. run'.snap = run.snap
    BY <1>5 DEF MarkRunning, TypeOK, RunRow
  <2> QED
    BY <1>1, <2>1, <2>2 DEF SameWork, Faithful, Entered
<1>6. CASE Start(w)
  <2>1. /\ q.pc = "node" /\ q.first = "RepositoryAnalyzer" /\ q.node = p.node /\ q.state = p.state
        /\ p.pc = "start"
    BY <1>6, WorkMoves DEF Start, At
  <2>2. run'.snap = run.snap
    BY <1>6 DEF Start, TypeOK, RunRow
  <2>3. p.node = "EarlySkip" /\ p.state = FreshState /\ Untouched
    BY <1>1, <2>1 DEF Begun
  <2>4. CurrentVerdict = "NONE" /\ run.snap.state.done = {} /\ "EarlySkip" \notin Publishing
    BY <2>3 DEF Untouched, CurrentVerdict, Publishing
  <2> QED
    BY <2>1, <2>2, <2>3, <2>4 DEF FreshState
<1>7. CASE Resume(w) /\ run.status # "COMPLETED"
  <2>1. /\ q.pc = "mark" /\ q.first = FirstNode(CurrentVerdict, run.snap.node) /\ q.node = p.node
        /\ q.state = Hydrated /\ p.pc = "resume"
    BY <1>7, WorkMoves DEF Resume, At
  <2>2. run' = run
    BY <1>7 DEF Resume
  <2>3. p.node = "EarlySkip" /\ "EarlySkip" \notin Publishing
    BY <1>1, <2>1 DEF Begun, Publishing
  <2>4. /\ Hydrated.done = run.snap.state.done /\ Hydrated.docs = run.snap.state.docs
        /\ Hydrated.verdict = CurrentVerdict
    BY <1>1 DEF Hydrated, GraphState
  <2>5. CurrentVerdict = "APPROVED" => FirstNode(CurrentVerdict, run.snap.node) = "GitCommit"
    BY DEF FirstNode
  <2> QED
    BY <2>1, <2>2, <2>3, <2>4, <2>5 DEF WorkIsFaithful
<1>8. CASE SkipNode(w)
  <2>1. /\ q.pc = Step(p.node, p.state).pc /\ q.node = Step(p.node, p.state).node /\ q.first = p.first
        /\ q.state = p.state /\ p.pc = "node"
    BY <1>8, WorkMoves DEF SkipNode, At
  <2>2. run' = run /\ Faithful(p) /\ q.pc # "save"
    BY <1>1, <1>8, <2>1, StepType DEF SkipNode, Entered
  <2>3. q.node \in Publishing => p.node \in Publishing \/ p.state.verdict = "APPROVED"
    BY <1>1, <2>1, StepToPublishing
  <2> QED
    BY <2>1, <2>2, <2>3 DEF Faithful
<1>9. CASE NodeSucceeds(w)
  <2>1. /\ q.pc = "save" /\ q.update \in Outputs(p.node, p.state, written + 1)
        /\ q.first = p.first /\ q.node = p.node /\ q.state = p.state
        /\ p.pc = "node" /\ ~ShouldSkip(p.node, p.first, p.state)
    BY <1>9, WorkMoves DEF NodeSucceeds, Skipped, At
  <2>2. run' = run /\ Faithful(p)
    BY <1>1, <1>9, <2>1 DEF NodeSucceeds, Entered
  <2>3. p.first = "GitCommit" => p.node # "TechnicalWriter"
    BY <1>1, <2>1, Positions DEF ShouldSkip
  <2>4. written + 1 \in Nat
    BY DEF TypeOK
  <2>5. /\ p.state.done \subseteq q.update.done
        /\ p.node # "TechnicalWriter" => q.update.docs = p.state.docs
        /\ q.update.verdict = "APPROVED" => p.state.verdict = "APPROVED"
    BY <1>1, <2>1, <2>4, OutputsKeepWork, OutputsFacts
  <2> QED
    BY <2>1, <2>2, <2>3, <2>5 DEF Faithful
<1>10. CASE SaveCheckpoint(w) /\ ~EndsWork(w)
  <2>1. /\ q.pc = Step(p.node, p.update).pc /\ q.node = Step(p.node, p.update).node
        /\ q.first = p.first /\ q.state = p.update /\ q.update = p.update
        /\ Checkpoint(w, "CHECKPOINTED", p.update) /\ p.pc = "save"
    BY <1>10, WorkMoves DEF SaveCheckpoint, EndsWork, At
  <2>2. Faithful(p) /\ q.pc # "save"
    BY <1>1, <2>1, StepType DEF Entered
  <2>3. run'.snap.state.done = p.update.done
    BY <1>1, <2>1, CheckpointKeeps
  <2>4. q.node \in Publishing => p.node \in Publishing \/ p.update.verdict = "APPROVED"
    BY <1>1, <2>1, StepToPublishing
  <2> QED
    BY <2>1, <2>2, <2>3, <2>4 DEF Faithful
<1>11. CASE Settle(w)
  BY <1>11, WorkMoves DEF Idle, Entered
<1> QED
  BY <1>4, <1>5, <1>6, <1>7, <1>8, <1>9, <1>10, <1>11 DEF Execute, EndsWork

\* No checkpoint loses what an earlier one holds, nor holds other documents than the
\* approved ones once there is an approval.
LEMMA SnapshotStep ==
  ASSUME TypeOK, BusyHasJob, SoleDriver, NEW w \in Workers, Execute(w)
  PROVE  /\ run.snap.state.done \subseteq run'.snap.state.done
         /\ \/ run'.snap = run.snap
            \/ CurrentVerdict = "APPROVED" => run'.snap.state.docs \in ApprovedDocs
<1> USE DEF SoleDriver
<1>1. /\ worker[w].state \in GraphState /\ worker[w].update \in GraphState
      /\ Entered(worker[w]) => Faithful(worker[w])
  BY DEF TypeOK, Process, WorkIsFaithful
<1>2. CASE run'.snap = run.snap
  BY <1>2
<1>3. CASE At(w, "save") /\ Checkpoint(w, "CHECKPOINTED", worker[w].update)
  BY <1>1, <1>3, CheckpointKeeps DEF At, Entered, Faithful
<1>4. CASE At(w, "saveFailure") /\ Checkpoint(w, "FAILED", worker[w].state)
  BY <1>1, <1>4, CheckpointKeeps DEF At, Entered, Faithful
<1> QED
  BY <1>2, <1>3, <1>4, RunMoves

LEMMA WorkStep ==
  ASSUME TypeOK, BusyHasJob, SoleDriver, [Next]_vars
  PROVE  WorkIsFaithful'
<1> USE DEF SoleDriver
<1>1. /\ CurrentVerdict = "APPROVED" => run.snap.state.docs \in ApprovedDocs
      /\ \A w \in Workers : Entered(worker[w]) => Faithful(worker[w])
      /\ \A r \in owed : reviews[r].status \in {"APPROVED", "REJECTED"}
  BY DEF WorkIsFaithful
<1>2. ASSUME NEW x \in Workers, worker'[x] = worker[x], UNCHANGED <<run, reviews>>
      PROVE  Entered(worker'[x]) => Faithful(worker[x])'
  BY <1>1, <1>2 DEF Faithful, CurrentVerdict, ApprovedDocs, Approved
<1>3. \A x \in Workers : Entered(worker[x]) => Carries(worker[x])
  BY DEF Entered, Carries
<1>4. ASSUME NEW w \in Workers, Execute(w), ~Settle(w), ~Suspend(w)
      PROVE  WorkIsFaithful'
  <2>1. Carries(worker[w]) /\ owed' = owed
    BY <1>4, WorkGoesOn
  <2>2. reviews' = reviews /\ CurrentVerdict' = CurrentVerdict /\ ApprovedDocs' = ApprovedDocs
    BY <1>4, VerdictStays
  <2>3. \A x \in Workers \ {w} : ~Entered(worker'[x])
    BY <1>3, <1>4, <2>1, WorkAlone, ExecuteFacts
  <2>4. \A x \in Workers : Entered(worker'[x]) => Faithful(worker[x])'
    BY <1>4, <2>3, FaithfulMoves
  <2>5. CurrentVerdict' = "APPROVED" => run'.snap.state.docs \in ApprovedDocs'
    BY <1>1, <1>4, <2>2, SnapshotStep
  <2> QED
    BY <1>1, <2>1, <2>2, <2>4, <2>5 DEF WorkIsFaithful, Entered
<1>5. ASSUME NEW w \in Workers, Suspend(w)
      PROVE  WorkIsFaithful'
  <2>1. /\ Carries(worker[w]) /\ owed' = owed
        /\ \A x \in Workers \ {w} : worker'[x] = worker[x]
    BY <1>5, WorkGoesOn, ExecuteFacts DEF Execute, Settle, Suspend, At
  <2>2. Asked = {} /\ \A x \in Workers \ {w} : ~Entered(worker'[x])
    BY <1>3, <2>1, WorkAlone
  <2>3. PICK r \in Reviews : /\ reviews' = [reviews EXCEPT ![r].status = "PENDING"]
                             /\ run' = [run EXCEPT !.review = r, !.status = "WAITING_FOR_REVIEW"]
    BY <1>5, <2>2 DEF Suspend, Asked
  <2>4. worker'[w].pc = "settle"
    BY <1>5, <2>2, WorkMoves DEF Suspend, Asked
  <2>5. CurrentVerdict' = "PENDING"
    <3>1. run'.review = r /\ reviews'[r].status = "PENDING" /\ r # NoReview
      BY <2>3, LifecycleAssumption DEF TypeOK, RunRow, ReviewRow
    <3> QED
      BY <3>1 DEF CurrentVerdict
  <2>6. owed' = {}
    BY <2>1, <2>2 DEF Asked
  <2> QED
    BY <2>2, <2>4, <2>5, <2>6 DEF WorkIsFaithful, Entered
<1>6. ASSUME NEW w \in Workers, Settle(w)
      PROVE  WorkIsFaithful'
  <2>1. UNCHANGED <<run, reviews, owed>>
    BY <1>6 DEF Settle
  <2>2. /\ ~Entered(worker'[w])
        /\ \A x \in Workers \ {w} : worker'[x] = worker[x]
    BY <1>6, SettledJob DEF Entered, Idle
  <2>3. \A x \in Workers : Entered(worker'[x]) => Faithful(worker[x])'
    BY <1>2, <2>1, <2>2
  <2> QED
    BY <1>1, <2>1, <2>3 DEF WorkIsFaithful, Entered, CurrentVerdict, ApprovedDocs, Approved
<1>7. ASSUME NEW w \in Workers, NEW j \in Jobs, Deliver(w, j)
      PROVE  WorkIsFaithful'
  <2>1. /\ UNCHANGED <<run, reviews, owed>>
        /\ worker'[w].pc \in {"start", "resume"}
        /\ \A x \in Workers \ {w} : worker'[x] = worker[x]
    BY <1>7 DEF Deliver, TypeOK, Job, Idle
  <2>2. \A x \in Workers : Entered(worker'[x]) => Faithful(worker[x])'
    BY <1>2, <2>1 DEF Entered
  <2> QED
    BY <1>1, <2>1, <2>2 DEF WorkIsFaithful, Entered, CurrentVerdict, ApprovedDocs, Approved
<1>8. ASSUME NEW r \in Reviews, NEW v \in {"APPROVED", "REJECTED"}, Decide(r, v)
      PROVE  WorkIsFaithful'
  <2>1. /\ reviews[r].status = "PENDING" /\ owed' = owed \cup {r}
        /\ reviews'[r] = [status |-> v, docs |-> run.snap.state.docs]
        /\ \A q \in Reviews \ {r} : reviews'[q] = reviews[q]
        /\ UNCHANGED <<run, worker>>
    BY <1>8 DEF Decide, TypeOK, ReviewRow
  <2>2. \A x \in Workers : ~Entered(worker[x])
    <3>1. r \in Asked
      BY <2>1 DEF Asked, PendingReviews
    <3> QED
      BY <1>3, <3>1, WorkAlone
  <2>3. ASSUME CurrentVerdict' = "APPROVED"
        PROVE  run'.snap.state.docs \in ApprovedDocs'
    <3>1. CASE run.review = r
      <4>1. reviews'[r].status = "APPROVED"
        BY <2>1, <2>3, <3>1, LifecycleAssumption DEF CurrentVerdict
      <4>2. reviews'[r].docs = run'.snap.state.docs
        BY <2>1
      <4> QED
        BY <4>1, <4>2 DEF ApprovedDocs, Approved
    <3>2. CASE run.review # r
      <4>1. CurrentVerdict = "APPROVED"
        BY <2>1, <2>3, <3>2 DEF CurrentVerdict, TypeOK, RunRow
      <4> QED
        BY <1>1, <2>1, <4>1, ApprovalsStand
    <3> QED
      BY <3>1, <3>2
  <2>4. \A q \in owed' : reviews'[q].status \in {"APPROVED", "REJECTED"}
    BY <1>1, <2>1 DEF TypeOK
  <2> QED
    BY <2>1, <2>2, <2>3, <2>4 DEF WorkIsFaithful, Entered
<1>9. ASSUME UNCHANGED <<run, worker, reviews>>, owed' \subseteq owed
      PROVE  WorkIsFaithful'
  <2>1. \A x \in Workers : Entered(worker'[x]) => Faithful(worker[x])'
    BY <1>2, <1>9
  <2> QED
    BY <1>1, <1>9, <2>1 DEF WorkIsFaithful, Entered, CurrentVerdict, ApprovedDocs, Approved
<1> QED
  BY <1>4, <1>5, <1>6, <1>7, <1>8, <1>9, NothingStalls
     DEF Next, Execute, vars, Redeliver, EnqueueResume, DropResume, Evict

\* A new run has its first job, and nothing else.
LEMMA SoleInit ==
  ASSUME InitialBudget["stalls"] = 0, Init
  PROVE  SoleDriver
<1> USE DEF Init
<1>1. PICK j \in Jobs : jobs = [[k \in Jobs |-> UnusedJob] EXCEPT ![j] = NewJob("start")]
  OBVIOUS
<1>2. /\ jobs[j].state = "waiting"
      /\ \A k \in Jobs \ {j} : jobs[k].state = "unused"
  BY <1>1 DEF NewJob, UnusedJob
<1>3. \A w \in Workers : worker[w] = Idle
  OBVIOUS
<1>4. JobsAreOwned
  BY <1>2, <1>3 DEF JobsAreOwned, At, Idle
<1>5. OneDriver
  <2>1. \A k \in Jobs : Drives(k) => k = j
    BY <1>2, <1>3 DEF Drives, Carries, Idle
  <2>2. Asked = {}
    BY DEF Asked, PendingReviews, NoRow
  <2> QED
    BY <2>1, <2>2 DEF OneDriver
<1>6. Beginnings
  BY <1>3 DEF Beginnings, Begun, Idle, Unharmed, Untouched, NoSnapshot, FreshState
<1>7. WorkIsFaithful
  BY <1>3 DEF WorkIsFaithful, Entered, Idle, CurrentVerdict
<1>8. PublishedDocsApproved
  BY DEF PublishedDocsApproved
<1> QED
  BY <1>4, <1>5, <1>6, <1>7, <1>8 DEF SoleDriver

\* The invariant behind the two theorems.
LEMMA SoleInvariant ==
  ASSUME InitialBudget["stalls"] = 0
  PROVE  Spec => [](TypeOK /\ BusyHasJob /\ SoleDriver)
<1>1. Init => SoleDriver
  BY SoleInit
<1>2. TypeOK /\ BusyHasJob /\ SoleDriver /\ [Next]_vars => SoleDriver'
  <2> SUFFICES ASSUME TypeOK, BusyHasJob, SoleDriver, [Next]_vars
               PROVE  SoleDriver'
    OBVIOUS
  <2>1. budget'["stalls"] = 0
    BY NothingStalls DEF SoleDriver
  <2> QED
    BY <2>1, OwnedStep, DriverStep, BeginningsStep, WorkStep, PublishedStep DEF SoleDriver
<1> QED
  BY <1>1, <1>2, TypeInvariant, PTL DEF Spec

\* As long as no job stalls, whatever fails, is retried or rejected, and however many
\* workers there are, what is committed or pushed is what a reviewer saw when approving.
THEOREM ApprovedDocsArePublished ==
  ASSUME InitialBudget["stalls"] = 0
  PROVE  Spec => []PublishedDocsApproved
<1>1. SoleDriver => PublishedDocsApproved
  BY DEF SoleDriver
<1> QED
  BY <1>1, SoleInvariant, PTL

\* As long as no job stalls, no checkpoint, be it of a success or of a failure, drops
\* an output that an earlier one recorded.
THEOREM WorkIsKept ==
  ASSUME InitialBudget["stalls"] = 0
  PROVE  Spec => CheckpointKeepsWork
<1>1. TypeOK /\ BusyHasJob /\ SoleDriver /\ [Next]_vars
        => [run.snap.state.done \subseteq run'.snap.state.done]_vars
  <2> SUFFICES ASSUME TypeOK, BusyHasJob, SoleDriver, [Next]_vars
               PROVE  run.snap.state.done \subseteq run'.snap.state.done
    OBVIOUS
  <2> QED
    BY SnapshotStep
       DEF Next, vars, Crash, LoseLock, Deliver, Redeliver, Decide, EnqueueResume, DropResume, Evict
<1> QED
  BY <1>1, SoleInvariant, PTL DEF Spec, CheckpointKeepsWork
=============================================================================
