------------------------------ MODULE RunPage ------------------------------
(***************************************************************************)
(* What the dashboard is told about runs: the events that processor,       *)
(* executor and node wrapper publish, the gateway's rooms, one socket that *)
(* may break, and the page of one run (runs/[id]/page.tsx), which combines *)
(* a row fetched once with the last event received.                        *)
(*                                                                         *)
(* A job publishes before and after it writes the row of its run; what     *)
(* else happens to rows is RunLifecycle.  Events are lost while the page   *)
(* is not connected; nothing is sent again.                                *)
(***************************************************************************)
EXTENDS Naturals, Sequences, FiniteSets

CONSTANTS
  Runs,
  Viewed,       \* the run whose page is open
  Nodes,        \* the nodes of a run that publish, in order
  Gate,         \* the node after which a run waits for its review
  MaxAttempts,  \* QUEUE_MAX_RETRIES
  MaxInFlight,  \* bound: a job publishes while fewer events are on the way
  InitialBudget \* bounds on faults and on reloads, by kind and in all

Events == {"failures", "breaks", "restarts", "reloads", "total"}
NodeName == {Nodes[i] : i \in 1..Len(Nodes)}

ASSUME RunPageAssumption ==
  /\ Viewed \in Runs
  /\ Nodes \in Seq(NodeName) /\ Gate \in NodeName
  /\ MaxAttempts \in Nat \ {0} /\ MaxInFlight \in Nat \ {0}
  /\ InitialBudget \in [Events -> Nat]

VARIABLES
  row,    \* status of every WorkflowRun
  job,    \* the job of every run
  conn,   \* the socket of the page: "down" or "up"
  rooms,  \* rooms the gateway put it into
  asked,  \* subscribe messages on their way to the gateway
  wire,   \* events on their way to the page
  page,   \* state of useWorkflowSocket and of the query for the row
  heard,  \* history: what the page received last, about whom
  budget

vars == <<row, job, conn, rooms, asked, wire, page, heard, budget>>

RunStatus == {"QUEUED", "RUNNING", "WAITING_FOR_REVIEW", "COMPLETED", "FAILED"}
LiveStatus == {"pending", "running", "waiting", "waiting_for_review", "completed", "failed"}
Stage == {"Queued", "Cloning", "Analyzing", "Writing", "Reviewing", "CreatingPR", "Completed", "Failed"}
PC == {"queued", "start", "node", "inside", "written", "told", "waiting", "done"}
Job == [pc : PC, at : 1..Len(Nodes) + 1, attempt : 0..MaxAttempts, approved : BOOLEAN, failed : BOOLEAN]
Event == [run : Runs, stage : Stage, progress : 0..100, status : LiveStatus]
Room == {"run", "workflow"}
NotFetched == "nothing"
Page == [connected : BOOLEAN, stage : Stage, progress : 0..100, status : LiveStatus,
         row : RunStatus \cup {NotFetched}]
Opened == [connected |-> FALSE, stage |-> "Queued", progress |-> 0, status |-> "pending",
           row |-> NotFetched]

TypeOK ==
  /\ row \in [Runs -> RunStatus]
  /\ job \in [Runs -> Job]
  /\ conn \in {"down", "up"}
  /\ rooms \in SUBSET Room
  /\ asked \in 0..1
  /\ wire \in Seq(Event)
  /\ page \in Page
  /\ heard \in {"nothing", "own", "foreign", "missed"}
  /\ budget \in [Events -> Nat]

NewJob == [pc |-> "queued", at |-> 1, attempt |-> 0, approved |-> FALSE, failed |-> FALSE]

Init ==
  /\ row = [r \in Runs |-> "QUEUED"]
  /\ job = [r \in Runs |-> NewJob]
  /\ conn = "down" /\ rooms = {} /\ asked = 0 /\ wire = <<>>
  /\ page = Opened
  /\ heard = "nothing"
  /\ budget = InitialBudget

Spend(event) ==
  /\ budget[event] > 0 /\ budget["total"] > 0
  /\ budget' = [budget EXCEPT ![event] = @ - 1, !["total"] = @ - 1]

-----------------------------------------------------------------------------
(* What is published. *)

StageOf(node) ==
  CASE node \in {"RepositoryAnalyzer", "DocumentationLocator"} -> "Analyzing"
    [] node = "TechnicalWriter" -> "Writing"
    [] node = "DocumentationCritic" -> "Reviewing"
    [] node \in {"GitCommit", "PushBranch", "CreatePullRequest"} -> "CreatingPR"
    [] OTHER -> "Analyzing"

Progress(node) ==
  CASE node = "RepositoryAnalyzer" -> [started |-> 15, completed |-> 25]
    [] node = "DocumentationLocator" -> [started |-> 30, completed |-> 40]
    [] node = "TechnicalWriter" -> [started |-> 50, completed |-> 60]
    [] node = "DocumentationCritic" -> [started |-> 65, completed |-> 75]
    [] node = "GitCommit" -> [started |-> 80, completed |-> 85]
    [] node = "PushBranch" -> [started |-> 90, completed |-> 95]
    [] node = "CreatePullRequest" -> [started |-> 95, completed |-> 100]
    [] OTHER -> [started |-> 50, completed |-> 50]

About(r, stage, progress, status) == [run |-> r, stage |-> stage, progress |-> progress, status |-> status]
NodeEvent(r, node, status) ==
  About(r, StageOf(node), IF status = "failed" THEN 0 ELSE Progress(node)[status],
        IF status = "failed" THEN "failed" ELSE "running")

\* The executor's own last event of an execution, and the processor's.
FailureEvent(r, node) == About(r, StageOf(node), 0, "failed")
OutcomeEvent(r) ==
  CASE row[r] = "COMPLETED" -> About(r, "Completed", 100, "completed")
    [] row[r] = "WAITING_FOR_REVIEW" -> About(r, "Reviewing", 50, "waiting_for_review")
    [] OTHER -> FailureEvent(r, Nodes[job[r].at])

\* Mutant: status and stage are derived from the queue's status alone, in which
\* a suspended run is waiting.
TerminalEventDerived(r) ==
  CASE row[r] = "WAITING_FOR_REVIEW" -> About(r, "Reviewing", 100, "waiting")
    [] row[r] = "COMPLETED" -> About(r, "Completed", 100, "completed")
    [] OTHER -> About(r, "Failed", 100, "failed")
TerminalEvent(r) ==
  CASE row[r] = "WAITING_FOR_REVIEW" -> About(r, "Reviewing", 100, "waiting_for_review")
    [] row[r] = "COMPLETED" -> About(r, "Completed", 100, "completed")
    [] OTHER -> About(r, "Failed", 100, "failed")

\* emitEvent: to the rooms of the run and once more to everybody.
Copies(e) ==
  LET n == IF e.run = Viewed THEN Cardinality(rooms) + 1 ELSE 1 IN [i \in 1..n |-> e]
Publish(e) ==
  /\ Len(wire) < MaxInFlight
  /\ wire' = IF conn = "up" THEN wire \o Copies(e) ELSE wire
  /\ heard' = IF conn = "down" /\ e.run = Viewed THEN "missed" ELSE heard

-----------------------------------------------------------------------------
(* The job of a run. *)

Move(r, pc) == job' = [job EXCEPT ![r].pc = pc]
NoSocket == UNCHANGED <<conn, rooms, asked, page>>
Silent == UNCHANGED <<wire, heard>>

\* The processor takes the job and says so before the executor runs.
TakeJob(r) ==
  /\ job[r].pc = "queued"
  /\ Publish(About(r, "Cloning", 5, "running"))
  /\ Move(r, "start")
  /\ UNCHANGED <<row, budget>> /\ NoSocket

\* A retry goes on after the failed node, or with it if its checkpoint was lost.
MarkRunning(r) ==
  /\ job[r].pc = "start"
  /\ row' = [row EXCEPT ![r] = "RUNNING"]
  /\ \E next \in IF job[r].failed THEN {job[r].at, job[r].at + 1} ELSE {job[r].at} :
       job' = [job EXCEPT ![r] = [@ EXCEPT !.pc = "node", !.failed = FALSE, !.at = next]]
  /\ Silent /\ UNCHANGED budget /\ NoSocket

\* The run stops before this node for its review, or because there is none.
AtGate(r) == job[r].at > 1 /\ Nodes[job[r].at - 1] = Gate /\ ~job[r].approved
AtEnd(r) == job[r].at > Len(Nodes)

NodeStarts(r) ==
  /\ job[r].pc = "node" /\ ~job[r].failed /\ ~AtGate(r) /\ ~AtEnd(r)
  /\ Publish(NodeEvent(r, Nodes[job[r].at], "started"))
  /\ Move(r, "inside")
  /\ UNCHANGED <<row, budget>> /\ NoSocket

NodeCompletes(r) ==
  /\ job[r].pc = "inside"
  /\ Publish(NodeEvent(r, Nodes[job[r].at], "completed"))
  /\ job' = [job EXCEPT ![r].pc = "node", ![r].at = @ + 1]
  /\ UNCHANGED <<row, budget>> /\ NoSocket

NodeFails(r) ==
  /\ job[r].pc = "inside" /\ Spend("failures")
  /\ Publish(NodeEvent(r, Nodes[job[r].at], "failed"))
  /\ job' = [job EXCEPT ![r].pc = "node", ![r].failed = TRUE]
  /\ UNCHANGED row /\ NoSocket

\* The row says how the execution ended before anybody is told.
WriteOutcome(r) ==
  /\ job[r].pc = "node" /\ (job[r].failed \/ AtGate(r) \/ AtEnd(r))
  /\ row' = [row EXCEPT ![r] = IF job[r].failed THEN "FAILED"
                               ELSE IF AtGate(r) THEN "WAITING_FOR_REVIEW" ELSE "COMPLETED"]
  /\ Move(r, "written")
  /\ Silent /\ UNCHANGED budget /\ NoSocket

TellOutcome(r) ==
  /\ job[r].pc = "written"
  /\ Publish(OutcomeEvent(r))
  /\ Move(r, "told")
  /\ UNCHANGED <<row, budget>> /\ NoSocket

\* Mutant: one attempt too many.
EndJobOnceMore(r) ==
  LET again == job[r].failed /\ job[r].attempt < MaxAttempts IN
  /\ job[r].pc = "told"
  /\ Publish(TerminalEvent(r))
  /\ job' = [job EXCEPT ![r].attempt = @ + 1,
                        ![r].pc = IF again THEN "queued"
                                  ELSE IF row[r] = "WAITING_FOR_REVIEW" THEN "waiting" ELSE "done"]
  /\ UNCHANGED <<row, budget>> /\ NoSocket

\* The processor's last event; a failed job is tried again.
EndJob(r) ==
  LET again == job[r].failed /\ job[r].attempt + 1 < MaxAttempts IN
  /\ job[r].pc = "told"
  /\ Publish(TerminalEvent(r))
  /\ job' = [job EXCEPT ![r].attempt = @ + 1,
                        ![r].pc = IF again THEN "queued"
                                  ELSE IF row[r] = "WAITING_FOR_REVIEW" THEN "waiting" ELSE "done"]
  /\ UNCHANGED <<row, budget>> /\ NoSocket

\* approveReview: the row keeps its status until the resume job runs.
Approve(r) ==
  /\ job[r].pc = "waiting"
  /\ job' = [job EXCEPT ![r] = [@ EXCEPT !.pc = "queued", !.approved = TRUE, !.attempt = 0]]
  /\ Silent /\ UNCHANGED <<row, budget>> /\ NoSocket

-----------------------------------------------------------------------------
(* Socket and page. *)

\* Mutant: the page subscribes when it is opened, not whenever it connects.
ConnectOnce ==
  /\ conn = "down"
  /\ conn' = "up" /\ page' = [page EXCEPT !.connected = TRUE]
  /\ asked' = IF heard = "nothing" THEN 1 ELSE 0
  /\ UNCHANGED <<row, job, rooms, wire, heard, budget>>

\* The connect handler subscribes, every time.
Connect ==
  /\ conn = "down"
  /\ conn' = "up" /\ page' = [page EXCEPT !.connected = TRUE]
  /\ asked' = 1
  /\ UNCHANGED <<row, job, rooms, wire, heard, budget>>

HandleSubscribe ==
  /\ asked > 0
  /\ rooms' = Room /\ asked' = asked - 1
  /\ UNCHANGED <<row, job, conn, wire, page, heard, budget>>

Unheard == \E i \in 1..Len(wire) : wire[i].run = Viewed
Disconnected ==
  /\ conn' = "down" /\ rooms' = {} /\ asked' = 0 /\ wire' = <<>>
  /\ heard' = IF Unheard THEN "missed" ELSE heard

Break ==
  /\ conn = "up" /\ Spend("breaks")
  /\ Disconnected /\ page' = [page EXCEPT !.connected = FALSE]
  /\ UNCHANGED <<row, job>>

\* handleEvent: the last event wins, whatever run it is about.
Receive ==
  LET e == Head(wire) IN
  /\ wire # <<>>
  /\ wire' = Tail(wire)
  /\ page' = [page EXCEPT !.stage = e.stage, !.progress = e.progress, !.status = e.status]
  /\ heard' = IF e.run = Viewed THEN "own" ELSE "foreign"
  /\ UNCHANGED <<row, job, conn, rooms, asked, budget>>

\* useApiQuery: the row is fetched once.
Fetch ==
  /\ page.row = NotFetched
  /\ page' = [page EXCEPT !.row = row[Viewed]]
  /\ UNCHANGED <<row, job, conn, rooms, asked, wire, heard, budget>>

Reload ==
  /\ Spend("reloads")
  /\ conn' = "down" /\ rooms' = {} /\ asked' = 0 /\ wire' = <<>>
  /\ page' = Opened /\ heard' = "nothing"
  /\ UNCHANGED <<row, job>>

\* The backend stops: sockets break, and jobs that were active run again.
Restart ==
  /\ Spend("restarts")
  /\ Disconnected /\ page' = [page EXCEPT !.connected = FALSE]
  /\ job' = [r \in Runs |-> IF job[r].pc \in {"waiting", "done"} THEN job[r]
                            ELSE [job[r] EXCEPT !.pc = "queued"]]
  /\ UNCHANGED row

-----------------------------------------------------------------------------
Work(r) ==
  \/ TakeJob(r) \/ MarkRunning(r) \/ NodeStarts(r) \/ NodeCompletes(r)
  \/ WriteOutcome(r) \/ TellOutcome(r) \/ EndJob(r)

Next ==
  \/ \E r \in Runs : Work(r) \/ NodeFails(r) \/ Approve(r)
  \/ Connect \/ HandleSubscribe \/ Receive \/ Fetch
  \/ Break \/ Reload \/ Restart

Spec == Init /\ [][Next]_vars

-----------------------------------------------------------------------------
(* What the page shows. *)

\* status || data.status, where the live status is never empty.
CurrentStatus == page.status

\* WorkflowStatusBadge, in lower case.
Badge(status) ==
  CASE status \in {"running", "RUNNING"} -> "Running"
    [] status \in {"completed", "COMPLETED"} -> "Completed"
    [] status \in {"failed", "FAILED"} -> "Failed"
    [] status \in {"waiting_for_review", "WAITING_FOR_REVIEW"} -> "Review Pending"
    [] OTHER -> "Pending"

\* The steps of WorkflowTimeline that are done, by the stage shown.
Steps == <<"Queued", "Cloning", "Analyzing", "Writing", "Reviewing", "CreatingPR", "Completed">>
StepsDone == {i \in 1..Len(Steps) : page.stage = "Completed" \/
                \E j \in 1..Len(Steps) : Steps[j] = page.stage /\ i < j}

\* Nothing about the run is on its way, or about to be published.
Settled == wire = <<>> /\ job[Viewed].pc \in {"waiting", "done"}

\* Once a run has ended or waits and the last thing the page received was about
\* it, with nothing missed since, the page says what the row says, however often
\* the connection broke before.
SettledPageIsTrue ==
  Settled /\ heard = "own" =>
    /\ Badge(CurrentStatus) = Badge(row[Viewed])
    /\ row[Viewed] = "COMPLETED" => page.progress = 100 /\ StepsDone = 1..Len(Steps)
    /\ row[Viewed] = "WAITING_FOR_REVIEW" => page.stage = "Reviewing"

\* A connected page is in the rooms of its run as soon as its messages are
\* handled, also after the backend forgot it.
ConnectedIsSubscribed == page.connected /\ asked = 0 => rooms = Room

=============================================================================
