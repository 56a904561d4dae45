---------------------------- MODULE RunPageProofs ----------------------------
(***************************************************************************)
(* What a page shows once its run has settled is what the row says, for    *)
(* any number of runs, nodes, attempts, events on the way and faults.      *)
(***************************************************************************)
EXTENDS RunPage, FiniteSetTheorems, TLAPS

-----------------------------------------------------------------------------
(* The strengthening. *)

\* A node is executed by a job that has not failed, and there is a node left.
JobsInvOf(r) ==
  /\ job[r].pc = "inside" => ~job[r].failed
  /\ job[r].pc = "inside" \/ job[r].failed => job[r].at <= Len(Nodes)
  /\ job[r].pc \notin {"waiting", "done"} => job[r].attempt < MaxAttempts
JobsInv == \A r \in Runs : JobsInvOf(r)

\* Where the job knows how it ended, the row says it.
OutcomeWritten ==
  job[Viewed].pc \in {"written", "told", "waiting", "done"}
    => row[Viewed] \in {"COMPLETED", "WAITING_FOR_REVIEW", "FAILED"}

\* The socket, its rooms and what is on its way belong together.
SocketInv ==
  /\ page.connected => conn = "up"
  /\ conn = "up" => asked = 1 \/ rooms = Room
  /\ conn = "down" => wire = <<>>

OwnAt(i) == i \in 1..Len(wire) /\ wire[i].run = Viewed
LastOwn(i) == OwnAt(i) /\ \A j \in 1..Len(wire) : OwnAt(j) => j <= i

\* The page shows the event.
Shows(e) == page.stage = e.stage /\ page.progress = e.progress /\ page.status = e.status

\* Once the job has ended, the last event about its run that is still on its way is
\* the last one it published; with none on its way, the page shows that one.
LastWord ==
  job[Viewed].pc \in {"waiting", "done"} =>
    /\ \A i \in 1..Len(wire) : LastOwn(i) => wire[i] = TerminalEvent(Viewed)
    /\ heard = "own" /\ (\A i \in 1..Len(wire) : ~OwnAt(i)) => Shows(TerminalEvent(Viewed))

PageInv == TypeOK /\ JobsInv /\ OutcomeWritten /\ SocketInv /\ LastWord

-----------------------------------------------------------------------------
(* Types of what is published. *)

\* Every event a job publishes is one.
LEMMA PublishedEvents ==
  ASSUME NEW r \in Runs
  PROVE  /\ About(r, "Cloning", 5, "running") \in Event
         /\ \A node : \A status \in {"started", "completed", "failed"} :
              NodeEvent(r, node, status) \in Event
         /\ OutcomeEvent(r) \in Event /\ TerminalEvent(r) \in Event
<1>1. About(r, "Cloning", 5, "running") \in Event
  BY DEF About, Event, Stage, LiveStatus
<1>2. \A node : StageOf(node) \in Stage
  BY DEF StageOf, Stage
<1>3. \A node : \A status \in {"started", "completed"} : Progress(node)[status] \in 0..100
  BY DEF Progress
<1>4. \A node : \A status \in {"started", "completed", "failed"} : NodeEvent(r, node, status) \in Event
  BY <1>2, <1>3 DEF NodeEvent, About, Event, LiveStatus
<1>5. OutcomeEvent(r) \in Event
  BY <1>2 DEF OutcomeEvent, FailureEvent, About, Event, Stage, LiveStatus
<1>6. TerminalEvent(r) \in Event
  BY DEF TerminalEvent, About, Event, Stage, LiveStatus
<1> QED
  BY <1>1, <1>4, <1>5, <1>6

\* An event of a run names that run.
LEMMA EventsName ==
  ASSUME NEW r
  PROVE  /\ About(r, "Cloning", 5, "running").run = r
         /\ \A node, status : NodeEvent(r, node, status).run = r
         /\ OutcomeEvent(r).run = r /\ TerminalEvent(r).run = r
BY DEF About, NodeEvent, OutcomeEvent, FailureEvent, TerminalEvent

\* emitEvent sends an event at least once.
LEMMA CopiesType ==
  ASSUME TypeOK, NEW e \in Event
  PROVE  /\ Copies(e) \in Seq(Event) /\ Len(Copies(e)) > 0
         /\ \A i \in 1..Len(Copies(e)) : Copies(e)[i] = e
<1>1. IsFiniteSet(Room)
  <2>1. IsFiniteSet({"run"}) /\ Room = {"run"} \cup {"workflow"}
    BY FS_Singleton DEF Room
  <2> QED
    BY <2>1, FS_AddElement
<1>2. Cardinality(rooms) \in Nat
  BY <1>1, FS_Subset, FS_CardinalityType DEF TypeOK
<1>3. PICK n \in Nat \ {0} : Copies(e) = [i \in 1..n |-> e]
  BY <1>2 DEF Copies
<1>4. \A i \in 1..n : [j \in 1..n |-> e][i] = e
  OBVIOUS
<1>5. [j \in 1..n |-> e] \in Seq(Event) /\ Len([j \in 1..n |-> e]) = n
  OBVIOUS
<1> QED
  BY <1>3, <1>4, <1>5

\* Publishing keeps the types of what it changes.
LEMMA PublishType ==
  ASSUME TypeOK, NEW e \in Event, Publish(e)
  PROVE  wire' \in Seq(Event) /\ heard' \in {"nothing", "own", "foreign", "missed"}
<1>1. wire' \in Seq(Event)
  BY CopiesType DEF Publish, TypeOK
<1> QED
  BY <1>1 DEF Publish, TypeOK

-----------------------------------------------------------------------------
(* Type correctness and the jobs. *)

\* A page is well-formed when it opens.
LEMMA InitPage == Init => PageInv
<1> SUFFICES ASSUME Init PROVE PageInv
  OBVIOUS
<1> USE DEF Init
<1>1. Len(Nodes) \in Nat
  BY RunPageAssumption
<1>2. NewJob \in Job
  BY <1>1, RunPageAssumption DEF NewJob, Job, PC
<1>3. Opened \in Page
  BY DEF Opened, Page, Stage, LiveStatus, NotFetched
<1>4. TypeOK
  BY <1>2, <1>3, RunPageAssumption DEF TypeOK, RunStatus, Room, Event
<1>5. JobsInv
  BY <1>2, RunPageAssumption DEF JobsInv, JobsInvOf, NewJob
<1>6. OutcomeWritten /\ LastWord
  BY RunPageAssumption DEF OutcomeWritten, LastWord, NewJob
<1>7. SocketInv
  BY <1>3 DEF SocketInv, Opened
<1> QED
  BY <1>4, <1>5, <1>6, <1>7 DEF PageInv

\* Spending leaves numbers.
LEMMA SpendType ==
  ASSUME TypeOK, NEW event \in Events, Spend(event)
  PROVE  budget' \in [Events -> Nat]
<1>1. budget \in [Events -> Nat] /\ "total" \in Events
  BY DEF TypeOK, Events
<1>2. budget[event] - 1 \in Nat /\ budget["total"] - 1 \in Nat
  BY <1>1 DEF Spend
<1> QED
  BY <1>1, <1>2 DEF Spend, Events

\* What a job may become: its record stays one, with a node left where it needs one.
LEMMA JobsStep ==
  ASSUME TypeOK, JobsInv, NEW r \in Runs, NEW j \in Job, job' = [job EXCEPT ![r] = j],
         j.pc = "inside" => ~j.failed,
         j.pc = "inside" \/ j.failed => j.at <= Len(Nodes),
         j.pc \notin {"waiting", "done"} => j.attempt < MaxAttempts
  PROVE  job' \in [Runs -> Job] /\ JobsInv'
<1>1. job' \in [Runs -> Job]
  BY DEF TypeOK
<1>2. \A q \in Runs : JobsInvOf(q)'
  BY DEF TypeOK, JobsInv, JobsInvOf
<1> QED
  BY <1>1, <1>2 DEF JobsInv

\* The numbers of a job.
LEMMA JobNumbers ==
  ASSUME NEW j \in Job
  PROVE  j.at \in 1..Len(Nodes) + 1 /\ j.attempt \in 0..MaxAttempts
BY DEF Job

\* The fields of a job that change together.
LEMMA JobFields ==
  ASSUME NEW j \in Job
  PROVE  /\ \A pc \in PC : [j EXCEPT !.pc = pc] \in Job
         /\ \A pc \in PC, at \in 1..Len(Nodes) + 1 :
              /\ [j EXCEPT !.pc = pc, !.at = at] \in Job
              /\ [j EXCEPT !.pc = pc, !.failed = FALSE, !.at = at] \in Job
         /\ \A pc \in PC, attempt \in 0..MaxAttempts :
              /\ [j EXCEPT !.attempt = attempt, !.pc = pc] \in Job
              /\ [j EXCEPT !.pc = pc, !.approved = TRUE, !.attempt = attempt] \in Job
BY DEF Job

\* The job of a run stays well-formed whatever it does next.
LEMMA WorkKeepsJobs ==
  ASSUME TypeOK, JobsInv, NEW r \in Runs, Work(r) \/ NodeFails(r) \/ Approve(r)
  PROVE  job' \in [Runs -> Job] /\ JobsInv'
<1>1. job[r] \in Job /\ JobsInvOf(r) /\ Len(Nodes) \in Nat /\ MaxAttempts \in Nat \ {0}
  BY RunPageAssumption DEF TypeOK, JobsInv
<1> DEFINE Ok(j) == /\ j \in Job
                    /\ j.pc = "inside" => ~j.failed
                    /\ j.pc = "inside" \/ j.failed => j.at <= Len(Nodes)
                    /\ j.pc \notin {"waiting", "done"} => j.attempt < MaxAttempts
<1>2. SUFFICES \E j : Ok(j) /\ job' = [job EXCEPT ![r] = j]
  BY JobsStep
<1>3. CASE TakeJob(r)
  <2>1. Ok([job[r] EXCEPT !.pc = "start"])
    BY <1>1, <1>3 DEF TakeJob, JobsInvOf, Job, PC
  <2> QED
    BY <2>1, <1>3 DEF TakeJob, Move, TypeOK
<1>4. CASE MarkRunning(r)
  <2>1. PICK next \in IF job[r].failed THEN {job[r].at, job[r].at + 1} ELSE {job[r].at} :
          job' = [job EXCEPT ![r] = [@ EXCEPT !.pc = "node", !.failed = FALSE, !.at = next]]
    BY <1>4 DEF MarkRunning
  <2>2. next \in 1..Len(Nodes) + 1
    BY <1>1, <2>1, JobNumbers DEF JobsInvOf
  <2> DEFINE j == [job[r] EXCEPT !.pc = "node", !.failed = FALSE, !.at = next]
  <2>3. j \in Job
    BY <1>1, <2>2, JobFields DEF PC
  <2>4. j.pc = "node" /\ j.failed = FALSE /\ j.attempt = job[r].attempt
    BY <1>1 DEF Job
  <2>5. Ok(j)
    BY <1>1, <1>4, <2>3, <2>4 DEF MarkRunning, JobsInvOf
  <2> QED
    BY <2>1, <2>5
<1>5. CASE NodeStarts(r)
  <2>1. Ok([job[r] EXCEPT !.pc = "inside"])
    BY <1>1, <1>5 DEF NodeStarts, AtEnd, JobsInvOf, Job, PC
  <2> QED
    BY <2>1, <1>5 DEF NodeStarts, Move, TypeOK
<1>6. CASE NodeCompletes(r)
  <2> DEFINE j == [job[r] EXCEPT !.pc = "node", !.at = job[r].at + 1]
  <2>1. job[r].at + 1 \in 1..Len(Nodes) + 1
    BY <1>1, <1>6, JobNumbers DEF NodeCompletes, JobsInvOf
  <2>2. j \in Job
    BY <1>1, <2>1, JobFields DEF PC
  <2>3. j.pc = "node" /\ j.failed = job[r].failed /\ j.attempt = job[r].attempt
    BY <1>1 DEF Job
  <2>4. Ok(j)
    BY <1>1, <1>6, <2>2, <2>3 DEF NodeCompletes, JobsInvOf
  <2>5. job' = [job EXCEPT ![r] = j]
    BY <1>6 DEF NodeCompletes, TypeOK
  <2> QED
    BY <2>4, <2>5
<1>7. CASE NodeFails(r)
  <2>1. Ok([job[r] EXCEPT !.pc = "node", !.failed = TRUE])
    BY <1>1, <1>7 DEF NodeFails, JobsInvOf, Job, PC
  <2> QED
    BY <2>1, <1>7 DEF NodeFails, TypeOK
<1>8. CASE WriteOutcome(r)
  <2>1. Ok([job[r] EXCEPT !.pc = "written"])
    BY <1>1, <1>8 DEF WriteOutcome, JobsInvOf, Job, PC
  <2> QED
    BY <2>1, <1>8 DEF WriteOutcome, Move, TypeOK
<1>9. CASE TellOutcome(r)
  <2>1. Ok([job[r] EXCEPT !.pc = "told"])
    BY <1>1, <1>9 DEF TellOutcome, JobsInvOf, Job, PC
  <2> QED
    BY <2>1, <1>9 DEF TellOutcome, Move, TypeOK
<1>10. CASE EndJob(r)
  <2> DEFINE again == job[r].failed /\ job[r].attempt + 1 < MaxAttempts
             pc == IF again THEN "queued" ELSE IF row[r] = "WAITING_FOR_REVIEW" THEN "waiting" ELSE "done"
  <2> DEFINE j == [job[r] EXCEPT !.attempt = job[r].attempt + 1, !.pc = pc]
  <2>1. job[r].attempt + 1 \in 0..MaxAttempts
    BY <1>1, <1>10, JobNumbers DEF EndJob, JobsInvOf
  <2>2. j \in Job
    BY <1>1, <2>1, JobFields DEF PC
  <2>3. j.pc = pc /\ j.failed = job[r].failed /\ j.attempt = job[r].attempt + 1 /\ j.at = job[r].at
    BY <1>1 DEF Job
  <2>4. Ok(j)
    BY <1>1, <2>2, <2>3 DEF JobsInvOf
  <2>5. job' = [job EXCEPT ![r].attempt = job[r].attempt + 1, ![r].pc = pc]
    BY <1>10 DEF EndJob
  <2>6. job' = [job EXCEPT ![r] = j]
    BY <2>5 DEF TypeOK
  <2> HIDE DEF Ok, j
  <2> QED
    BY <2>4, <2>6
<1>11. CASE Approve(r)
  <2> DEFINE j == [job[r] EXCEPT !.pc = "queued", !.approved = TRUE, !.attempt = 0]
  <2>1. j \in Job
    <3>1. 0 \in 0..MaxAttempts /\ "queued" \in PC
      BY <1>1 DEF PC
    <3> QED
      BY <1>1, <3>1, JobFields
  <2>2. j.pc = "queued" /\ j.failed = job[r].failed /\ j.attempt = 0 /\ j.at = job[r].at
    BY <1>1 DEF Job
  <2>3. Ok(j)
    BY <1>1, <2>1, <2>2 DEF JobsInvOf
  <2> QED
    BY <2>3, <1>11 DEF Approve
<1> QED
  BY <1>3, <1>4, <1>5, <1>6, <1>7, <1>8, <1>9, <1>10, <1>11 DEF Work

\* Jobs survive a restart of the backend.
LEMMA RestartKeepsJobs ==
  ASSUME TypeOK, JobsInv, Restart
  PROVE  job' \in [Runs -> Job] /\ JobsInv'
<1>1. \A r \in Runs : job'[r] = job[r] \/ (job[r].pc \notin {"waiting", "done"}
                                            /\ job'[r] = [job[r] EXCEPT !.pc = "queued"])
  BY DEF Restart
<1>2. \A r \in Runs : job'[r] \in Job
  BY <1>1, JobFields DEF TypeOK, PC
<1>3. job' \in [Runs -> Job]
  BY <1>2 DEF Restart
<1>4. ASSUME NEW r \in Runs PROVE JobsInvOf(r)'
  <2>1. CASE job'[r] = job[r]
    BY <2>1 DEF JobsInv, JobsInvOf
  <2>2. CASE job[r].pc \notin {"waiting", "done"} /\ job'[r] = [job[r] EXCEPT !.pc = "queued"]
    <3>1. job[r] \in Job /\ JobsInvOf(r)
      BY DEF TypeOK, JobsInv
    <3>2. /\ job'[r].pc = "queued" /\ job'[r].failed = job[r].failed
          /\ job'[r].at = job[r].at /\ job'[r].attempt = job[r].attempt
      BY <2>2, <3>1 DEF Job
    <3> QED
      BY <2>2, <3>1, <3>2 DEF JobsInvOf
  <2> QED
    BY <1>1, <2>1, <2>2
<1> QED
  BY <1>3, <1>4 DEF JobsInv

\* What a job does to everything but the jobs.
LEMMA WorkKeepsTypes ==
  ASSUME TypeOK, JobsInv, NEW r \in Runs, Work(r) \/ NodeFails(r) \/ Approve(r)
  PROVE  TypeOK'
<1>1. job' \in [Runs -> Job]
  BY WorkKeepsJobs
<1>2. UNCHANGED <<conn, rooms, asked, page>>
  BY DEF Work, TakeJob, MarkRunning, NodeStarts, NodeCompletes, NodeFails, WriteOutcome,
         TellOutcome, EndJob, Approve, NoSocket
<1>3. row' \in [Runs -> RunStatus]
  BY DEF TypeOK, RunStatus, Work, TakeJob, MarkRunning, NodeStarts, NodeCompletes, NodeFails,
         WriteOutcome, TellOutcome, EndJob, Approve
<1>4. budget' \in [Events -> Nat]
  <2>1. CASE NodeFails(r)
    BY <2>1, SpendType DEF NodeFails, Events
  <2>2. CASE Work(r) \/ Approve(r)
    BY <2>2 DEF TypeOK, Work, TakeJob, MarkRunning, NodeStarts, NodeCompletes, WriteOutcome,
                TellOutcome, EndJob, Approve
  <2> QED
    BY <2>1, <2>2
<1>5. UNCHANGED <<wire, heard>> \/ \E e \in Event : Publish(e)
  BY PublishedEvents
  DEF Work, TakeJob, MarkRunning, NodeStarts, NodeCompletes, NodeFails, WriteOutcome, TellOutcome,
      EndJob, Approve, Silent
<1>6. wire' \in Seq(Event) /\ heard' \in {"nothing", "own", "foreign", "missed"}
  <2>1. CASE UNCHANGED <<wire, heard>>
    BY <2>1 DEF TypeOK
  <2>2. CASE \E e \in Event : Publish(e)
    BY <2>2, PublishType
  <2> QED
    BY <1>5, <2>1, <2>2
<1> QED
  BY <1>1, <1>2, <1>3, <1>4, <1>6 DEF TypeOK

\* The fields of a page.
LEMMA PageFields ==
  ASSUME TypeOK
  PROVE  /\ \A b \in BOOLEAN : [page EXCEPT !.connected = b] \in Page
         /\ \A e \in Event :
              [page EXCEPT !.stage = e.stage, !.progress = e.progress, !.status = e.status] \in Page
         /\ \A status \in RunStatus : [page EXCEPT !.row = status] \in Page
         /\ Opened \in Page
<1>1. page \in Page
  BY DEF TypeOK
<1>2. \A b \in BOOLEAN : [page EXCEPT !.connected = b] \in Page
  BY <1>1 DEF Page
<1>3. \A stage \in Stage, progress \in 0..100, status \in LiveStatus :
        [page EXCEPT !.stage = stage, !.progress = progress, !.status = status] \in Page
  BY <1>1 DEF Page
<1>4. \A e \in Event : e.stage \in Stage /\ e.progress \in 0..100 /\ e.status \in LiveStatus
  BY DEF Event
<1>5. \A status \in RunStatus : [page EXCEPT !.row = status] \in Page
  BY <1>1 DEF Page
<1>6. Opened \in Page
  BY DEF Page, Opened, Stage, LiveStatus, NotFetched
<1> QED
  BY <1>2, <1>3, <1>4, <1>5, <1>6

\* What socket, page and faults do to the types.
LEMMA PageKeepsTypes ==
  ASSUME TypeOK, JobsInv,
         Connect \/ HandleSubscribe \/ Receive \/ Fetch \/ Break \/ Reload \/ Restart
  PROVE  TypeOK'
<1> USE DEF TypeOK
<1>1. CASE Connect
  <2>1. [page EXCEPT !.connected = TRUE] \in Page
    BY PageFields, Zenon
  <2>2. asked' \in 0..1
    BY <1>1 DEF Connect
  <2> QED
    BY <1>1, <2>1, <2>2 DEF Connect
<1>2. CASE HandleSubscribe
  <2>1. rooms' \in SUBSET Room /\ asked' \in 0..1
    BY <1>2 DEF HandleSubscribe
  <2> QED
    BY <1>2, <2>1 DEF HandleSubscribe
<1>3. CASE Receive
  <2>1. Head(wire) \in Event /\ Tail(wire) \in Seq(Event)
    BY <1>3 DEF Receive
  <2> QED
    BY <1>3, <2>1, PageFields DEF Receive
<1>4. CASE Fetch
  <2>1. page' \in Page
    BY <1>4, PageFields, RunPageAssumption DEF Fetch
  <2> QED
    BY <1>4, <2>1 DEF Fetch
<1>5. CASE Break
  <2>1. budget' \in [Events -> Nat]
    BY <1>5, SpendType DEF Break, Events
  <2>2. page' \in Page
    BY <1>5, PageFields DEF Break
  <2>3. rooms' \in SUBSET Room /\ asked' \in 0..1 /\ wire' \in Seq(Event)
    BY <1>5 DEF Break, Disconnected
  <2>4. conn' \in {"down", "up"} /\ heard' \in {"nothing", "own", "foreign", "missed"}
    BY <1>5 DEF Break, Disconnected
  <2>5. row' \in [Runs -> RunStatus] /\ job' \in [Runs -> Job]
    BY <1>5 DEF Break
  <2> QED
    BY <2>1, <2>2, <2>3, <2>4, <2>5
<1>6. CASE Reload
  <2>1. budget' \in [Events -> Nat]
    BY <1>6, SpendType DEF Reload, Events
  <2>2. page' \in Page
    BY <1>6, PageFields DEF Reload
  <2>3. rooms' \in SUBSET Room /\ asked' \in 0..1 /\ wire' \in Seq(Event)
    BY <1>6 DEF Reload
  <2>4. conn' \in {"down", "up"} /\ heard' \in {"nothing", "own", "foreign", "missed"}
    BY <1>6 DEF Reload
  <2>5. row' \in [Runs -> RunStatus] /\ job' \in [Runs -> Job]
    BY <1>6 DEF Reload
  <2> QED
    BY <2>1, <2>2, <2>3, <2>4, <2>5
<1>7. CASE Restart
  <2>1. budget' \in [Events -> Nat]
    BY <1>7, SpendType DEF Restart, Events
  <2>2. page' \in Page
    BY <1>7, PageFields DEF Restart
  <2>3. rooms' \in SUBSET Room /\ asked' \in 0..1 /\ wire' \in Seq(Event)
    BY <1>7 DEF Restart, Disconnected
  <2>4. conn' \in {"down", "up"} /\ heard' \in {"nothing", "own", "foreign", "missed"}
    BY <1>7 DEF Restart, Disconnected
  <2>5. row' \in [Runs -> RunStatus] /\ job' \in [Runs -> Job]
    BY <1>7, RestartKeepsJobs DEF Restart
  <2> QED
    BY <2>1, <2>2, <2>3, <2>4, <2>5
<1> QED
  BY <1>1, <1>2, <1>3, <1>4, <1>5, <1>6, <1>7

\* Jobs are changed by nobody else.
LEMMA TypeStep ==
  ASSUME TypeOK, JobsInv, [Next]_vars
  PROVE  TypeOK' /\ JobsInv'
<1>1. CASE \E r \in Runs : Work(r) \/ NodeFails(r) \/ Approve(r)
  BY <1>1, WorkKeepsTypes, WorkKeepsJobs
<1>2. CASE Restart
  BY <1>2, RestartKeepsJobs, PageKeepsTypes
<1>3. CASE Connect \/ HandleSubscribe \/ Receive \/ Fetch \/ Break \/ Reload
  <2>1. job' = job
    BY <1>3 DEF Connect, HandleSubscribe, Receive, Fetch, Break, Reload
  <2>2. JobsInv'
    BY <2>1 DEF JobsInv, JobsInvOf
  <2> QED
    BY <1>3, <2>2, PageKeepsTypes
<1>4. CASE UNCHANGED vars
  BY <1>4 DEF vars, TypeOK, JobsInv, JobsInvOf
<1> QED
  BY <1>1, <1>2, <1>3, <1>4 DEF Next

\* Every value of every variable has its type, whatever breaks.
THEOREM TypesAreKept == Spec => []TypeOK
<1>1. Init => TypeOK /\ JobsInv
  BY InitPage DEF PageInv
<1>2. TypeOK /\ JobsInv /\ [Next]_vars => (TypeOK /\ JobsInv)'
  BY TypeStep
<1> QED
  BY <1>1, <1>2, PTL DEF Spec

-----------------------------------------------------------------------------
(* The socket. *)

\* A page that is connected is subscribed or about to be, after every step.
LEMMA SocketStep ==
  ASSUME TypeOK, SocketInv, [Next]_vars
  PROVE  SocketInv'
<1>1. CASE \E r \in Runs : Work(r) \/ NodeFails(r) \/ Approve(r)
  <2>1. UNCHANGED <<conn, rooms, asked, page>>
    BY <1>1 DEF Work, TakeJob, MarkRunning, NodeStarts, NodeCompletes, NodeFails, WriteOutcome,
                TellOutcome, EndJob, Approve, NoSocket
  <2>2. wire' = wire \/ \E e : Publish(e)
    BY <1>1 DEF Work, TakeJob, MarkRunning, NodeStarts, NodeCompletes, NodeFails, WriteOutcome,
                TellOutcome, EndJob, Approve, Silent
  <2>3. conn = "down" => wire' = wire
    BY <2>2 DEF Publish
  <2> QED
    BY <2>1, <2>3 DEF SocketInv
<1>2. CASE Connect
  BY <1>2 DEF Connect, SocketInv
<1>3. CASE HandleSubscribe
  BY <1>3 DEF HandleSubscribe, SocketInv
<1>4. CASE Receive
  <2>1. page'.connected = page.connected
    BY <1>4 DEF Receive, TypeOK, Page
  <2>2. conn # "down"
    BY <1>4 DEF Receive, SocketInv
  <2> QED
    BY <1>4, <2>1, <2>2 DEF Receive, SocketInv
<1>5. CASE Fetch
  <2>1. page'.connected = page.connected
    BY <1>5 DEF Fetch, TypeOK, Page
  <2> QED
    BY <1>5, <2>1 DEF Fetch, SocketInv
<1>6. CASE Break \/ Reload \/ Restart
  <2>1. page'.connected = FALSE
    BY <1>6 DEF Break, Reload, Restart, TypeOK, Page, Opened
  <2> QED
    BY <1>6, <2>1 DEF Break, Reload, Restart, Disconnected, SocketInv
<1>7. CASE UNCHANGED vars
  BY <1>7 DEF vars, SocketInv
<1> QED
  BY <1>1, <1>2, <1>3, <1>4, <1>5, <1>6, <1>7 DEF Next

\* A connected page is in its run's rooms as soon as its messages are handled, also
\* after any number of breaks and restarts of the backend.
THEOREM ConnectedPagesAreSubscribed == Spec => []ConnectedIsSubscribed
<1>1. Init => TypeOK /\ JobsInv /\ SocketInv
  BY InitPage DEF PageInv
<1>2. TypeOK /\ JobsInv /\ SocketInv /\ [Next]_vars => (TypeOK /\ JobsInv /\ SocketInv)'
  BY TypeStep, SocketStep
<1>3. TypeOK /\ JobsInv /\ SocketInv => ConnectedIsSubscribed
  BY DEF SocketInv, ConnectedIsSubscribed
<1> QED
  BY <1>1, <1>2, <1>3, PTL DEF Spec

-----------------------------------------------------------------------------
(* The last word about the run. *)

\* A job that has not ended, or is approved, is at work after its step.
LEMMA GoesOn ==
  ASSUME TypeOK, NEW r \in Runs,
         \/ TakeJob(r) \/ MarkRunning(r) \/ NodeStarts(r) \/ NodeCompletes(r) \/ NodeFails(r)
         \/ Approve(r)
  PROVE  job'[r].pc \in {"start", "node", "inside", "queued"}
<1>1. job[r] \in Job
  BY DEF TypeOK
<1>2. CASE TakeJob(r) \/ NodeStarts(r)
  BY <1>1, <1>2 DEF TakeJob, NodeStarts, Move, Job, TypeOK
<1>3. CASE MarkRunning(r)
  BY ZenonT(40), <1>1, <1>3 DEF MarkRunning, Job, TypeOK
<1>4. CASE NodeCompletes(r) \/ NodeFails(r)
  BY <1>1, <1>4 DEF NodeCompletes, NodeFails, Job, TypeOK
<1>5. CASE Approve(r)
  BY <1>1, <1>5 DEF Approve, Job, TypeOK
<1> QED
  BY <1>2, <1>3, <1>4, <1>5

\* The row says how the job ended before the job says it has.
LEMMA OutcomeStep ==
  ASSUME TypeOK, OutcomeWritten, [Next]_vars
  PROVE  OutcomeWritten'
<1> USE DEF OutcomeWritten, TypeOK
<1>1. CASE \E r \in Runs : Work(r) \/ NodeFails(r) \/ Approve(r)
  <2>1. PICK r \in Runs : Work(r) \/ NodeFails(r) \/ Approve(r)
    BY <1>1
  <2>2. CASE r = Viewed
    <3>1. job[Viewed] \in Job
      BY RunPageAssumption
    <3>2. CASE TakeJob(r) \/ MarkRunning(r) \/ NodeStarts(r) \/ NodeCompletes(r) \/ NodeFails(r) \/ Approve(r)
      BY <2>2, <3>2, GoesOn
    <3>3. CASE WriteOutcome(r)
      BY <2>2, <3>1, <3>3, RunPageAssumption DEF WriteOutcome
    <3>4. CASE TellOutcome(r) \/ EndJob(r)
      BY <2>2, <3>1, <3>4, RunPageAssumption DEF TellOutcome, EndJob
    <3> QED
      BY <2>1, <3>2, <3>3, <3>4 DEF Work
  <2>3. CASE r # Viewed
    <3>1. job'[Viewed] = job[Viewed] /\ row'[Viewed] = row[Viewed]
      BY <2>1, <2>3, RunPageAssumption
      DEF Work, TakeJob, MarkRunning, NodeStarts, NodeCompletes, NodeFails, WriteOutcome,
          TellOutcome, EndJob, Approve, Move
    <3> QED
      BY <3>1
  <2> QED
    BY <2>2, <2>3
<1>2. CASE Connect \/ HandleSubscribe \/ Receive \/ Fetch \/ Break \/ Reload
  BY <1>2 DEF Connect, HandleSubscribe, Receive, Fetch, Break, Reload
<1>3. CASE Restart
  <2>1. job[Viewed] \in Job
    BY RunPageAssumption
  <2>2. job'[Viewed] = job[Viewed] \/ job'[Viewed].pc = "queued"
    BY <1>3, <2>1, RunPageAssumption DEF Restart, Job
  <2> QED
    BY <1>3, <2>2 DEF Restart
<1>4. CASE UNCHANGED vars
  BY <1>4 DEF vars
<1> QED
  BY <1>1, <1>2, <1>3, <1>4 DEF Next

\* Nothing is said about the run, and nothing that was said is undone.
LEMMA Unsaid ==
  ASSUME LastWord, wire' = wire, heard' = heard,
         page'.stage = page.stage, page'.progress = page.progress, page'.status = page.status,
         job'[Viewed].pc \in {"waiting", "done"}
           => job[Viewed].pc \in {"waiting", "done"} /\ row'[Viewed] = row[Viewed]
  PROVE  LastWord'
<1> SUFFICES ASSUME job'[Viewed].pc \in {"waiting", "done"} PROVE LastWord'
  BY DEF LastWord
<1>1. TerminalEvent(Viewed)' = TerminalEvent(Viewed)
  BY DEF TerminalEvent
<1>2. \A i : (OwnAt(i)' <=> OwnAt(i)) /\ (LastOwn(i)' <=> LastOwn(i))
  BY DEF OwnAt, LastOwn
<1> QED
  BY <1>1, <1>2 DEF LastWord, Shows

\* What is said about other runs leaves the last word where it was.
LEMMA SaidOfOthers ==
  ASSUME TypeOK, LastWord, NEW e \in Event, e.run # Viewed, Publish(e), page' = page,
         job'[Viewed] = job[Viewed], row'[Viewed] = row[Viewed]
  PROVE  LastWord'
<1>1. CASE conn # "up"
  <2>1. wire' = wire /\ heard' = heard
    BY <1>1 DEF Publish
  <2> QED
    BY <2>1, Unsaid
<1>2. CASE conn = "up"
  <2> DEFINE n == Len(wire)
             more == Copies(e)
  <2>1. wire' = wire \o more /\ heard' = heard
    BY <1>2 DEF Publish
  <2>2. wire \in Seq(Event) /\ more \in Seq(Event) /\ n \in Nat
        /\ \A i \in 1..Len(more) : more[i] = e
    BY CopiesType DEF TypeOK
  <2> HIDE DEF more
  <2>3. /\ Len(wire') = n + Len(more)
        /\ \A i \in 1..n : wire'[i] = wire[i]
        /\ \A i \in 1..Len(wire') : i > n => wire'[i] = e
    BY <2>1, <2>2
  <2>4. \A i : OwnAt(i)' <=> OwnAt(i)
    BY <2>2, <2>3 DEF OwnAt
  <2>5. \A i \in 1..n : LastOwn(i)' <=> LastOwn(i)
    BY <2>2, <2>3, <2>4 DEF LastOwn, OwnAt
  <2>6. \A i : LastOwn(i)' => i \in 1..n
    BY <2>4 DEF LastOwn, OwnAt
  <2>7. TerminalEvent(Viewed)' = TerminalEvent(Viewed)
    BY DEF TerminalEvent
  <2>8. ASSUME job'[Viewed].pc \in {"waiting", "done"}
        PROVE  \A i \in 1..Len(wire') : LastOwn(i)' => wire'[i] = TerminalEvent(Viewed)'
    BY <2>3, <2>5, <2>6, <2>7, <2>8 DEF LastWord
  <2>9. ASSUME job'[Viewed].pc \in {"waiting", "done"}, heard' = "own",
               \A i \in 1..Len(wire') : ~OwnAt(i)'
        PROVE  Shows(TerminalEvent(Viewed))'
    <3>1. \A i \in 1..Len(wire) : ~OwnAt(i)
      <4>1. 1..Len(wire) \subseteq 1..Len(wire')
        BY <2>2, <2>3
      <4> QED
        BY <2>4, <2>9, <4>1
    <3> QED
      BY <2>1, <2>7, <2>9, <3>1 DEF LastWord, Shows
  <2> QED
    BY <2>8, <2>9 DEF LastWord
<1> QED
  BY <1>1, <1>2

\* The processor's last event of a job is the last word.
LEMMA SaidLast ==
  ASSUME TypeOK, SocketInv, LastWord, EndJob(Viewed)
  PROVE  LastWord'
<1> DEFINE e == TerminalEvent(Viewed)
           more == Copies(e)
<1>1. e \in Event /\ e.run = Viewed /\ Publish(e) /\ row' = row /\ page' = page
  BY PublishedEvents, EventsName, RunPageAssumption DEF EndJob, NoSocket
<1>2. e' = e
  BY <1>1 DEF TerminalEvent
<1>3. CASE conn # "up"
  <2>1. wire' = <<>> /\ heard' = "missed"
    BY <1>1, <1>3 DEF Publish, TypeOK, SocketInv
  <2> QED
    BY <2>1 DEF LastWord
<1>4. CASE conn = "up"
  <2>1. wire' = wire \o more
    BY <1>1, <1>4 DEF Publish
  <2>2. wire \in Seq(Event) /\ more \in Seq(Event) /\ Len(more) > 0
        /\ \A i \in 1..Len(more) : more[i] = e
    BY <1>1, CopiesType DEF TypeOK
  <2> HIDE DEF more
  <2>3. PICK k \in Nat \ {0} : k = Len(wire') /\ wire'[k] = e
    <3>1. Len(wire') \in Nat \ {0} /\ wire'[Len(wire')] = e
      BY <2>1, <2>2
    <3> QED
      BY <3>1
  <2>4. OwnAt(k)'
    BY <1>1, <2>3 DEF OwnAt
  <2>5. \A i \in 1..Len(wire') : LastOwn(i)' => i = k
    BY <2>3, <2>4 DEF LastOwn
  <2>6. \A i \in 1..Len(wire') : LastOwn(i)' => wire'[i] = e'
    BY <1>2, <2>3, <2>5
  <2>7. ~\A i \in 1..Len(wire') : ~OwnAt(i)'
    BY <2>3, <2>4
  <2> QED
    BY <2>6, <2>7 DEF LastWord
<1> QED
  BY <1>3, <1>4

\* What is received was said before what is still on its way.
LEMMA Heard ==
  ASSUME TypeOK, LastWord, Receive
  PROVE  LastWord'
<1> DEFINE e == Head(wire)
           rest == Tail(wire)
<1>1. /\ wire \in Seq(Event) /\ wire # <<>> /\ wire' = rest /\ job' = job /\ row' = row
      /\ page' = [page EXCEPT !.stage = e.stage, !.progress = e.progress, !.status = e.status]
      /\ heard' = IF e.run = Viewed THEN "own" ELSE "foreign"
  BY DEF Receive, TypeOK
<1>2. e \in Event /\ rest \in Seq(Event) /\ Len(rest) = Len(wire) - 1 /\ Len(wire) \in Nat \ {0}
      /\ e = wire[1] /\ \A i \in 1..Len(rest) : rest[i] = wire[i + 1]
  BY <1>1
<1>3. TerminalEvent(Viewed)' = TerminalEvent(Viewed)
  BY <1>1 DEF TerminalEvent
<1>4. \A i \in 1..Len(rest) : OwnAt(i)' <=> OwnAt(i + 1)
  BY <1>1, <1>2 DEF OwnAt
<1>5. ASSUME NEW i \in 1..Len(rest), LastOwn(i)' PROVE LastOwn(i + 1)
  <2>1. OwnAt(i + 1)
    BY <1>4, <1>5 DEF LastOwn
  <2>2. ASSUME NEW j \in 1..Len(wire), OwnAt(j) PROVE j <= i + 1
    <3>1. CASE j = 1
      BY <3>1
    <3>2. CASE j # 1
      <4>1. j - 1 \in 1..Len(rest) /\ j = (j - 1) + 1
        BY <1>2, <3>2
      <4>2. OwnAt(j - 1)'
        BY <1>4, <2>2, <4>1
      <4>3. j - 1 <= i
        BY <1>1, <1>5, <4>1, <4>2 DEF LastOwn
      <4> QED
        BY <4>1, <4>3
    <3> QED
      BY <3>1, <3>2
  <2> QED
    BY <2>1, <2>2 DEF LastOwn
<1>6. ASSUME job'[Viewed].pc \in {"waiting", "done"}, NEW i \in 1..Len(wire'), LastOwn(i)'
      PROVE  wire'[i] = TerminalEvent(Viewed)'
  <2>1. LastOwn(i + 1) /\ i + 1 \in 1..Len(wire)
    BY <1>1, <1>2, <1>5, <1>6
  <2>2. wire[i + 1] = TerminalEvent(Viewed)
    BY <1>1, <1>6, <2>1 DEF LastWord
  <2> QED
    BY <1>1, <1>2, <1>3, <1>6, <2>2
<1>7. ASSUME job'[Viewed].pc \in {"waiting", "done"}, heard' = "own",
             \A i \in 1..Len(wire') : ~OwnAt(i)'
      PROVE  Shows(TerminalEvent(Viewed))'
  <2>1. OwnAt(1)
    BY <1>1, <1>2, <1>7 DEF OwnAt
  <2>2. ASSUME NEW j \in 1..Len(wire), OwnAt(j) PROVE j <= 1
    <3>1. SUFFICES ASSUME j # 1 PROVE FALSE
      BY <2>2
    <3>2. j - 1 \in 1..Len(rest) /\ j = (j - 1) + 1
      BY <1>2, <3>1
    <3>3. OwnAt(j - 1)'
      BY <1>4, <2>2, <3>2
    <3> QED
      BY <1>1, <1>7, <3>2, <3>3
  <2>3. LastOwn(1)
    BY <2>1, <2>2 DEF LastOwn
  <2>4. e = TerminalEvent(Viewed)
    BY <1>1, <1>2, <1>7, <2>3 DEF LastWord
  <2>5. page'.stage = e.stage /\ page'.progress = e.progress /\ page'.status = e.status
    BY <1>1 DEF TypeOK, Page
  <2> QED
    BY <1>3, <2>4, <2>5 DEF Shows
<1> QED
  BY <1>6, <1>7 DEF LastWord

\* What the socket and the backend lose is not taken for the last word.
LEMMA Lost ==
  ASSUME TypeOK, LastWord, Break \/ Reload \/ Restart
  PROVE  LastWord'
<1>1. wire' = <<>> /\ row' = row
  BY DEF Break, Reload, Restart, Disconnected
<1>2. job'[Viewed].pc \in {"waiting", "done"} => job[Viewed].pc \in {"waiting", "done"}
  <2>1. job[Viewed] \in Job
    BY RunPageAssumption DEF TypeOK
  <2>2. job'[Viewed] = job[Viewed] \/ job'[Viewed].pc = "queued"
    BY <2>1, RunPageAssumption DEF Break, Reload, Restart, Job
  <2> QED
    BY <2>2
<1>3. CASE heard' = "own"
  <2>1. /\ \A i \in 1..Len(wire) : wire[i].run # Viewed
        /\ heard = "own"
        /\ page' = [page EXCEPT !.connected = FALSE]
    BY <1>3 DEF Break, Reload, Restart, Disconnected, Unheard
  <2>2. \A i \in 1..Len(wire) : ~OwnAt(i)
    BY <2>1 DEF OwnAt
  <2>3. page'.stage = page.stage /\ page'.progress = page.progress /\ page'.status = page.status
    BY <2>1 DEF TypeOK, Page
  <2>4. TerminalEvent(Viewed)' = TerminalEvent(Viewed)
    BY <1>1 DEF TerminalEvent
  <2> QED
    BY <1>1, <1>2, <2>1, <2>2, <2>3, <2>4 DEF LastWord, Shows
<1>4. CASE heard' # "own"
  BY <1>1, <1>4 DEF LastWord
<1> QED
  BY <1>3, <1>4

\* A job's step keeps the last word.
LEMMA WorkKeepsLastWord ==
  ASSUME TypeOK, SocketInv, OutcomeWritten, LastWord,
         NEW r \in Runs, Work(r) \/ NodeFails(r) \/ Approve(r)
  PROVE  LastWord'
<1>1. page' = page
  BY DEF Work, TakeJob, MarkRunning, NodeStarts, NodeCompletes, NodeFails, WriteOutcome,
         TellOutcome, EndJob, Approve, NoSocket
<1>2. CASE r = Viewed
  <2>1. CASE \/ TakeJob(r) \/ MarkRunning(r) \/ NodeStarts(r) \/ NodeCompletes(r)
             \/ NodeFails(r) \/ Approve(r)
    BY <1>2, <2>1, GoesOn DEF LastWord
  <2>2. CASE WriteOutcome(r) \/ TellOutcome(r)
    <3>1. job'[Viewed].pc \in {"written", "told"}
      BY <1>2, <2>2 DEF WriteOutcome, TellOutcome, Move, TypeOK, Job
    <3> QED
      BY <3>1 DEF LastWord
  <2>3. CASE EndJob(r)
    BY <1>2, <2>3, SaidLast
  <2> QED
    BY <2>1, <2>2, <2>3 DEF Work
<1>3. CASE r # Viewed
  <2>1. job'[Viewed] = job[Viewed] /\ row'[Viewed] = row[Viewed]
    BY <1>3, RunPageAssumption
    DEF Work, TakeJob, MarkRunning, NodeStarts, NodeCompletes, NodeFails, WriteOutcome,
        TellOutcome, EndJob, Approve, Move, TypeOK
  <2>2. UNCHANGED <<wire, heard>> \/ \E e \in Event : e.run = r /\ Publish(e)
    <3> DEFINE Said(e) == e \in Event /\ e.run = r
    <3>1. Said(About(r, "Cloning", 5, "running")) /\ Said(OutcomeEvent(r)) /\ Said(TerminalEvent(r))
      BY PublishedEvents, EventsName
    <3>2. \A node : \A status \in {"started", "completed", "failed"} : Said(NodeEvent(r, node, status))
      BY PublishedEvents, EventsName
    <3> HIDE DEF Said
    <3>3. UNCHANGED <<wire, heard>> \/ \E e : Said(e) /\ Publish(e)
      BY <3>1, <3>2
      DEF Work, TakeJob, MarkRunning, NodeStarts, NodeCompletes, NodeFails, WriteOutcome,
          TellOutcome, EndJob, Approve, Silent
    <3> QED
      BY <3>3 DEF Said
  <2>3. CASE UNCHANGED <<wire, heard>>
    BY <1>1, <2>1, <2>3, Unsaid
  <2>4. CASE \E e \in Event : e.run = r /\ Publish(e)
    BY <1>1, <1>3, <2>1, <2>4, SaidOfOthers
  <2> QED
    BY <2>2, <2>3, <2>4
<1> QED
  BY <1>2, <1>3

\* The invariant survives every step.
LEMMA PageStep ==
  ASSUME PageInv, [Next]_vars
  PROVE  PageInv'
<1> USE DEF PageInv
<1>1. TypeOK' /\ JobsInv' /\ OutcomeWritten' /\ SocketInv'
  BY TypeStep, OutcomeStep, SocketStep
<1>2. LastWord'
  <2>1. CASE \E r \in Runs : Work(r) \/ NodeFails(r) \/ Approve(r)
    BY <2>1, WorkKeepsLastWord
  <2>2. CASE Receive
    BY <2>2, Heard
  <2>3. CASE Break \/ Reload \/ Restart
    BY <2>3, Lost
  <2>4. CASE Connect \/ HandleSubscribe \/ Fetch
    <3>1. page'.stage = page.stage /\ page'.progress = page.progress /\ page'.status = page.status
      BY <2>4 DEF Connect, HandleSubscribe, Fetch, TypeOK, Page
    <3>2. UNCHANGED <<wire, heard, job, row>>
      BY <2>4 DEF Connect, HandleSubscribe, Fetch
    <3> QED
      BY <3>1, <3>2, Unsaid
  <2>5. CASE UNCHANGED vars
    BY <2>5, Unsaid DEF vars
  <2> QED
    BY <2>1, <2>2, <2>3, <2>4, <2>5 DEF Next
<1> QED
  BY <1>1, <1>2

\* A page that shows the last event of a run that has ended or waits shows what the
\* run's row says.
LEMMA LastWordIsTrue == PageInv => SettledPageIsTrue
<1> SUFFICES ASSUME PageInv, Settled, heard = "own"
             PROVE  /\ Badge(CurrentStatus) = Badge(row[Viewed])
                    /\ row[Viewed] = "COMPLETED" => page.progress = 100 /\ StepsDone = 1..Len(Steps)
                    /\ row[Viewed] = "WAITING_FOR_REVIEW" => page.stage = "Reviewing"
  BY DEF SettledPageIsTrue
<1>1. wire = <<>> /\ job[Viewed].pc \in {"waiting", "done"}
  BY DEF Settled
<1>2. \A i \in 1..Len(wire) : ~OwnAt(i)
  BY <1>1
<1>3. Shows(TerminalEvent(Viewed))
  BY <1>1, <1>2 DEF PageInv, LastWord
<1>4. row[Viewed] \in {"COMPLETED", "WAITING_FOR_REVIEW", "FAILED"}
  BY <1>1 DEF PageInv, OutcomeWritten
<1>5. CASE row[Viewed] = "COMPLETED"
  <2>1. page.stage = "Completed" /\ page.progress = 100 /\ page.status = "completed"
    BY <1>3, <1>5 DEF Shows, TerminalEvent, About
  <2>2. StepsDone = 1..Len(Steps)
    BY <2>1 DEF StepsDone
  <2> QED
    BY <1>5, <2>1, <2>2 DEF Badge, CurrentStatus
<1>6. CASE row[Viewed] = "WAITING_FOR_REVIEW"
  BY <1>3, <1>6 DEF Shows, TerminalEvent, About, Badge, CurrentStatus
<1>7. CASE row[Viewed] = "FAILED"
  BY <1>3, <1>7 DEF Shows, TerminalEvent, About, Badge, CurrentStatus
<1> QED
  BY <1>4, <1>5, <1>6, <1>7

\* Once a run has ended or waits for its review, a page that heard of it last and
\* missed nothing since shows what the row says.
THEOREM SettledPagesAreTrue == Spec => []SettledPageIsTrue
<1>1. Init => PageInv
  BY InitPage
<1>2. PageInv /\ [Next]_vars => PageInv'
  BY PageStep
<1>3. PageInv => SettledPageIsTrue
  BY LastWordIsTrue
<1> QED
  BY <1>1, <1>2, <1>3, PTL DEF Spec
=============================================================================
