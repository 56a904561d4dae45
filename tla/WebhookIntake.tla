--------------------------- MODULE WebhookIntake ---------------------------
(***************************************************************************)
(* From a push webhook to a queued run: github-webhooks.controller.ts, the *)
(* push branch of github-webhook.service.ts and the rows it writes, while  *)
(* deliveries are repeated, the repository is revoked and connected again  *)
(* (workspace-cleanup.service.ts) and the process may stop.                *)
(*                                                                         *)
(* Each call of handleEvent is a handler; it is not awaited, so any number *)
(* run at once.  One action is one database or queue operation.  All       *)
(* deliveries are pushes to the default branch of one GitHub repository.   *)
(***************************************************************************)
EXTENDS Naturals

CONSTANTS
  Deliveries,    \* values of the x-github-delivery header
  NoDelivery,
  Handlers,      \* bounds how many calls of handleEvent overlap
  InitialBudget  \* bounds on failures, restarts, repeats and revocations

Faults == {"failures", "restarts", "repeats", "revocations"}
ASSUME IntakeAssumption == NoDelivery \notin Deliveries /\ InitialBudget \in [Faults -> Nat]

VARIABLES
  repo,     \* id of the Repository row, 0 when there is none
  lastRepo, \* the last id given out
  acked,    \* deliveries answered with 200
  events,   \* the WebhookEvent row of each delivery
  runs,     \* the WorkflowRun row of each delivery: its repository, 0 for no row
  jobs,     \* how many start jobs were enqueued for each delivery
  handler,
  budget

vars == <<repo, lastRepo, acked, events, runs, jobs, handler, budget>>

\* A handler that is not running.
NoHandler == [pc |-> "idle", delivery |-> NoDelivery, repo |-> 0]
HandlerPC == {"idle", "lookup", "record", "create", "enqueue", "settle", "fail", "rejected"}
EventStatus == {"NONE", "RECEIVED", "PROCESSED", "FAILED"}

TypeOK ==
  /\ repo \in Nat /\ lastRepo \in Nat
  /\ acked \subseteq Deliveries
  /\ events \in [Deliveries -> EventStatus]
  /\ runs \in [Deliveries -> Nat]
  /\ jobs \in [Deliveries -> Nat]
  /\ handler \in [Handlers -> [pc : HandlerPC, delivery : Deliveries \cup {NoDelivery}, repo : Nat]]
  /\ budget \in [Faults -> Nat]

\* A connected repository, nothing received yet.
Init ==
  /\ repo = 1 /\ lastRepo = 1
  /\ acked = {}
  /\ events = [d \in Deliveries |-> "NONE"]
  /\ runs = [d \in Deliveries |-> 0]
  /\ jobs = [d \in Deliveries |-> 0]
  /\ handler = [h \in Handlers |-> NoHandler]
  /\ budget = InitialBudget

-----------------------------------------------------------------------------
At(h, pc) == handler[h].pc = pc
Goto(h, pc) == handler' = [handler EXCEPT ![h].pc = pc]
Spend(fault) == budget[fault] > 0 /\ budget' = [budget EXCEPT ![fault] = @ - 1]

\* The controller answers 200 and starts a handler; GitHub repeats a delivery
\* under the same id when it is asked to.
Receive(h, d) ==
  /\ At(h, "idle")
  /\ IF d \in acked THEN Spend("repeats") ELSE UNCHANGED budget
  /\ acked' = acked \cup {d}
  /\ handler' = [handler EXCEPT ![h] = [pc |-> "lookup", delivery |-> d, repo |-> 0]]
  /\ UNCHANGED <<repo, lastRepo, events, runs, jobs>>

\* repository.findUnique by the GitHub id.
Lookup(h) ==
  /\ At(h, "lookup")
  /\ handler' = [handler EXCEPT ![h].pc = "record", ![h].repo = repo]
  /\ UNCHANGED <<repo, lastRepo, acked, events, runs, jobs, budget>>

\* Mutant: an event that is already there is taken over.
RecordAgain(h) ==
  LET d == handler[h].delivery
      known == handler[h].repo IN
  /\ At(h, "record")
  /\ events' = [events EXCEPT ![d] = "RECEIVED"]
  /\ Goto(h, IF known = 0 THEN "settle" ELSE "create")
  /\ UNCHANGED <<repo, lastRepo, acked, runs, jobs, budget>>

\* Mutant: createEvent is inside the try block.
RecordInside(h) ==
  LET d == handler[h].delivery
      known == handler[h].repo IN
  /\ At(h, "record")
  /\ \/ /\ events[d] = "NONE" /\ known \in {0, repo}
        /\ events' = [events EXCEPT ![d] = "RECEIVED"]
        /\ Goto(h, IF known = 0 THEN "settle" ELSE "create")
     \/ /\ events[d] # "NONE" \/ known \notin {0, repo}
        /\ Goto(h, "fail")
        /\ UNCHANGED events
  /\ UNCHANGED <<repo, lastRepo, acked, runs, jobs, budget>>

\* createEvent, before the try block.  A second row for the delivery, or a row
\* for a repository deleted meanwhile, is refused and the handler rejects.
Record(h) ==
  LET d == handler[h].delivery
      known == handler[h].repo IN
  /\ At(h, "record")
  /\ \/ /\ events[d] = "NONE" /\ known \in {0, repo}
        /\ events' = [events EXCEPT ![d] = "RECEIVED"]
        /\ Goto(h, IF known = 0 THEN "settle" ELSE "create")
     \/ /\ events[d] # "NONE" \/ known \notin {0, repo}
        /\ Goto(h, "rejected")
        /\ UNCHANGED events
  /\ UNCHANGED <<repo, lastRepo, acked, runs, jobs, budget>>

\* workflowRun.create: the delivery id is unique and the repository must exist.
CreateRun(h) ==
  LET d == handler[h].delivery
      known == handler[h].repo IN
  /\ At(h, "create")
  /\ \/ /\ runs[d] = 0 /\ known = repo
        /\ runs' = [runs EXCEPT ![d] = known]
        /\ Goto(h, "enqueue")
     \/ /\ runs[d] # 0 \/ known # repo
        /\ Goto(h, "fail")
        /\ UNCHANGED runs
  /\ UNCHANGED <<repo, lastRepo, acked, events, jobs, budget>>

\* The start job of the run; nothing checks that the run is still there.
Enqueue(h) ==
  /\ At(h, "enqueue")
  /\ jobs' = [jobs EXCEPT ![handler[h].delivery] = @ + 1]
  /\ Goto(h, "settle")
  /\ UNCHANGED <<repo, lastRepo, acked, events, runs, budget>>

\* markAsProcessed.
Settle(h) ==
  /\ At(h, "settle")
  /\ events' = [events EXCEPT ![handler[h].delivery] = "PROCESSED"]
  /\ handler' = [handler EXCEPT ![h] = NoHandler]
  /\ UNCHANGED <<repo, lastRepo, acked, runs, jobs, budget>>

\* Mutant: the catch block does not touch the event.
FailQuietly(h) ==
  /\ At(h, "fail")
  /\ Goto(h, "rejected")
  /\ UNCHANGED <<repo, lastRepo, acked, events, runs, jobs, budget>>

\* The catch block: markAsFailed, then the error is thrown on.
Fail(h) ==
  /\ At(h, "fail")
  /\ events' = [events EXCEPT ![handler[h].delivery] = "FAILED"]
  /\ Goto(h, "rejected")
  /\ UNCHANGED <<repo, lastRepo, acked, runs, jobs, budget>>

\* The controller logs what a handler rejects with.
LogRejection(h) ==
  /\ At(h, "rejected")
  /\ handler' = [handler EXCEPT ![h] = NoHandler]
  /\ UNCHANGED <<repo, lastRepo, acked, events, runs, jobs, budget>>

-----------------------------------------------------------------------------
(* Faults and other handlers. *)

\* Mutant: an error of the queue is logged and forgotten.
OperationFailsQuietly(h) ==
  /\ handler[h].pc \in {"lookup", "record", "create", "enqueue", "settle", "fail"}
  /\ Spend("failures")
  /\ Goto(h, IF At(h, "enqueue") THEN "settle"
             ELSE IF handler[h].pc \in {"create", "settle"} THEN "fail" ELSE "rejected")
  /\ UNCHANGED <<repo, lastRepo, acked, events, runs, jobs>>

\* A database or queue operation fails, inside the try block or outside it.
OperationFails(h) ==
  /\ handler[h].pc \in {"lookup", "record", "create", "enqueue", "settle", "fail"}
  /\ Spend("failures")
  /\ Goto(h, IF handler[h].pc \in {"create", "enqueue", "settle"} THEN "fail" ELSE "rejected")
  /\ UNCHANGED <<repo, lastRepo, acked, events, runs, jobs>>

\* The process stops with its handlers; GitHub has had its 200.
Restart ==
  /\ \E h \in Handlers : ~At(h, "idle")
  /\ Spend("restarts")
  /\ handler' = [h \in Handlers |-> NoHandler]
  /\ UNCHANGED <<repo, lastRepo, acked, events, runs, jobs>>

\* cleanupRepository: the row is deleted, the runs go with it, the events stay.
Revoke ==
  /\ repo # 0 /\ Spend("revocations")
  /\ repo' = 0
  /\ runs' = [d \in Deliveries |-> 0]
  /\ UNCHANGED <<lastRepo, acked, events, jobs, handler>>

\* A sync creates the repository again, under another id.
Reconnect ==
  /\ repo = 0
  /\ repo' = lastRepo + 1 /\ lastRepo' = lastRepo + 1
  /\ UNCHANGED <<acked, events, runs, jobs, handler, budget>>

Handle(h) ==
  \/ Lookup(h) \/ Record(h) \/ CreateRun(h) \/ Enqueue(h) \/ Settle(h)
  \/ Fail(h) \/ LogRejection(h)

Next ==
  \/ \E h \in Handlers : Handle(h) \/ OperationFails(h) \/ \E d \in Deliveries : Receive(h, d)
  \/ Restart \/ Revoke \/ Reconnect

\* A handler that was started goes on.
Fairness == \A h \in Handlers : WF_vars(Handle(h))

Spec == Init /\ [][Next]_vars
FairSpec == Spec /\ Fairness

-----------------------------------------------------------------------------
\* One delivery starts one pipeline, however often GitHub repeats it and even if
\* its run was deleted with the repository in between.
OneJobPerDelivery == \A d \in Deliveries : jobs[d] <= 1

\* What became of an event is written once: a repeated delivery does not turn
\* PROCESSED into FAILED.
EventsSettleOnce ==
  [][\A d \in Deliveries :
       events[d] \in {"PROCESSED", "FAILED"} => events'[d] = events[d]]_vars

\* A push whose event says PROCESSED left no run without its job.
ProcessedRunsAreEnqueued ==
  \A d \in Deliveries : events[d] = "PROCESSED" /\ runs[d] # 0 => jobs[d] = 1

Spent(fault) == InitialBudget[fault] - budget[fault]

\* An event does not stay RECEIVED: its handler says what became of it, unless
\* the process stops or the handler meets a second fault while it handles the
\* first, a failed operation or a repository that is gone.
EventsAreSettled ==
  \A d \in Deliveries : events[d] = "RECEIVED" ~>
    \/ events[d] # "RECEIVED"
    \/ Spent("restarts") > 0
    \/ Spent("failures") + Spent("revocations") > 1
=============================================================================
