------------------------- MODULE WebhookIntakeProofs -------------------------
(***************************************************************************)
(* Proofs about WebhookIntake, for any number of deliveries and handlers   *)
(* and any number of faults.  What must eventually happen is left to TLC.  *)
(***************************************************************************)
EXTENDS WebhookIntake, TLAPS

\* The handler is between createEvent and the end of the try block or its catch.
InFlight(h) == handler[h].pc \in {"create", "enqueue", "settle", "fail"}

\* The event row of a delivery is owned by the one handler that created it, as
\* long as that handler is in flight.
Owned ==
  /\ \A h \in Handlers : ~At(h, "idle") => handler[h].delivery \in Deliveries
  /\ \A h \in Handlers : InFlight(h) => events[handler[h].delivery] = "RECEIVED"
  /\ \A h, g \in Handlers :
       InFlight(h) /\ InFlight(g) /\ handler[h].delivery = handler[g].delivery => h = g

\* Runs and jobs follow the event: none without it, no job before its time, and
\* none missing when the handler is about to settle.
Ordered ==
  /\ \A d \in Deliveries : events[d] = "NONE" => runs[d] = 0 /\ jobs[d] = 0
  /\ \A h \in Handlers :
       handler[h].pc \in {"create", "enqueue"} => jobs[handler[h].delivery] = 0
  /\ \A h \in Handlers :
       At(h, "settle") /\ runs[handler[h].delivery] # 0 => jobs[handler[h].delivery] = 1

IntakeInvariant ==
  TypeOK /\ Owned /\ Ordered /\ OneJobPerDelivery /\ ProcessedRunsAreEnqueued

-----------------------------------------------------------------------------
\* Nothing was received yet.
LEMMA IntakeInit == Init => IntakeInvariant
BY IntakeAssumption DEF Init, IntakeInvariant, TypeOK, Owned, Ordered, OneJobPerDelivery,
   ProcessedRunsAreEnqueued, NoHandler, HandlerPC, EventStatus, InFlight, At, Faults

\* Every step of a handler keeps the rows in order.
LEMMA HandleStep ==
  ASSUME IntakeInvariant, NEW h \in Handlers, Handle(h)
  PROVE  IntakeInvariant'
<1> DEFINE d == handler[h].delivery
<1> USE DEF IntakeInvariant, TypeOK, At, Goto, NoHandler, HandlerPC, EventStatus
<1>1. CASE Lookup(h)
  <2>1. TypeOK'
    BY <1>1 DEF Lookup
  <2>2. Owned'
    BY <1>1 DEF Lookup, Owned, InFlight
  <2>3. Ordered'
    BY <1>1 DEF Lookup, Ordered
  <2> QED BY <1>1, <2>1, <2>2, <2>3 DEF Lookup, OneJobPerDelivery, ProcessedRunsAreEnqueued
<1>2. CASE Record(h)
  <2>0. d \in Deliveries
    BY <1>2 DEF Record, Owned
  <2>1. TypeOK'
    BY <1>2 DEF Record
  <2>2. Owned'
    BY <1>2, <2>0 DEF Record, Owned, InFlight
  <2>3. Ordered'
    BY <1>2, <2>0 DEF Record, Ordered, Owned
  <2> QED BY <1>2, <2>0, <2>1, <2>2, <2>3
          DEF Record, OneJobPerDelivery, ProcessedRunsAreEnqueued
<1>3. CASE CreateRun(h)
  <2>0. d \in Deliveries /\ events[d] = "RECEIVED" /\ jobs[d] = 0
    BY <1>3 DEF CreateRun, Owned, InFlight, Ordered
  <2>1. TypeOK'
    BY <1>3, <2>0 DEF CreateRun
  <2>2. Owned'
    BY SMTT(30), <1>3 DEF CreateRun, Owned, InFlight
  <2>3. Ordered'
    BY <1>3, <2>0 DEF CreateRun, Ordered, Owned, InFlight
  <2> QED BY <1>3, <2>0, <2>1, <2>2, <2>3
          DEF CreateRun, OneJobPerDelivery, ProcessedRunsAreEnqueued
<1>4. CASE Enqueue(h)
  <2>0. d \in Deliveries /\ events[d] = "RECEIVED" /\ jobs[d] = 0
    BY <1>4 DEF Enqueue, Owned, InFlight, Ordered
  <2>1. TypeOK'
    BY <1>4, <2>0 DEF Enqueue
  <2>2. Owned'
    BY <1>4 DEF Enqueue, Owned, InFlight
  <2>3. Ordered'
    BY <1>4, <2>0 DEF Enqueue, Ordered, Owned, InFlight
  <2> QED BY <1>4, <2>0, <2>1, <2>2, <2>3
          DEF Enqueue, OneJobPerDelivery, ProcessedRunsAreEnqueued
<1>5. CASE Settle(h)
  <2>0. d \in Deliveries /\ (runs[d] # 0 => jobs[d] = 1)
    BY <1>5 DEF Settle, Owned, Ordered
  <2>1. TypeOK'
    BY <1>5, <2>0 DEF Settle
  <2>2. Owned'
    BY <1>5, <2>0 DEF Settle, Owned, InFlight
  <2>3. Ordered'
    BY <1>5, <2>0 DEF Settle, Ordered
  <2> QED BY <1>5, <2>0, <2>1, <2>2, <2>3
          DEF Settle, OneJobPerDelivery, ProcessedRunsAreEnqueued
<1>6. CASE Fail(h)
  <2>0. d \in Deliveries
    BY <1>6 DEF Fail, Owned
  <2>1. TypeOK'
    BY <1>6, <2>0 DEF Fail
  <2>2. Owned'
    BY <1>6, <2>0 DEF Fail, Owned, InFlight
  <2>3. Ordered'
    BY <1>6, <2>0 DEF Fail, Ordered
  <2> QED BY <1>6, <2>0, <2>1, <2>2, <2>3
          DEF Fail, OneJobPerDelivery, ProcessedRunsAreEnqueued
<1>7. CASE LogRejection(h)
  <2>1. TypeOK'
    BY <1>7 DEF LogRejection
  <2>2. Owned' /\ Ordered'
    BY <1>7 DEF LogRejection, Owned, InFlight, Ordered
  <2> QED BY <1>7, <2>1, <2>2 DEF LogRejection, OneJobPerDelivery, ProcessedRunsAreEnqueued
<1> QED BY <1>1, <1>2, <1>3, <1>4, <1>5, <1>6, <1>7 DEF Handle

\* So do deliveries, failures, restarts and changes of the repository.
LEMMA WorldStep ==
  ASSUME IntakeInvariant,
         \/ \E h \in Handlers : OperationFails(h) \/ \E d \in Deliveries : Receive(h, d)
         \/ Restart \/ Revoke \/ Reconnect
  PROVE  IntakeInvariant'
<1> USE DEF IntakeInvariant, TypeOK, At, Goto, Spend, Faults, NoHandler, HandlerPC, EventStatus
<1>1. ASSUME NEW h \in Handlers, OperationFails(h) PROVE IntakeInvariant'
  <2>1. TypeOK'
    BY <1>1 DEF OperationFails
  <2>2. Owned' /\ Ordered'
    BY <1>1 DEF OperationFails, Owned, InFlight, Ordered
  <2> QED BY <1>1, <2>1, <2>2 DEF OperationFails, OneJobPerDelivery, ProcessedRunsAreEnqueued
<1>2. ASSUME NEW h \in Handlers, NEW d \in Deliveries, Receive(h, d) PROVE IntakeInvariant'
  <2>1. TypeOK'
    BY <1>2 DEF Receive
  <2>2. Owned' /\ Ordered'
    BY <1>2 DEF Receive, Owned, InFlight, Ordered
  <2> QED BY <1>2, <2>1, <2>2 DEF Receive, OneJobPerDelivery, ProcessedRunsAreEnqueued
<1>3. CASE Restart
  <2>1. TypeOK'
    BY <1>3 DEF Restart
  <2>2. Owned' /\ Ordered'
    BY <1>3 DEF Restart, Owned, InFlight, Ordered
  <2> QED BY <1>3, <2>1, <2>2 DEF Restart, OneJobPerDelivery, ProcessedRunsAreEnqueued
<1>4. CASE Revoke
  <2>1. TypeOK'
    BY <1>4 DEF Revoke
  <2>2. Owned' /\ Ordered'
    BY <1>4 DEF Revoke, Owned, InFlight, Ordered
  <2> QED BY <1>4, <2>1, <2>2 DEF Revoke, OneJobPerDelivery, ProcessedRunsAreEnqueued
<1>5. CASE Reconnect
  <2>1. TypeOK'
    BY <1>5 DEF Reconnect
  <2>2. Owned' /\ Ordered'
    BY <1>5 DEF Reconnect, Owned, InFlight, Ordered
  <2> QED BY <1>5, <2>1, <2>2 DEF Reconnect, OneJobPerDelivery, ProcessedRunsAreEnqueued
<1> QED BY <1>1, <1>2, <1>3, <1>4, <1>5

\* The invariant is inductive.
LEMMA IntakeStep == IntakeInvariant /\ [Next]_vars => IntakeInvariant'
<1> SUFFICES ASSUME IntakeInvariant, [Next]_vars PROVE IntakeInvariant'
  OBVIOUS
<1>1. CASE UNCHANGED vars
  BY <1>1 DEF vars, IntakeInvariant, TypeOK, Owned, Ordered, OneJobPerDelivery,
              ProcessedRunsAreEnqueued, InFlight, At
<1>2. ASSUME NEW h \in Handlers, Handle(h) PROVE IntakeInvariant'
  BY <1>2, HandleStep
<1> QED BY <1>1, <1>2, WorldStep DEF Next

\* A settled event is rewritten by no step: only the handler in flight writes it.
LEMMA SettledStep ==
  IntakeInvariant /\ [Next]_vars =>
    \A d \in Deliveries : events[d] \in {"PROCESSED", "FAILED"} => events'[d] = events[d]
<1> SUFFICES ASSUME IntakeInvariant, [Next]_vars, NEW d \in Deliveries,
                    events[d] \in {"PROCESSED", "FAILED"}
             PROVE  events'[d] = events[d]
  OBVIOUS
<1> USE DEF IntakeInvariant, TypeOK, Owned, InFlight, At
<1>1. ASSUME NEW h \in Handlers, Record(h) PROVE events'[d] = events[d]
  BY <1>1 DEF Record
<1>2. ASSUME NEW h \in Handlers, Settle(h) \/ Fail(h) PROVE events'[d] = events[d]
  BY <1>2 DEF Settle, Fail
<1> QED BY <1>1, <1>2 DEF Next, Handle, vars, Lookup, CreateRun, Enqueue, LogRejection,
              OperationFails, Receive, Restart, Revoke, Reconnect

-----------------------------------------------------------------------------
\* However often a delivery is repeated, and whatever fails, it starts one
\* pipeline at most.
THEOREM DeliveriesAreIdempotent == Spec => []OneJobPerDelivery
<1>1. IntakeInvariant => OneJobPerDelivery
  BY DEF IntakeInvariant
<1> QED BY <1>1, IntakeInit, IntakeStep, PTL DEF Spec

\* An event that says PROCESSED is not lying about the run it stands for.
THEOREM ProcessedIsEnqueued == Spec => []ProcessedRunsAreEnqueued
<1>1. IntakeInvariant => ProcessedRunsAreEnqueued
  BY DEF IntakeInvariant
<1> QED BY <1>1, IntakeInit, IntakeStep, PTL DEF Spec

\* No handler rewrites an event that another one settled.
THEOREM SettledForGood == Spec => EventsSettleOnce
<1> QED BY IntakeInit, IntakeStep, SettledStep, PTL DEF Spec, EventsSettleOnce
=============================================================================
