----------------------- MODULE WebhookDeliveriesProofs -----------------------
(***************************************************************************)
(* Proofs about WebhookDeliveries for any number of subscriptions, events, *)
(* workers, faults and crashes: without a fault no acknowledged delivery   *)
(* is sent again.                                                          *)
(***************************************************************************)
EXTENDS WebhookDeliveries, TLAPS

RowTypes ==
  /\ emitted \in [Emissions -> {"no", "found", "yes", "lost"}]
  /\ status \in [Deliveries -> {"none", "pending", "delivered", "failed", "gone", "lapsed", "lost"}]
  /\ work \in [Deliveries -> {"idle", "queued", "acked", "refused"}]
  /\ acks \in [Deliveries -> Nat]
  /\ delivering \in BOOLEAN
  /\ faults \in Nat /\ crashes \in Nat

\* A delivery that is not enqueued yet has no row and was never sent, so that
\* createMany cannot bring an acknowledged row back to pending.
Fresh ==
  \A d \in Deliveries :
    emitted[d[1]] \in {"no", "found"} => status[d] = "none" /\ work[d] = "idle" /\ acks[d] = 0

\* Rows are worked on by one sweep at a time, and a delivered row by none.
OneSweep ==
  /\ ~delivering => \A d \in Deliveries : work[d] = "idle"
  /\ \A d \in Deliveries : work[d] # "idle" => status[d] \notin {"none", "delivered"}

\* A row that will be sent, or sent again, has no acknowledgement but those
\* whose bookkeeping a fault or a crash has lost.
Accounted ==
  \A d \in Deliveries :
    /\ acks[d] <= 1 + crashes + faults
    /\ status[d] \in {"pending", "failed"} /\ work[d] # "acked" => acks[d] <= crashes + faults
    /\ work[d] = "queued" => acks[d] <= crashes + faults
    /\ work[d] = "acked" \/ status[d] = "delivered" => acks[d] >= 1

Inv == RowTypes /\ Fresh /\ OneSweep /\ Accounted

\* The invariant holds at the start.
LEMMA InitInv == Init => Inv
<1> SUFFICES ASSUME Init PROVE Inv
  OBVIOUS
<1>1. RowTypes
  BY DEF Init, RowTypes
<1>2. Fresh /\ OneSweep /\ Accounted
  BY DEF Init, Fresh, OneSweep, Accounted
<1> QED BY <1>1, <1>2 DEF Inv

\* emitWebhookEvent: an emission creates its rows once, before anything is sent.
LEMMA EmitInv ==
  ASSUME Inv, NEW e \in Emissions, Emit(e)
  PROVE  Inv'
<1> USE DEF Inv, RowTypes, Deliveries, rowVars, emitVars, timeVars, sweepVars
<1>1. CASE EmitFind(e)
  BY <1>1 DEF EmitFind, Fresh, OneSweep, Accounted
<1>2. CASE EmitCreate(e)
  <2>1. RowTypes'
    BY <1>2 DEF EmitCreate
  <2>2. Fresh'
    BY <1>2 DEF EmitCreate, Fresh
  <2>3. OneSweep'
    BY <1>2 DEF EmitCreate, Fresh, OneSweep
  <2>4. Accounted'
    BY <1>2 DEF EmitCreate, Fresh, Accounted
  <2> QED BY <2>1, <2>2, <2>3, <2>4
<1>3. CASE EmitRefused(e)
  BY <1>3 DEF EmitRefused, Fresh, OneSweep, Accounted
<1>4. CASE EmitFails(e)
  BY <1>4 DEF EmitFails, Fails, Fresh, OneSweep, Accounted
<1> QED BY <1>1, <1>2, <1>3, <1>4 DEF Emit

\* deliverPending takes rows that are due, when no other sweep is under way.
LEMMA SweepInv ==
  ASSUME Inv, SweepStart \/ SweepEnd
  PROVE  Inv'
<1> USE DEF Inv, RowTypes, rowVars, emitVars, timeVars, sweepVars
<1>1. CASE SweepStart
  <2>1. PICK B \in Batches : work' = [d \in Deliveries |-> IF d \in B THEN "queued" ELSE work[d]]
    BY <1>1 DEF SweepStart
  <2>2. \A d \in B : d \in Deliveries /\ status[d] \in {"pending", "failed"}
    BY <2>1 DEF Batches, IsDue
  <2>3. RowTypes'
    BY <1>1, <2>1 DEF SweepStart
  <2>4. Fresh'
    BY <1>1, <2>1, <2>2 DEF SweepStart, Fresh
  <2>5. OneSweep'
    BY <1>1, <2>1, <2>2 DEF SweepStart, OneSweep
  <2>6. Accounted'
    BY <1>1, <2>1, <2>2 DEF SweepStart, OneSweep, Accounted
  <2> QED BY <2>3, <2>4, <2>5, <2>6
<1>2. CASE SweepEnd
  BY <1>2 DEF SweepEnd, Fresh, OneSweep, Accounted
<1> QED BY <1>1, <1>2

\* deliverOne with its bookkeeping: every acknowledgement is recorded, or a
\* fault is counted, or the row is gone.
LEMMA DeliverInv ==
  ASSUME Inv, NEW d \in Deliveries, DeliverOne(d) \/ RecordFails(d) \/ MarkFails(d) \/ BackoffOver(d)
  PROVE  Inv'
<1> USE DEF Inv, RowTypes, rowVars, emitVars, timeVars, sweepVars, Put, Exists, Fails
<1>1. CASE Refuse(d)
  BY <1>1 DEF Refuse, Fresh, OneSweep, Accounted
<1>2. CASE Post(d)
  BY <1>2 DEF Post, Fresh, OneSweep, Accounted
<1>3. CASE RecordDelivered(d)
  BY <1>3 DEF RecordDelivered, Fresh, OneSweep, Accounted
<1>4. CASE RecordFails(d)
  BY <1>4 DEF RecordFails, Fresh, OneSweep, Accounted
<1>5. CASE MarkFailed(d)
  BY <1>5 DEF MarkFailed, Fresh, OneSweep, Accounted
<1>6. CASE MarkFails(d)
  BY <1>6 DEF MarkFails, Fresh, OneSweep, Accounted
<1>7. CASE RowGone(d)
  BY <1>7 DEF RowGone, Fresh, OneSweep, Accounted
<1>8. CASE BackoffOver(d)
  BY <1>8 DEF BackoffOver, Fresh, OneSweep, Accounted
<1> QED BY <1>1, <1>2, <1>3, <1>4, <1>5, <1>6, <1>7, <1>8 DEF DeliverOne

\* Retention, operators and crashes: rows that exist may go, also under a worker.
LEMMA EnvironmentInv ==
  ASSUME Inv, GetOld \/ Cleanup \/ Crash \/ \E s \in Subs : DeleteSubscription(s)
  PROVE  Inv'
<1> USE DEF Inv, RowTypes, rowVars, emitVars, timeVars, sweepVars
<1>1. CASE GetOld
  BY <1>1 DEF GetOld, Fresh, OneSweep, Accounted
<1>2. CASE Cleanup
  BY <1>2 DEF Cleanup, Outdated, Remove, Retention, Done, Gone, Fresh, OneSweep, Accounted
<1>3. CASE Crash
  <2>1. \A e \in Emissions : emitted'[e] \in {"no", "found"} => emitted[e] = "no"
    BY <1>3 DEF Crash
  <2>2. \A d \in Deliveries : d[1] \in Emissions
    BY DEF Deliveries
  <2>3. RowTypes'
    <3>1. emitted' \in [Emissions -> {"no", "found", "yes", "lost"}]
      BY <1>3 DEF Crash
    <3>2. work' \in [Deliveries -> {"idle", "queued", "acked", "refused"}]
      BY <1>3 DEF Crash
    <3>3. delivering' = FALSE /\ crashes' \in Nat /\ faults' = faults /\ status' = status /\ acks' = acks
      BY <1>3 DEF Crash
    <3> QED BY <3>1, <3>2, <3>3
  <2>4. Fresh'
    BY <1>3, <2>1, <2>2 DEF Crash, Fresh
  <2>5. OneSweep' /\ Accounted'
    BY <1>3 DEF Crash, OneSweep, Accounted
  <2> QED BY <2>3, <2>4, <2>5
<1>4. CASE \E s \in Subs : DeleteSubscription(s)
  BY <1>4 DEF DeleteSubscription, Exists, Remove, Gone, Fresh, OneSweep, Accounted
<1> QED BY <1>1, <1>2, <1>3, <1>4

\* The inductive invariant of the deliveries.
THEOREM DeliveryInvariant == Spec => []Inv
<1>1. Inv /\ [Next]_vars => Inv'
  <2> SUFFICES ASSUME Inv, [Next]_vars PROVE Inv'
    OBVIOUS
  <2>1. CASE Next
    BY <2>1, EmitInv, SweepInv, DeliverInv, EnvironmentInv DEF Next
  <2>2. CASE UNCHANGED vars
    BY <2>2 DEF vars, Inv, RowTypes, Fresh, OneSweep, Accounted,
                rowVars, emitVars, timeVars, sweepVars
  <2> QED BY <2>1, <2>2
<1> QED BY InitInv, <1>1, PTL DEF Spec

\* deliverPending "self-guards against overlapping runs": what a subscriber has
\* acknowledged is sent again only after a fault, and delivered is the truth.
THEOREM AcknowledgedOnceHolds == Spec => []AcknowledgedOnce
<1>1. Inv => AcknowledgedOnce
  BY DEF Inv, Accounted, AcknowledgedOnce
<1> QED BY <1>1, DeliveryInvariant, PTL
==============================================================================
