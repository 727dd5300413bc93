-------------------------- MODULE WebhookDeliveries --------------------------
(***************************************************************************)
(* Webhook subscriptions of one environment and the delivery of their      *)
(* events (src/services/webhook-subscriptions.ts): events are enqueued as  *)
(* WebhookDelivery rows, and sweeps POST the due rows with a few workers   *)
(* until they are answered with a 2xx or the attempts are used up.         *)
(*                                                                         *)
(* The rows survive a crash; the flag `delivering`, the batch of a sweep   *)
(* and an emission under way live in memory.                               *)
(***************************************************************************)
EXTENDS Integers, Sequences, FiniteSets

CONSTANTS
  Subs,          \* enabled subscriptions of the environment
  Emissions,     \* calls of emitWebhookEvent
  ListensTo,     \* subscription -> emissions whose event is in its events
  MaxAttempts,   \* MAX_DELIVERY_ATTEMPTS
  BatchSize,     \* DELIVERY_BATCH_SIZE
  Concurrency,   \* DELIVERY_CONCURRENCY
  MaxFaults,     \* bound: failing database calls
  MaxCrashes,    \* bound: restarts of the Node process
  MaxDeletes     \* bound: subscriptions deleted by an operator

ASSUME WebhookAssumption ==
  /\ IsFiniteSet(Subs)
  /\ IsFiniteSet(Emissions)
  /\ ListensTo \in [Subs -> SUBSET Emissions]
  /\ MaxAttempts \in Nat \ {0} /\ BatchSize \in Nat \ {0} /\ Concurrency \in Nat \ {0}
  /\ MaxFaults \in Nat /\ MaxCrashes \in Nat /\ MaxDeletes \in Nat

\* One row per emission and matching subscription.
Deliveries == {d \in Emissions \X Subs : d[1] \in ListensTo[d[2]]}

VARIABLES
  subs,        \* subscriptions that exist
  emitted,     \* progress of every emission
  audience,    \* emission under way: the subscriptions it found
  status,      \* WebhookDelivery.status; "none" before the row exists, and after
               \* it how it went: "gone", "lapsed" or "lost"
  attempts,    \* WebhookDelivery.attempts
  nextAttempt, \* WebhookDelivery.nextAttemptAt: "now", "later" or "never"
  created,     \* emissions in the order of createdAt of their rows
  old,         \* how many of them are older than the retention
  delivering,  \* the flag that keeps sweeps apart
  work,        \* the batch of the sweep: what it is doing for each row
  acks,        \* history: how often the POST of a row was answered with a 2xx
  faults, crashes

rowVars   == <<status, attempts, nextAttempt>>
emitVars  == <<emitted, audience>>
timeVars  == <<created, old>>
sweepVars == <<delivering, work>>
vars == <<subs, emitVars, rowVars, timeVars, sweepVars, acks, faults, crashes>>

Init ==
  /\ subs = Subs
  /\ emitted = [e \in Emissions |-> "no"]
  /\ audience = [e \in Emissions |-> {}]
  /\ status = [d \in Deliveries |-> "none"]
  /\ attempts = [d \in Deliveries |-> 0]
  /\ nextAttempt = [d \in Deliveries |-> "now"]
  /\ created = <<>>
  /\ old = 0
  /\ delivering = FALSE
  /\ work = [d \in Deliveries |-> "idle"]
  /\ acks = [d \in Deliveries |-> 0]
  /\ faults = 0
  /\ crashes = 0

Exists(d) == status[d] \in {"pending", "delivered", "failed"}
Fails == faults < MaxFaults /\ faults' = faults + 1
Put(d, w) == work' = [work EXCEPT ![d] = w]

----------------------------------------------------------------------------
(* emitWebhookEvent *)

EmitFind(e) ==
  /\ emitted[e] = "no"
  /\ audience' = [audience EXCEPT ![e] = {s \in subs : e \in ListensTo[s]}]
  /\ emitted' = [emitted EXCEPT ![e] = IF audience'[e] = {} THEN "yes" ELSE "found"]
  /\ UNCHANGED <<subs, rowVars, timeVars, sweepVars, acks, faults, crashes>>

\* createMany inserts a pending row for every subscription found, or none.
EmitCreate(e) ==
  /\ emitted[e] = "found"
  /\ audience[e] \subseteq subs
  /\ status' = [d \in Deliveries |->
                  IF d[1] = e /\ d[2] \in audience[e] THEN "pending" ELSE status[d]]
  /\ emitted' = [emitted EXCEPT ![e] = "yes"]
  /\ audience' = [audience EXCEPT ![e] = {}]
  /\ created' = Append(created, e)
  /\ UNCHANGED <<subs, attempts, nextAttempt, old, sweepVars, acks, faults, crashes>>

\* A subscription deleted in the meantime violates the foreign key of its row,
\* and the whole createMany is refused; the error is logged only.
EmitRefused(e) ==
  /\ emitted[e] = "found"
  /\ ~(audience[e] \subseteq subs)
  /\ emitted' = [emitted EXCEPT ![e] = "lost"]
  /\ audience' = [audience EXCEPT ![e] = {}]
  /\ UNCHANGED <<subs, rowVars, timeVars, sweepVars, acks, faults, crashes>>

EmitFails(e) ==
  /\ emitted[e] \in {"no", "found"}
  /\ Fails
  /\ emitted' = [emitted EXCEPT ![e] = "lost"]
  /\ audience' = [audience EXCEPT ![e] = {}]
  /\ UNCHANGED <<subs, rowVars, timeVars, sweepVars, acks, crashes>>

----------------------------------------------------------------------------
(* deliverPending: started by the scheduler and after every enqueue *)

\* Mutant of IsDue: failed rows are not retried.
IsDuePending(d) ==
  /\ status[d] = "pending"
  /\ attempts[d] < MaxAttempts
  /\ nextAttempt[d] = "now"

IsDue(d) ==
  /\ status[d] \in {"pending", "failed"}
  /\ attempts[d] < MaxAttempts
  /\ nextAttempt[d] = "now"

Rank(d) == CHOOSE k \in DOMAIN created : created[k] = d[1]

\* The oldest due rows, at most BatchSize of them.
Batches ==
  LET due == {d \in Deliveries : IsDue(d)}
  IN {B \in SUBSET due :
        /\ Cardinality(B) <= BatchSize
        /\ B = due \/ Cardinality(B) = BatchSize
        /\ \A d \in B, x \in due \ B : Rank(d) <= Rank(x)}

\* Mutant of SweepStart: sweeps may overlap.
SweepStartUnguarded ==
  /\ \E B \in Batches :
       /\ B # {}
       /\ work' = [d \in Deliveries |-> IF d \in B THEN "queued" ELSE work[d]]
  /\ delivering' = TRUE
  /\ UNCHANGED <<subs, emitVars, rowVars, timeVars, acks, faults, crashes>>

\* An overlapping call returns at once.
SweepStart ==
  /\ ~delivering
  /\ \E B \in Batches :
       /\ B # {}
       /\ work' = [d \in Deliveries |-> IF d \in B THEN "queued" ELSE work[d]]
  /\ delivering' = TRUE
  /\ UNCHANGED <<subs, emitVars, rowVars, timeVars, acks, faults, crashes>>

SweepEnd ==
  /\ delivering
  /\ \A d \in Deliveries : work[d] = "idle"
  /\ delivering' = FALSE
  /\ UNCHANGED <<subs, emitVars, rowVars, timeVars, work, acks, faults, crashes>>

InFlight == {d \in Deliveries : work[d] \in {"acked", "refused"}}

\* deliverOne: a disabled subscription, a blocked destination or a secret that
\* cannot be decrypted is a failed attempt without a POST.
Refuse(d) ==
  /\ work[d] = "queued"
  /\ Cardinality(InFlight) < Concurrency
  /\ Put(d, "refused")
  /\ UNCHANGED <<subs, emitVars, rowVars, timeVars, delivering, acks, faults, crashes>>

\* The POST, answered with a 2xx or not (another status, or the timeout).
Post(d) ==
  /\ work[d] = "queued"
  /\ Cardinality(InFlight) < Concurrency
  /\ \/ Put(d, "acked") /\ acks' = [acks EXCEPT ![d] = @ + 1]
     \/ Put(d, "refused") /\ UNCHANGED acks
  /\ UNCHANGED <<subs, emitVars, rowVars, timeVars, delivering, faults, crashes>>

RecordDelivered(d) ==
  /\ work[d] = "acked"
  /\ Exists(d)
  /\ status' = [status EXCEPT ![d] = "delivered"]
  /\ attempts' = [attempts EXCEPT ![d] = @ + 1]
  /\ nextAttempt' = [nextAttempt EXCEPT ![d] = "never"]
  /\ Put(d, "idle")
  /\ UNCHANGED <<subs, emitVars, timeVars, delivering, acks, faults, crashes>>

\* That update throws inside the try block: the attempt counts as failed.
RecordFails(d) ==
  /\ work[d] = "acked"
  /\ Exists(d)
  /\ Fails
  /\ Put(d, "refused")
  /\ UNCHANGED <<subs, emitVars, rowVars, timeVars, delivering, acks, crashes>>

\* markFailed: a backoff below the cap, no further attempt at it.
MarkFailed(d) ==
  /\ work[d] = "refused"
  /\ Exists(d)
  /\ status' = [status EXCEPT ![d] = "failed"]
  /\ attempts' = [attempts EXCEPT ![d] = @ + 1]
  /\ nextAttempt' = [nextAttempt EXCEPT ![d] =
                       IF attempts[d] + 1 >= MaxAttempts THEN "never" ELSE "later"]
  /\ Put(d, "idle")
  /\ UNCHANGED <<subs, emitVars, timeVars, delivering, acks, faults, crashes>>

\* markFailed throws: the worker logs it and takes the next row.
MarkFails(d) ==
  /\ work[d] = "refused"
  /\ Exists(d)
  /\ Fails
  /\ Put(d, "idle")
  /\ UNCHANGED <<subs, emitVars, rowVars, timeVars, delivering, acks, crashes>>

\* The row was deleted under the worker: both updates throw.
RowGone(d) ==
  /\ work[d] \in {"acked", "refused"}
  /\ ~Exists(d)
  /\ Put(d, "idle")
  /\ UNCHANGED <<subs, emitVars, rowVars, timeVars, delivering, acks, faults, crashes>>

----------------------------------------------------------------------------
(* Time, retention, operators and the process *)

BackoffOver(d) ==
  /\ nextAttempt[d] = "later"
  /\ nextAttempt' = [nextAttempt EXCEPT ![d] = "now"]
  /\ UNCHANGED <<subs, emitVars, status, attempts, timeVars, sweepVars, acks, faults, crashes>>

\* The oldest rows that were within the retention pass it.
GetOld ==
  /\ old < Len(created)
  /\ old' = old + 1
  /\ UNCHANGED <<subs, emitVars, rowVars, created, sweepVars, acks, faults, crashes>>

\* A deleted row loses its columns; the history keeps how it went.
Remove(D, end) ==
  /\ status' = [d \in Deliveries |-> IF d \in D THEN end[d] ELSE status[d]]
  /\ attempts' = [d \in Deliveries |-> IF d \in D THEN 0 ELSE attempts[d]]
  /\ nextAttempt' = [d \in Deliveries |-> IF d \in D THEN "never" ELSE nextAttempt[d]]

Gone == [d \in Deliveries |-> "gone"]

\* Nothing is left to do for the row.
Done(d) == status[d] = "delivered" \/ (status[d] = "failed" /\ attempts[d] >= MaxAttempts)

\* A row with nothing left to do for it is gone; one whose last attempt has
\* failed and with a retry ahead has lapsed; a pending row would be lost.
Retention ==
  [d \in Deliveries |-> CASE Done(d) -> "gone"
                         [] ~Done(d) /\ status[d] = "failed" -> "lapsed"
                         [] OTHER -> "lost"]

\* Mutant of Outdated: the status of a row does not matter.
OutdatedAny(d) == Exists(d) /\ Rank(d) <= old

\* cleanupOldDeliveries: delivered and failed rows alike, also those with a
\* retry ahead.
Outdated(d) == status[d] \in {"delivered", "failed"} /\ Rank(d) <= old

Cleanup ==
  /\ \E d \in Deliveries : Outdated(d)
  /\ Remove({d \in Deliveries : Outdated(d)}, Retention)
  /\ UNCHANGED <<subs, emitVars, timeVars, sweepVars, acks, faults, crashes>>

\* deleteWebhookSubscription: the rows go with it.
DeleteSubscription(s) ==
  /\ s \in subs
  /\ Cardinality(Subs \ subs) < MaxDeletes
  /\ subs' = subs \ {s}
  /\ Remove({d \in Deliveries : d[2] = s /\ Exists(d)}, Gone)
  /\ UNCHANGED <<emitVars, timeVars, sweepVars, acks, faults, crashes>>

Crash ==
  /\ crashes < MaxCrashes
  /\ crashes' = crashes + 1
  /\ delivering' = FALSE
  /\ work' = [d \in Deliveries |-> "idle"]
  /\ emitted' = [e \in Emissions |-> IF emitted[e] = "found" THEN "lost" ELSE emitted[e]]
  /\ audience' = [e \in Emissions |-> {}]
  /\ UNCHANGED <<subs, rowVars, timeVars, acks, faults>>

Emit(e) == EmitFind(e) \/ EmitCreate(e) \/ EmitRefused(e) \/ EmitFails(e)

DeliverOne(d) ==
  Refuse(d) \/ Post(d) \/ RecordDelivered(d) \/ MarkFailed(d) \/ RowGone(d)

Next ==
  \/ \E e \in Emissions : Emit(e)
  \/ \E d \in Deliveries : DeliverOne(d) \/ RecordFails(d) \/ MarkFails(d) \/ BackoffOver(d)
  \/ \E s \in Subs : DeleteSubscription(s)
  \/ SweepStart \/ SweepEnd \/ GetOld \/ Cleanup \/ Crash

\* The scheduler calls deliverPending every few seconds, every POST has a
\* timeout, and a backoff is over some day (never that of a row that is being
\* delivered, nor does a sweep start before the last one has ended).
Fairness ==
  /\ WF_vars(SweepStart \/ SweepEnd)
  /\ \A d \in Deliveries : WF_vars(DeliverOne(d) \/ BackoffOver(d))

Spec == Init /\ [][Next]_vars /\ Fairness

----------------------------------------------------------------------------
(* Properties *)

\* deliverPending "self-guards against overlapping runs": a delivery the
\* subscriber has acknowledged is not sent again, except after a crash or a
\* failed update between the POST and its bookkeeping; and a row says delivered
\* only if the subscriber did acknowledge it.
AcknowledgedOnce ==
  \A d \in Deliveries :
    /\ acks[d] <= 1 + crashes + faults
    /\ status[d] = "delivered" => acks[d] >= 1

\* deliverPending: no row is forgotten. Every enqueued delivery is eventually
\* delivered, or failed with all its attempts used up, whether or not the
\* retention has removed the row since, or goes with its subscription.  There is
\* one exception: a row may lapse, deleted by cleanupOldDeliveries with a retry
\* ahead ("still-retrying rows are never touched" says the comment there; the
\* where clause selects them). A pending row is never deleted by the retention.
DeliveriesSettle ==
  \A d \in Deliveries : (status[d] = "pending") ~> (Done(d) \/ status[d] \in {"gone", "lapsed"})
==============================================================================
