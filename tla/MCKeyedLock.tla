----------------------------- MODULE MCKeyedLock -----------------------------
(***************************************************************************)
(* What waits for what in the memory of the process, for TLC, in two parts *)
(* of which a behaviour runs one.  "lock": three calls of the keyed lock   *)
(* on two compose files; one can chain onto another while a third meets    *)
(* the key as it is being dropped.  "notify": two jobs of the notification *)
(* queue, the second enqueued at any time of the first, two users, two     *)
(* webhooks, one change of rows and one message that is not accepted or    *)
(* one call that throws.                                                   *)
(***************************************************************************)
EXTENDS KeyedLock, NotificationQueue

VARIABLE part

mcVars == <<part, vars, queueVars>>

MCInit ==
  /\ part \in {"lock", "notify"}
  /\ Init /\ QueueInit
  /\ part # "notify" => users = [u \in Users |-> "none"]

MCNext ==
  \/ part = "lock" /\ Next /\ UNCHANGED <<part, queueVars>>
  \/ part = "notify" /\ QueueNext /\ UNCHANGED <<part, vars>>

\* The consumer of the queue goes on: its emails, POSTs and database calls end.
MCSpec ==
  /\ MCInit /\ [][MCNext]_mcVars
  /\ Fairness
  /\ \A d \in Drains : WF_queueVars(part = "notify" /\ DrainStep(d))

----------------------------------------------------------------------------
\* Every notification that is enqueued is processed, unless the process is
\* killed or its flush runs into the deadline.
EveryJobProcessed ==
  \A j \in Jobs :
    (part = "notify" /\ j \in Seen(enqueued)) ~> (j \in done \/ process = "killed")
==============================================================================
