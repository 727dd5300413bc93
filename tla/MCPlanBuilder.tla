---------------------------- MODULE MCPlanBuilder ----------------------------
(***************************************************************************)
(* What one request comes to, for TLC.  The parts have no row in common,   *)
(* so a behaviour runs one of them:                                        *)
(*   build  the plan that a request gets: every dependency graph over four *)
(*          services and every selection of them; the second choice of     *)
(*          replicas has a service without deployments;                    *)
(*   retry  a request that is sent again: three clients share an           *)
(*          Idempotency-Key, two with the same body and one with another.  *)
(***************************************************************************)
EXTENDS PlanBuilder, IdempotencyKeys

CONSTANT Parts

VARIABLE part

MCReplicaChoices == {<<1, 2, 1, 1>>, <<1, 1, 0, 1>>}

\* Three services with one deployment each: enough for a counterexample.
MCOneReplica == {<<1, 1, 1>>}

MCBodyOf == [c \in Clients |-> IF c = "c3" THEN "B" ELSE "A"]

mcVars == <<part, vars, keyVars>>

MCInit ==
  /\ part \in Parts
  /\ Init /\ KeyInit
  /\ part = "retry" => /\ selected = {1} /\ deps = [s \in Services |-> {}]
                       /\ replicas = CHOOSE f \in ReplicaChoices : TRUE

MCNext ==
  \/ part = "build" /\ Next /\ UNCHANGED <<part, keyVars>>
  \/ part = "retry" /\ KeyNext /\ UNCHANGED <<part, vars>>

\* Clients retry, handlers return and time passes, as in KeyFairness.
MCSpec ==
  /\ MCInit /\ [][MCNext]_mcVars
  /\ \A c \in Clients : WF_keyVars(part = "retry" /\ Request(c))
  /\ WF_keyVars(part = "retry" /\ Tick /\ Exists /\ ~Stale)

----------------------------------------------------------------------------
\* STALE_INPROGRESS_MS: "if the process crashes or the connection drops,
\* onResponse never fires and the row would otherwise wedge the key": every
\* client that keeps retrying is answered, without waiting for the row to expire.
KeyNotWedged ==
  part = "retry" => \A c \in Clients : <>(stage[c] = "done")
==============================================================================
