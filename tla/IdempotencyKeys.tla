--------------------------- MODULE IdempotencyKeys ---------------------------
(***************************************************************************)
(* The Idempotency-Key hooks of src/lib/idempotency.ts, for ONE stored key *)
(* (credential, environment, client key) on one route: at most one         *)
(* IdempotencyKey row exists for it (@@unique), and several clients send   *)
(* POST requests with it.                                                  *)
(*                                                                         *)
(* A request is cut at the awaits of preHandler (find, delete, create), at *)
(* the route handler and at the write of onResponse.  Time is the age of a *)
(* row: it stops counting once the row has expired for good.  Row ids are  *)
(* cuids; an id nobody holds any more may be given out again.              *)
(***************************************************************************)
EXTENDS Integers, FiniteSets

CONSTANTS
  Clients,       \* each sends its request again until it is answered
  BodyOf,        \* client -> hash of its request body
  Ids,           \* row ids
  NoId,
  StaleAge,      \* STALE_INPROGRESS_MS
  RetentionAge,  \* IDEMPOTENCY_RETENTION_MS
  MaxFaults,     \* bound: non-2xx answers of the handler, and failing database calls
  MaxCrashes     \* bound: restarts of the Node process

ASSUME KeyAssumption ==
  /\ IsFiniteSet(Clients) /\ IsFiniteSet(Ids)
  /\ Cardinality(Ids) > Cardinality(Clients)
  /\ NoId \notin Ids
  /\ StaleAge \in Nat \ {0} /\ RetentionAge \in Nat \ {0}
  /\ MaxFaults \in Nat /\ MaxCrashes \in Nat

Bodies == {BodyOf[c] : c \in Clients}
MaxAge == RetentionAge + 1

VARIABLES
  row,       \* the row: id (NoId when there is none), body, inProgress, age, and
             \* as history whose response it holds and if that was stored when stale
  stage,     \* where each request is
  held,      \* id the request has read and will delete, or has created
  tenure,    \* how long a request's handler has been running
  answer,    \* what the client was told that it does not retry
  source,    \* history: whose execution a replayed answer came from
  faults, crashes

reqVars == <<stage, held, tenure>>
keyVars == <<row, reqVars, answer, source, faults, crashes>>

NoRow == [id |-> NoId, body |-> NoId, inProgress |-> FALSE, age |-> 0, by |-> NoId, late |-> FALSE]
Rows == [id : Ids, body : Bodies, inProgress : BOOLEAN, age : 0..MaxAge, by : Clients, late : BOOLEAN]

Exists == row.id # NoId
Stale == row.age > StaleAge
Expired == row.age >= RetentionAge

KeyTypeOK ==
  /\ row \in Rows \union {NoRow}
  /\ stage \in [Clients -> {"idle", "delete", "create", "handler", "finalize", "done"}]
  /\ held \in [Clients -> Ids \union {NoId}]
  /\ tenure \in [Clients -> 0..MaxAge]
  /\ answer \in [Clients -> {"none", "reused", "ok", "replayed"}]
  /\ source \in [Clients -> Clients]
  /\ faults \in 0..MaxFaults
  /\ crashes \in 0..MaxCrashes

KeyInit ==
  /\ row = NoRow
  /\ stage = [c \in Clients |-> "idle"]
  /\ held = [c \in Clients |-> NoId]
  /\ tenure = [c \in Clients |-> 0]
  /\ answer = [c \in Clients |-> "none"]
  /\ source = [c \in Clients |-> c]
  /\ faults = 0
  /\ crashes = 0

GoOn(c, l) == stage' = [stage EXCEPT ![c] = l]
Answer(c, a) == answer' = [answer EXCEPT ![c] = a]
Fails == faults < MaxFaults /\ faults' = faults + 1

----------------------------------------------------------------------------
(* preHandler: the row is read and judged as it was read *)

FindNone(c) ==
  /\ stage[c] = "idle"
  /\ ~Exists
  /\ GoOn(c, "create")
  /\ UNCHANGED <<row, held, tenure, answer, source, faults, crashes>>

\* Mutant of FindDead: a row in progress is never stale.
FindDeadExpired(c) ==
  /\ stage[c] = "idle"
  /\ Exists
  /\ Expired
  /\ held' = [held EXCEPT ![c] = row.id]
  /\ GoOn(c, "delete")
  /\ UNCHANGED <<row, tenure, answer, source, faults, crashes>>

\* An expired row, or one left in progress for too long, will be deleted by its id.
FindDead(c) ==
  /\ stage[c] = "idle"
  /\ Exists
  /\ Expired \/ (row.body = BodyOf[c] /\ row.inProgress /\ Stale)
  /\ held' = [held EXCEPT ![c] = row.id]
  /\ GoOn(c, "delete")
  /\ UNCHANGED <<row, tenure, answer, source, faults, crashes>>

FindOtherBody(c) ==
  /\ stage[c] = "idle"
  /\ Exists /\ ~Expired
  /\ row.body # BodyOf[c]
  /\ Answer(c, "reused")
  /\ GoOn(c, "done")
  /\ UNCHANGED <<row, held, tenure, source, faults, crashes>>

\* CONFLICT: the client is told to retry, and does.
FindInProgress(c) ==
  /\ stage[c] = "idle"
  /\ Exists /\ ~Expired
  /\ row.body = BodyOf[c]
  /\ row.inProgress /\ ~Stale
  /\ UNCHANGED keyVars

\* Mutant of Replay: the body is not compared.
ReplayAnyBody(c) ==
  /\ stage[c] = "idle"
  /\ Exists /\ ~Expired
  /\ ~row.inProgress
  /\ Answer(c, "replayed")
  /\ source' = [source EXCEPT ![c] = row.by]
  /\ GoOn(c, "done")
  /\ UNCHANGED <<row, held, tenure, faults, crashes>>

Replay(c) ==
  /\ stage[c] = "idle"
  /\ Exists /\ ~Expired
  /\ row.body = BodyOf[c]
  /\ ~row.inProgress
  /\ Answer(c, "replayed")
  /\ source' = [source EXCEPT ![c] = row.by]
  /\ GoOn(c, "done")
  /\ UNCHANGED <<row, held, tenure, faults, crashes>>

\* Mutant of DeleteDead: whatever row the key has is deleted.
DeleteDeadByKey(c) ==
  /\ stage[c] = "delete"
  /\ row' = NoRow
  /\ held' = [held EXCEPT ![c] = NoId]
  /\ GoOn(c, "create")
  /\ UNCHANGED <<tenure, answer, source, faults, crashes>>

\* The delete names the row by its id; that the row is gone already is ignored.
DeleteDead(c) ==
  /\ stage[c] = "delete"
  /\ row' = IF row.id = held[c] THEN NoRow ELSE row
  /\ held' = [held EXCEPT ![c] = NoId]
  /\ GoOn(c, "create")
  /\ UNCHANGED <<tenure, answer, source, faults, crashes>>

\* So is any other error of it.
DeleteFails(c) ==
  /\ stage[c] = "delete"
  /\ Fails
  /\ held' = [held EXCEPT ![c] = NoId]
  /\ GoOn(c, "create")
  /\ UNCHANGED <<row, tenure, answer, source, crashes>>

NewId == CHOOSE i \in Ids : row.id # i /\ \A c \in Clients : held[c] # i

Create(c) ==
  /\ stage[c] = "create"
  /\ ~Exists
  /\ row' = [id |-> NewId, body |-> BodyOf[c], inProgress |-> TRUE, age |-> 0,
             by |-> c, late |-> FALSE]
  /\ held' = [held EXCEPT ![c] = NewId]
  /\ GoOn(c, "handler")
  /\ UNCHANGED <<tenure, answer, source, faults, crashes>>

\* P2002: another request was first.
CreateLost(c) ==
  /\ stage[c] = "create"
  /\ Exists
  /\ GoOn(c, "idle")
  /\ UNCHANGED <<row, held, tenure, answer, source, faults, crashes>>

\* The create throws something else (the find may too, before anything is done):
\* the client gets a 500 and tries again.
PreHandlerFails(c) ==
  /\ stage[c] = "create"
  /\ Fails
  /\ GoOn(c, "idle")
  /\ UNCHANGED <<row, held, tenure, answer, source, crashes>>

----------------------------------------------------------------------------
(* The route handler, then onSend and onResponse *)

\* The handler is done; onSend notes the outcome and the response goes out.
HandlerOk(c) ==
  /\ stage[c] = "handler"
  /\ Answer(c, "ok")
  /\ tenure' = [tenure EXCEPT ![c] = 0]
  /\ GoOn(c, "finalize")
  /\ UNCHANGED <<row, held, source, faults, crashes>>

HandlerBad(c) ==
  /\ stage[c] = "handler"
  /\ Fails
  /\ tenure' = [tenure EXCEPT ![c] = 0]
  /\ GoOn(c, "finalize")
  /\ UNCHANGED <<row, held, answer, source, crashes>>

\* What the client does next: nothing after a 2xx, the same request otherwise.
AfterAnswer(c) == GoOn(c, IF answer[c] = "ok" THEN "done" ELSE "idle")

\* Mutant of Finalize: the row is found by its key.
FinalizeByKey(c) ==
  /\ stage[c] = "finalize"
  /\ row' = IF ~Exists THEN row
            ELSE IF answer[c] = "ok" THEN [row EXCEPT !.inProgress = FALSE, !.late = Stale]
            ELSE NoRow
  /\ held' = [held EXCEPT ![c] = NoId]
  /\ AfterAnswer(c)
  /\ UNCHANGED <<tenure, answer, source, faults, crashes>>

\* A 2xx is stored on the request's own row, any other outcome deletes it; an
\* update of a row that is gone throws and is logged.
Finalize(c) ==
  /\ stage[c] = "finalize"
  /\ row' = IF row.id # held[c] THEN row
            ELSE IF answer[c] = "ok" THEN [row EXCEPT !.inProgress = FALSE, !.late = Stale]
            ELSE NoRow
  /\ held' = [held EXCEPT ![c] = NoId]
  /\ AfterAnswer(c)
  /\ UNCHANGED <<tenure, answer, source, faults, crashes>>

FinalizeFails(c) ==
  /\ stage[c] = "finalize"
  /\ Fails
  /\ held' = [held EXCEPT ![c] = NoId]
  /\ AfterAnswer(c)
  /\ UNCHANGED <<row, tenure, answer, source, crashes>>

----------------------------------------------------------------------------
(* Time, the daily cleanup and the process *)

Older(a) == IF a < MaxAge THEN a + 1 ELSE a

Tick ==
  /\ row' = IF Exists THEN [row EXCEPT !.age = Older(@)] ELSE row
  /\ tenure' = [c \in Clients |-> IF stage[c] = "handler" THEN Older(tenure[c]) ELSE tenure[c]]
  /\ <<row', tenure'>> # <<row, tenure>>
  /\ UNCHANGED <<stage, held, answer, source, faults, crashes>>

\* cleanupExpiredIdempotencyKeys
Cleanup ==
  /\ Exists
  /\ row.age > RetentionAge
  /\ row' = NoRow
  /\ UNCHANGED <<reqVars, answer, source, faults, crashes>>

\* Requests are cut off; a client that has no answer sends its request again,
\* one that had its 2xx does not.
Crash ==
  /\ crashes < MaxCrashes
  /\ crashes' = crashes + 1
  /\ \E c \in Clients : stage[c] \notin {"idle", "done"}
  /\ stage' = [c \in Clients |->
              IF stage[c] = "done" \/ answer[c] = "ok" THEN "done" ELSE "idle"]
  /\ tenure' = [c \in Clients |-> 0]
  /\ held' = [c \in Clients |-> NoId]
  /\ UNCHANGED <<row, answer, source, faults>>

Request(c) ==
  \/ FindNone(c) \/ FindDead(c) \/ FindOtherBody(c) \/ FindInProgress(c) \/ Replay(c)
  \/ DeleteDead(c) \/ Create(c) \/ CreateLost(c)
  \/ HandlerOk(c) \/ Finalize(c)

RequestFails(c) == DeleteFails(c) \/ PreHandlerFails(c) \/ HandlerBad(c) \/ FinalizeFails(c)

KeyNext ==
  \/ \E c \in Clients : Request(c) \/ RequestFails(c)
  \/ Tick \/ Cleanup \/ Crash

\* Clients retry, handlers and database calls return, and time passes until a
\* row in progress is stale.  Nothing is assumed of the cleanup, nor that any
\* row ever expires.
KeyFairness ==
  /\ \A c \in Clients : WF_keyVars(Request(c))
  /\ WF_keyVars(Tick /\ Exists /\ ~Stale)

KeySpec == KeyInit /\ [][KeyNext]_keyVars /\ KeyFairness

----------------------------------------------------------------------------
(* Properties *)

\* docs/reference/api.md: a concurrent retry of a running request does not run.
\* Two handlers run at the same time for one key only when the older of them has
\* outlived STALE_INPROGRESS_MS or the retention, whatever deletes, takeovers
\* and finalizations of other requests come in between.
OneHandler ==
  \A c, d \in Clients :
    c # d /\ stage[c] = "handler" /\ stage[d] = "handler" =>
      \E h \in {tenure[c], tenure[d]} : h > StaleAge \/ h >= RetentionAge

\* preHandler: a replayed answer comes from a handler run of the same body that
\* ended with a 2xx.
ReplaySound ==
  \A c \in Clients : answer[c] = "replayed" =>
    BodyOf[source[c]] = BodyOf[c] /\ answer[source[c]] = "ok"

Stored == Exists /\ ~row.inProgress /\ ~Expired
Kept == row'.id = row.id /\ ~row'.inProgress /\ row'.by = row.by

\* finalizeOnResponse and the deletes go by row id: a response stored before
\* its row was stale stays until it expires, also while requests that were
\* taken over, or that read an older row, are still under way.
TimelyResponseKept == [][Stored /\ ~row.late => Kept]_keyVars
==============================================================================
