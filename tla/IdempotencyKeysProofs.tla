------------------------ MODULE IdempotencyKeysProofs ------------------------
(***************************************************************************)
(* The Idempotency-Key guarantees for any number of clients, faults and  *)
(* crashes, and any stale and retention times.                             *)
(***************************************************************************)
EXTENDS IdempotencyKeys, FiniteSetTheorems, TLAPS

\* A request that has created a row holds its id; while that row is there, it is
\* in progress and its response will be that of this request.
Owned ==
  \A c \in Clients : stage[c] \in {"handler", "finalize"} =>
    held[c] \in Ids /\ (row.id = held[c] => row.inProgress /\ row.by = c)

\* A handler that is not stale still has its row, and the row has its age.
Young(c) == tenure[c] <= StaleAge /\ tenure[c] < RetentionAge

Guarded ==
  \A c \in Clients :
    /\ stage[c] = "handler" /\ Young(c) => row.id = held[c] /\ row.age = tenure[c]
    /\ stage[c] # "handler" => tenure[c] = 0

\* A request that is about to delete the row has seen it expired or stale.
Doomed ==
  \A c \in Clients : stage[c] = "delete" =>
    held[c] \in Ids /\ (row.id = held[c] => Expired \/ (Stale /\ (row.inProgress \/ row.late)))

\* A stored response is that of a client that was answered with a 2xx.
Faithful ==
  /\ Exists => row.body = BodyOf[row.by]
  /\ Exists /\ ~row.inProgress => answer[row.by] = "ok"
  /\ \A c \in Clients : answer[c] = "ok" => stage[c] \in {"finalize", "done"}
  /\ \A c \in Clients : answer[c] \in {"reused", "replayed"} => stage[c] = "done"

\* The inductive invariant.
KeyInv == KeyTypeOK /\ Owned /\ Guarded /\ Doomed /\ Faithful /\ ReplaySound

-----------------------------------------------------------------------------
\* With more ids than clients there is one that nobody holds.
LEMMA NewIdUnused ==
  ASSUME KeyTypeOK, ~Exists
  PROVE  NewId \in Ids /\ \A c \in Clients : held[c] # NewId
<1>1. \E i \in Ids : row.id # i /\ \A c \in Clients : held[c] # i
  <2> SUFFICES ASSUME \A i \in Ids : \E c \in Clients : held[c] = i PROVE FALSE
    BY KeyAssumption DEF Exists
  <2> DEFINE f == [i \in Ids |-> CHOOSE c \in Clients : held[c] = i]
  <2>1. f \in [Ids -> Clients] /\ \A i \in Ids : held[f[i]] = i
    OBVIOUS
  <2> HIDE DEF f
  <2>2. Cardinality(Clients) < Cardinality(Ids)
    BY KeyAssumption, FS_CardinalityType
  <2>3. \E x, y \in Ids : x # y /\ f[x] = f[y]
    BY <2>1, <2>2, FS_PigeonHole, KeyAssumption
  <2> QED
    BY <2>1, <2>3
<1> QED
  BY <1>1 DEF NewId

\* The id of a row that does not exist.
LEMMA NoRowId == NoRow.id = NoId
  BY DEF NoRow

\* The invariant holds before the first request.
LEMMA KeyStart == KeyInit => KeyInv
<1> SUFFICES ASSUME KeyInit PROVE KeyInv
  OBVIOUS
<1>1. KeyTypeOK
  BY KeyAssumption DEF KeyInit, KeyTypeOK, MaxAge
<1>2. Owned /\ Guarded /\ Doomed
  BY DEF KeyInit, Owned, Guarded, Doomed
<1>3. Faithful /\ ReplaySound
  BY DEF KeyInit, Faithful, ReplaySound, Exists, NoRow
<1> QED
  BY <1>1, <1>2, <1>3 DEF KeyInv

\* Every step preserves the invariant.
LEMMA KeyStep == KeyInv /\ [KeyNext]_keyVars => KeyInv'
<1> SUFFICES ASSUME KeyInv, [KeyNext]_keyVars PROVE KeyInv'
  OBVIOUS
<1> USE DEF KeyInv
<1>0. /\ MaxAge \in Nat /\ MaxAge = RetentionAge + 1 /\ StaleAge \in Nat /\ RetentionAge \in Nat
      /\ NoId \notin Ids
      /\ \A c \in Clients : BodyOf[c] \in Bodies
  BY KeyAssumption DEF MaxAge, Bodies
<1>1. ASSUME NEW c \in Clients, FindNone(c) PROVE KeyInv'
  <2> USE <1>1 DEF FindNone, GoOn
  <2>1. KeyTypeOK'
    BY DEF KeyTypeOK
  <2>2. Owned' /\ Guarded' /\ Doomed'
    BY DEF KeyTypeOK, Owned, Guarded, Young, Doomed, Expired, Stale
  <2>3. Faithful' /\ ReplaySound'
    BY DEF KeyTypeOK, Faithful, ReplaySound, Exists
  <2> QED BY <2>1, <2>2, <2>3
<1>2. ASSUME NEW c \in Clients, FindDead(c) PROVE KeyInv'
  <2> USE <1>2 DEF FindDead, GoOn
  <2>0. row.id \in Ids
    BY DEF KeyTypeOK, Rows, Exists, NoRow
  <2>1. KeyTypeOK'
    BY <2>0 DEF KeyTypeOK
  <2>2. Owned' /\ Guarded'
    BY DEF KeyTypeOK, Owned, Guarded, Young
  <2>3. Doomed'
    BY DEF KeyTypeOK, Doomed, Expired, Stale, Exists, Rows, NoRow
  <2>4. Faithful' /\ ReplaySound'
    BY DEF KeyTypeOK, Faithful, ReplaySound, Exists
  <2> QED BY <2>1, <2>2, <2>3, <2>4
<1>3. ASSUME NEW c \in Clients, FindOtherBody(c) PROVE KeyInv'
  <2> USE <1>3 DEF FindOtherBody, GoOn, Answer
  <2>1. KeyTypeOK'
    BY DEF KeyTypeOK
  <2>2. Owned' /\ Guarded' /\ Doomed'
    BY DEF KeyTypeOK, Owned, Guarded, Young, Doomed, Expired, Stale
  <2>3. answer[c] # "ok"
    BY DEF Faithful
  <2>4. Faithful' /\ ReplaySound'
    BY <2>3 DEF KeyTypeOK, Faithful, ReplaySound, Exists, Rows, NoRow
  <2> QED BY <2>1, <2>2, <2>4
<1>4. ASSUME NEW c \in Clients, Replay(c) PROVE KeyInv'
  <2> USE <1>4 DEF Replay, GoOn, Answer
  <2>1. row \in Rows
    BY DEF KeyTypeOK, Exists, NoRow
  <2>2. KeyTypeOK'
    BY <2>1 DEF KeyTypeOK, Rows
  <2>3. Owned' /\ Guarded' /\ Doomed'
    BY DEF KeyTypeOK, Owned, Guarded, Young, Doomed, Expired, Stale
  <2>4. answer[c] # "ok"
    BY DEF Faithful
  <2>5. Faithful'
    BY <2>1, <2>4 DEF KeyTypeOK, Faithful, Exists, Rows
  <2>6. ReplaySound'
    BY <2>1, <2>4 DEF KeyTypeOK, Faithful, ReplaySound, Exists, Rows
  <2> QED BY <2>2, <2>3, <2>5, <2>6
<1>5. ASSUME NEW c \in Clients, DeleteDead(c) PROVE KeyInv'
  <2> USE <1>5 DEF DeleteDead, GoOn
  <2>1. KeyTypeOK'
    BY DEF KeyTypeOK
  <2>2. row' = row \/ (row' = NoRow /\ row.id = held[c])
    OBVIOUS
  <2>3. Owned'
    BY <1>0, <2>2 DEF KeyTypeOK, Owned, NoRow
  <2>4. Guarded'
    <3> SUFFICES ASSUME NEW d \in Clients, stage'[d] = "handler", Young(d)'
                 PROVE  row'.id = held'[d] /\ row'.age = tenure'[d]
      BY DEF Guarded, KeyTypeOK
    <3>1. d # c /\ stage[d] = "handler" /\ Young(d) /\ held'[d] = held[d]
      BY DEF KeyTypeOK, Young
    <3>2. row.id = held[d] /\ row.age = tenure[d]
      BY <3>1 DEF Guarded
    <3>3. ~Expired /\ ~Stale
      BY <3>1, <3>2, <1>0 DEF Expired, Stale, Young, KeyTypeOK
    <3>4. row.id # held[c]
      BY <3>3 DEF Doomed
    <3> QED
      BY <3>1, <3>2, <3>4
  <2>5. Doomed'
    BY <1>0, <2>2 DEF KeyTypeOK, Doomed, Expired, Stale, NoRow
  <2>6. Faithful' /\ ReplaySound'
    BY <2>2 DEF KeyTypeOK, Faithful, ReplaySound, Exists, NoRow
  <2> QED BY <2>1, <2>3, <2>4, <2>5, <2>6
<1>6. ASSUME NEW c \in Clients, Create(c) PROVE KeyInv'
  <2> USE <1>6 DEF Create, GoOn
  <2>1. NewId \in Ids /\ \A d \in Clients : held[d] # NewId
    BY NewIdUnused
  <2> DEFINE new == NewId
  <2>2. /\ row' = [id |-> new, body |-> BodyOf[c], inProgress |-> TRUE, age |-> 0,
                   by |-> c, late |-> FALSE]
        /\ held' = [held EXCEPT ![c] = new]
        /\ new \in Ids /\ \A d \in Clients : held[d] # new
    BY <2>1
  <2> HIDE DEF new
  <2>3. row' \in Rows
    BY <1>0, <2>2 DEF Rows
  <2>4. KeyTypeOK'
    BY <2>2, <2>3 DEF KeyTypeOK
  <2>5. row.id = NoId
    BY DEF Exists
  <2>6. Owned'
    BY <2>2 DEF KeyTypeOK, Owned
  <2>7. Guarded'
    BY <1>0, <2>2, <2>5 DEF KeyTypeOK, Guarded, Young, Owned
  <2>8. Doomed'
    BY <2>2 DEF KeyTypeOK, Doomed
  <2>9. Faithful' /\ ReplaySound'
    BY <2>2 DEF KeyTypeOK, Faithful, ReplaySound, Exists
  <2> QED BY <2>4, <2>6, <2>7, <2>8, <2>9
<1>7. ASSUME NEW c \in Clients, CreateLost(c) \/ PreHandlerFails(c) PROVE KeyInv'
  <2> USE <1>7 DEF CreateLost, PreHandlerFails, Fails, GoOn
  <2>1. KeyTypeOK'
    BY KeyAssumption DEF KeyTypeOK
  <2>2. Owned' /\ Guarded' /\ Doomed'
    BY DEF KeyTypeOK, Owned, Guarded, Young, Doomed, Expired, Stale
  <2>3. Faithful' /\ ReplaySound'
    BY DEF KeyTypeOK, Faithful, ReplaySound, Exists
  <2> QED BY <2>1, <2>2, <2>3
<1>8. ASSUME NEW c \in Clients, DeleteFails(c) PROVE KeyInv'
  <2> USE <1>8 DEF DeleteFails, Fails, GoOn
  <2>1. KeyTypeOK'
    BY KeyAssumption DEF KeyTypeOK
  <2>2. Owned' /\ Guarded' /\ Doomed'
    BY DEF KeyTypeOK, Owned, Guarded, Young, Doomed, Expired, Stale
  <2>3. Faithful' /\ ReplaySound'
    BY DEF KeyTypeOK, Faithful, ReplaySound, Exists
  <2> QED BY <2>1, <2>2, <2>3
<1>9. ASSUME NEW c \in Clients, HandlerOk(c) \/ HandlerBad(c) PROVE KeyInv'
  <2> USE <1>9 DEF HandlerOk, HandlerBad, Fails, GoOn, Answer
  <2>1. KeyTypeOK'
    BY <1>0, KeyAssumption DEF KeyTypeOK
  <2>2. Owned' /\ Doomed'
    BY DEF KeyTypeOK, Owned, Doomed, Expired, Stale
  <2>3. Guarded'
    BY DEF KeyTypeOK, Guarded, Young
  <2>4. answer[c] = "none"
    BY DEF KeyTypeOK, Faithful
  <2>5. Faithful'
    BY <2>4 DEF KeyTypeOK, Faithful, Exists, Rows, NoRow
  <2>6. ReplaySound'
    BY <2>4 DEF KeyTypeOK, ReplaySound
  <2> QED BY <2>1, <2>2, <2>3, <2>5, <2>6
<1>10. ASSUME NEW c \in Clients, Finalize(c) PROVE KeyInv'
  <2> USE <1>10 DEF Finalize, AfterAnswer, GoOn
  <2>1. \/ row' = row
        \/ row' = NoRow /\ row.id = held[c]
        \/ /\ row' = [row EXCEPT !.inProgress = FALSE, !.late = Stale]
           /\ row.id = held[c] /\ answer[c] = "ok"
    OBVIOUS
  <2>2. held[c] \in Ids /\ (row.id = held[c] => row.inProgress /\ row.by = c /\ row \in Rows)
    BY <1>0 DEF Owned, KeyTypeOK, NoRow
  <2>3. row' \in Rows \union {NoRow}
    <3>1. Stale \in BOOLEAN
      BY DEF Stale
    <3>2. ASSUME row \in Rows PROVE [row EXCEPT !.inProgress = FALSE, !.late = Stale] \in Rows
      BY <3>1, <3>2 DEF Rows
    <3> QED
      BY <2>1, <2>2, <3>2 DEF KeyTypeOK
  <2>4. KeyTypeOK'
    BY <2>3 DEF KeyTypeOK
  <2>5. Owned'
    BY <1>0, <2>1, <2>2 DEF KeyTypeOK, Owned, NoRow, Rows
  <2>6. Guarded'
    <3> SUFFICES ASSUME NEW d \in Clients, stage'[d] = "handler", Young(d)'
                 PROVE  row'.id = held'[d] /\ row'.age = tenure'[d]
      BY DEF Guarded, KeyTypeOK
    <3>1. d # c /\ stage[d] = "handler" /\ Young(d) /\ held'[d] = held[d]
      BY DEF KeyTypeOK, Young
    <3>2. row.id = held[d] /\ row.age = tenure[d] /\ row.by = d
      BY <3>1 DEF Guarded, Owned
    <3> QED
      BY <3>1, <3>2, <2>1, <2>2
  <2>7. Doomed'
    <3> SUFFICES ASSUME NEW d \in Clients, stage'[d] = "delete", row'.id = held'[d]
                 PROVE  held'[d] \in Ids /\ (Expired \/ (Stale /\ (row.inProgress \/ row.late)))'
      BY <1>0 DEF Doomed, KeyTypeOK
    <3>1. d # c /\ stage[d] = "delete" /\ held'[d] = held[d] /\ held[d] \in Ids
      BY DEF KeyTypeOK, Doomed
    <3>2. row'.id = row.id /\ row'.age = row.age /\ row' # NoRow
      <4>1. row'.id \in Ids
        BY <3>1
      <4>2. row' # NoRow
        BY <4>1, <1>0, NoRowId
      <4>3. CASE row' = row
        BY <4>2, <4>3
      <4>4. CASE row' = [row EXCEPT !.inProgress = FALSE, !.late = Stale] /\ row.id = held[c]
        <5>1. row \in Rows
          BY <2>2, <4>4
        <5>2. row'.id = row.id /\ row'.age = row.age
          BY <4>4, <5>1 DEF Rows
        <5> QED
          BY <4>2, <5>2
      <4> QED
        BY <2>1, <4>2, <4>3, <4>4
    <3>3. Expired \/ (Stale /\ (row.inProgress \/ row.late))
      BY <3>1, <3>2 DEF Doomed
    <3> QED
      BY <2>1, <2>2, <3>1, <3>2, <3>3 DEF Expired, Stale, Rows
  <2>8. Faithful'
    BY <2>1, <2>2 DEF KeyTypeOK, Faithful, Exists, NoRow, Rows
  <2>9. ReplaySound'
    BY DEF ReplaySound
  <2> QED BY <2>4, <2>5, <2>6, <2>7, <2>8, <2>9
<1>11. ASSUME NEW c \in Clients, FinalizeFails(c) PROVE KeyInv'
  <2> USE <1>11 DEF FinalizeFails, AfterAnswer, Fails, GoOn
  <2>1. KeyTypeOK'
    BY KeyAssumption DEF KeyTypeOK
  <2>2. Owned' /\ Guarded' /\ Doomed'
    BY DEF KeyTypeOK, Owned, Guarded, Young, Doomed, Expired, Stale
  <2>3. Faithful' /\ ReplaySound'
    BY DEF KeyTypeOK, Faithful, ReplaySound, Exists
  <2> QED BY <2>1, <2>2, <2>3
<1>12. CASE Tick
  <2> USE <1>12 DEF Tick
  <2>1. /\ ~Exists => row' = row
        /\ Exists => row \in Rows /\ row' = [row EXCEPT !.age = Older(row.age)]
    BY DEF KeyTypeOK, Exists, NoRow
  <2>2. \A a \in 0..MaxAge : Older(a) \in 0..MaxAge /\ Older(a) >= a /\ (a <= RetentionAge => Older(a) = a + 1)
    BY <1>0 DEF Older
  <2>3. row' \in Rows \union {NoRow}
    BY <2>1, <2>2 DEF KeyTypeOK, Rows
  <2>4. tenure' \in [Clients -> 0..MaxAge]
    BY <2>2 DEF KeyTypeOK
  <2>5. KeyTypeOK'
    BY <2>3, <2>4 DEF KeyTypeOK
  <2>6. /\ row'.id = row.id /\ row'.by = row.by /\ row'.body = row.body
        /\ row'.inProgress = row.inProgress /\ row'.late = row.late
        /\ row'.age >= row.age /\ row.age \in Nat /\ row'.age \in Nat
    BY <1>0, <2>1, <2>2 DEF Rows, Exists, KeyTypeOK, NoRow
  <2>7. Owned'
    BY <2>6 DEF Owned
  <2>8. Guarded'
    <3> SUFFICES ASSUME NEW d \in Clients
                 PROVE  /\ stage'[d] = "handler" /\ Young(d)' => row'.id = held'[d] /\ row'.age = tenure'[d]
                        /\ stage'[d] # "handler" => tenure'[d] = 0
      BY DEF Guarded
    <3>1. CASE stage[d] # "handler"
      BY <3>1 DEF Guarded, KeyTypeOK
    <3>2. CASE stage[d] = "handler"
      <4> SUFFICES ASSUME Young(d)' PROVE row'.id = held'[d] /\ row'.age = tenure'[d]
        BY <3>2
      <4>1. tenure'[d] = Older(tenure[d]) /\ tenure[d] \in 0..MaxAge
        BY <3>2 DEF KeyTypeOK
      <4>2. Young(d)
        BY <1>0, <2>2, <4>1 DEF Young
      <4>3. row.id = held[d] /\ row.age = tenure[d] /\ held[d] \in Ids
        BY <3>2, <4>2 DEF Guarded, Owned
      <4>4. Exists
        BY <1>0, <4>3 DEF Exists
      <4> QED
        BY <2>1, <4>1, <4>3, <4>4 DEF Rows
    <3> QED
      BY <3>1, <3>2
  <2>9. Doomed'
    BY <1>0, <2>6 DEF Doomed, Expired, Stale
  <2>10. Faithful' /\ ReplaySound'
    BY <2>6 DEF Faithful, ReplaySound, Exists
  <2> QED BY <2>5, <2>7, <2>8, <2>9, <2>10
<1>13. CASE Cleanup
  <2> USE <1>13 DEF Cleanup, reqVars
  <2>1. KeyTypeOK'
    BY DEF KeyTypeOK
  <2>2. Owned' /\ Doomed'
    BY <1>0 DEF KeyTypeOK, Owned, Doomed, NoRow
  <2>3. Guarded'
    BY <1>0 DEF KeyTypeOK, Guarded, Young
  <2>4. Faithful' /\ ReplaySound'
    BY DEF Faithful, ReplaySound, Exists, NoRow
  <2> QED BY <2>1, <2>2, <2>3, <2>4
<1>14. CASE Crash
  <2> USE <1>14 DEF Crash
  <2>1. KeyTypeOK'
    BY <1>0, KeyAssumption DEF KeyTypeOK
  <2>2. Owned' /\ Guarded' /\ Doomed'
    BY DEF KeyTypeOK, Owned, Guarded, Doomed
  <2>3. Faithful' /\ ReplaySound'
    BY DEF KeyTypeOK, Faithful, ReplaySound, Exists
  <2> QED BY <2>1, <2>2, <2>3
<1>15. CASE UNCHANGED keyVars
  <2> USE <1>15 DEF keyVars, reqVars
  <2>1. KeyTypeOK' /\ Owned' /\ Guarded' /\ Doomed'
    BY DEF KeyTypeOK, Owned, Guarded, Young, Doomed, Expired, Stale
  <2>2. Faithful' /\ ReplaySound'
    BY DEF Faithful, ReplaySound, Exists
  <2> QED BY <2>1, <2>2
<1> QED
  BY <1>1, <1>2, <1>3, <1>4, <1>5, <1>6, <1>7, <1>8, <1>9, <1>10, <1>11, <1>12, <1>13, <1>14, <1>15
  DEF KeyNext, Request, RequestFails, FindInProgress

\* idempotency.ts: the inductive invariant holds in every state.
THEOREM KeyInvariance == KeySpec => []KeyInv
<1> QED
  BY KeyStart, KeyStep, PTL DEF KeySpec

-----------------------------------------------------------------------------
\* preHandler: two handlers run at once for one key only when one of them has
\* outlived the stale time or the retention.
THEOREM OneHandlerHolds == KeySpec => []OneHandler
<1>1. KeyInv => OneHandler
  <2> SUFFICES ASSUME KeyInv, NEW c \in Clients, NEW d \in Clients,
                      c # d, stage[c] = "handler", stage[d] = "handler", Young(c), Young(d)
               PROVE  FALSE
    BY KeyAssumption DEF OneHandler, Young, KeyInv, KeyTypeOK, MaxAge
  <2>1. row.id = held[c] /\ row.id = held[d]
    BY DEF KeyInv, Guarded
  <2> QED
    BY <2>1 DEF KeyInv, Owned
<1> QED
  BY <1>1, KeyInvariance, PTL

\* preHandler: a replayed answer comes from a successful run of the same body.
THEOREM ReplaySoundHolds == KeySpec => []ReplaySound
<1>1. KeyInv => ReplaySound
  BY DEF KeyInv
<1> QED
  BY <1>1, KeyInvariance, PTL

\* finalizeOnResponse: a response stored before its row was stale is there until
\* it expires.
THEOREM TimelyResponseKeptHolds == KeySpec => TimelyResponseKept
<1>1. KeyInv /\ [KeyNext]_keyVars => [Stored /\ ~row.late => Kept]_keyVars
  <2> SUFFICES ASSUME KeyInv, KeyNext, Stored, ~row.late PROVE Kept
    OBVIOUS
  <2>1. ASSUME NEW c \in Clients, DeleteDead(c) PROVE row' = row
    BY <2>1 DEF DeleteDead, KeyInv, Doomed, Stored
  <2>2. ASSUME NEW c \in Clients, Finalize(c) PROVE row' = row
    BY <2>2 DEF Finalize, KeyInv, Owned, Stored
  <2>3. ASSUME NEW c \in Clients, Request(c) \/ RequestFails(c) PROVE row' = row
    BY <2>1, <2>2, <2>3 DEF Request, RequestFails, FindNone, FindDead, FindOtherBody, FindInProgress,
       Replay, Create, CreateLost, HandlerOk, DeleteFails, PreHandlerFails, HandlerBad,
       FinalizeFails, Stored, keyVars
  <2>4. CASE Tick
    <3>1. row \in Rows
      BY DEF KeyInv, KeyTypeOK, Stored, Exists, NoRow
    <3> QED
      BY <2>4, <3>1 DEF Tick, Kept, Rows, Stored
  <2>5. ~Cleanup
    BY KeyAssumption DEF Cleanup, Stored, Expired, KeyInv, KeyTypeOK, Rows, NoRow
  <2>6. CASE Crash
    BY <2>6 DEF Crash, Kept, Stored
  <2> QED
    BY <2>3, <2>4, <2>5, <2>6 DEF KeyNext, Kept, Stored
<1> QED
  BY <1>1, KeyInvariance, PTL DEF KeySpec, TimelyResponseKept
==============================================================================
