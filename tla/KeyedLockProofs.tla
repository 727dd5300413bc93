--------------------------- MODULE KeyedLockProofs ---------------------------
(***************************************************************************)
(* Proofs about KeyedLock: mutual exclusion per key, and that the lock     *)
(* implements the first-come first-served mutex; and about                 *)
(* NotificationQueue: what a drain of the queue delivers, to whom and in   *)
(* which order.                                                            *)
(***************************************************************************)
EXTENDS KeyedLock, NotificationQueue, SequenceTheorems, TLAPS

Started == {"first", "second", "left", "settled", "done"}

\* Places in the order of arrival are given out once.
TicketInv ==
  /\ \A c \in Calls : pc[c] # "new" => ticket[c] <= arrived /\ key[c] \in Keys
  /\ \A c \in Calls : pc[c] = "new" => key[c] = NoKey
  /\ \A c, d \in Calls :
       pc[c] # "new" /\ pc[d] # "new" /\ ticket[c] = ticket[d] => c = d

\* A call that waits on nobody has nobody unfinished before it; one that waits
\* on a call has nobody unfinished between the two.
PrevInv ==
  \A c \in Calls : pc[c] = "waiting" =>
    /\ prev[c] # NoCall =>
         /\ pc[prev[c]] # "new"
         /\ key[prev[c]] = key[c]
         /\ ticket[prev[c]] < ticket[c]
    /\ \A d \in Calls :
         key[d] = key[c] /\ ticket[d] < ticket[c] =>
           \/ pc[d] = "done"
           \/ prev[c] # NoCall /\ ticket[d] <= ticket[prev[c]]

\* A call starts only when all calls before it on its key are done.
StartedInv ==
  \A c, d \in Calls :
    pc[c] \in Started /\ key[d] = key[c] /\ ticket[d] < ticket[c] => pc[d] = "done"

\* A key in the map stands for the last call on it, a key that is absent for none.
ChainInv ==
  \A k \in Keys :
    /\ chains[k] = NoCall => \A c \in Calls : key[c] = k => pc[c] = "done"
    /\ chains[k] # NoCall =>
         /\ pc[chains[k]] \notin {"new", "done"}
         /\ key[chains[k]] = k
         /\ \A c \in Calls : key[c] = k => ticket[c] <= ticket[chains[k]]

Inv == TypeOK /\ TicketInv /\ PrevInv /\ StartedInv /\ ChainInv

\* The invariant holds at the start.
LEMMA InitInv == Init => Inv
BY LockAssumption
   DEF Init, Inv, TypeOK, TicketInv, PrevInv, StartedInv, ChainInv, Started, Settled

\* A new call is last in the order of its key and is the key's new tail.
LEMMA RunExclusiveInv ==
  ASSUME Inv, NEW c \in Calls, NEW k \in Keys, RunExclusive(c, k)
  PROVE  Inv'
<1> USE LockAssumption DEF RunExclusive, Goto
<1>1. TypeOK'
  BY DEF Inv, TypeOK, Settled
<1>2. TicketInv'
  BY DEF Inv, TypeOK, TicketInv
<1>3. PrevInv'
  BY DEF Inv, TypeOK, TicketInv, PrevInv, ChainInv
<1>4. StartedInv'
  BY DEF Inv, TypeOK, TicketInv, StartedInv, Started
<1>5. ChainInv'
  BY DEF Inv, TypeOK, TicketInv, ChainInv
<1> QED BY <1>1, <1>2, <1>3, <1>4, <1>5 DEF Inv

\* Every step of a job keeps the invariant.
LEMMA JobInv ==
  ASSUME Inv, NEW c \in Calls, Job(c)
  PROVE  Inv'
<1> USE LockAssumption DEF Goto
<1>1. CASE StartFn(c)
  <2>1. TypeOK' /\ TicketInv' /\ ChainInv'
    BY <1>1 DEF Inv, TypeOK, TicketInv, ChainInv, StartFn, Settled
  <2>2. PrevInv'
    BY <1>1 DEF Inv, TypeOK, TicketInv, PrevInv, StartFn
  <2>3. ASSUME NEW d \in Calls, key[d] = key[c], ticket[d] < ticket[c]
        PROVE  pc[d] = "done"
    <3>1. CASE prev[c] = NoCall
      BY <1>1, <2>3, <3>1 DEF Inv, PrevInv, StartFn
    <3>2. CASE prev[c] # NoCall
      <4>1. /\ prev[c] \in Calls /\ pc[prev[c]] = "done"
            /\ key[prev[c]] = key[c]
            /\ pc[d] = "done" \/ ticket[d] <= ticket[prev[c]]
            /\ key[c] \in Keys
        BY <1>1, <2>3, <3>2 DEF Inv, TypeOK, TicketInv, PrevInv, StartFn
      <4>2. CASE d = prev[c]
        BY <4>1, <4>2
      <4>3. CASE d # prev[c] /\ ticket[d] <= ticket[prev[c]]
        <5>1. pc[d] # "new"
          BY <2>3, <4>1 DEF Inv, TypeOK, TicketInv
        <5>2. ticket[d] # ticket[prev[c]]
          BY <4>1, <4>3, <5>1 DEF Inv, TypeOK, TicketInv
        <5>3. ticket[d] < ticket[prev[c]]
          BY <4>1, <4>3, <5>2 DEF Inv, TypeOK
        <5> QED BY <2>3, <4>1, <5>3 DEF Inv, StartedInv, Started
      <4> QED BY <4>1, <4>2, <4>3
    <3> QED BY <3>1, <3>2
  <2>4. StartedInv'
    BY <1>1, <2>3 DEF Inv, TypeOK, StartedInv, StartFn, Started
  <2> QED BY <2>1, <2>2, <2>4 DEF Inv
<1>2. CASE FirstCommand(c)
  BY <1>2 DEF Inv, TypeOK, TicketInv, PrevInv, StartedInv, ChainInv, FirstCommand, Started, Settled
<1>3. ASSUME NEW r \in Settled, EndFn(c, r)
      PROVE  Inv'
  BY <1>3 DEF Inv, TypeOK, TicketInv, PrevInv, StartedInv, ChainInv, EndFn, Started, Settled
<1>4. CASE SettleTail(c)
  BY <1>4 DEF Inv, TypeOK, TicketInv, PrevInv, StartedInv, ChainInv, SettleTail, Started, Settled
<1>5. CASE Finally(c)
  <2>0. key[c] \in Keys /\ pc[c] = "settled"
    BY <1>5 DEF Inv, TicketInv, Finally
  <2>1. TypeOK' /\ TicketInv' /\ PrevInv' /\ StartedInv'
    BY <1>5, <2>0 DEF Inv, TypeOK, TicketInv, PrevInv, StartedInv, Finally, Started, Settled
  <2>2. ASSUME NEW d \in Calls, key[d] = key[c], d # c, chains[key[c]] = c
        PROVE  pc[d] = "done"
    <3>1. ticket[d] <= ticket[c] /\ pc[d] # "new"
      BY <2>0, <2>2 DEF Inv, TypeOK, TicketInv, ChainInv
    <3>2. ticket[d] < ticket[c]
      BY <2>0, <2>2, <3>1 DEF Inv, TypeOK, TicketInv
    <3> QED BY <2>0, <2>2, <3>2 DEF Inv, StartedInv, Started
  <2>3. ChainInv'
    <3> SUFFICES ASSUME NEW k \in Keys PROVE ChainInv!(k)'
      BY DEF ChainInv
    <3>1. CASE k = key[c] /\ chains[k] = c
      BY <1>5, <2>0, <2>2, <3>1 DEF Inv, TypeOK, ChainInv, Finally
    <3>2. CASE ~(k = key[c] /\ chains[k] = c)
      <4>1. chains'[k] = chains[k]
        BY <1>5, <2>0, <3>2 DEF Inv, TypeOK, Finally
      <4>2. chains[k] # c
        BY <2>0, <3>2 DEF Inv, ChainInv
      <4> QED BY <1>5, <4>1, <4>2 DEF Inv, TypeOK, ChainInv, Finally
    <3> QED BY <3>1, <3>2
  <2> QED BY <2>1, <2>3 DEF Inv
<1> QED BY <1>1, <1>2, <1>3, <1>4, <1>5 DEF Job

\* The invariant behind every property of the lock.
THEOREM LockInvariant == Spec => []Inv
<1>1. Inv /\ [Next]_vars => Inv'
  <2> SUFFICES ASSUME Inv, [Next]_vars PROVE Inv'
    OBVIOUS
  <2>1. CASE Next
    BY <2>1, RunExclusiveInv, JobInv DEF Next
  <2>2. CASE UNCHANGED vars
    BY <2>2 DEF vars, Inv, TypeOK, TicketInv, PrevInv, StartedInv, ChainInv
  <2> QED BY <2>1, <2>2
<1> QED BY <1>1, InitInv, PTL DEF Spec

\* Two calls inside with the same key would each have to be before the other.
LEMMA InvOneHolder == Inv => OneHolder
<1> SUFFICES ASSUME Inv, NEW c \in Calls, NEW d \in Calls,
                    pc[c] \in Running, pc[d] \in Running, key[c] = key[d], c # d
             PROVE  FALSE
  BY DEF OneHolder
<1>1. ticket[c] # ticket[d] /\ ticket[c] \in Nat /\ ticket[d] \in Nat
  BY DEF Inv, TypeOK, TicketInv, Running
<1>2. ticket[c] < ticket[d] \/ ticket[d] < ticket[c]
  BY <1>1
<1> QED BY <1>2 DEF Inv, StartedInv, Started, Running

\* What the invariant says of the entry in the map.
LEMMA InvMapHoldsTheLast == Inv => MapHoldsTheLast
BY DEF Inv, TypeOK, ChainInv, MapHoldsTheLast

\* keyed-lock.ts: of the calls with one key only one fn runs at a time.
THEOREM MutualExclusion == Spec => []OneHolder
BY LockInvariant, InvOneHolder, PTL

\* The map holds exactly the keys in use, each with its last call.
THEOREM MapIsExact == Spec => []MapHoldsTheLast
BY LockInvariant, InvMapHoldsTheLast, PTL

\* The lock starts as the mutex does.
LEMMA RefineInit == Init => Abstract!Init
BY DEF Init, Abstract!Init, Phase, Running

\* Every step of the lock is one of the mutex, or none.
LEMMA RefineStep ==
  ASSUME Inv, [Next]_vars
  PROVE  [Abstract!Next]_(Abstract!vars)
<1> USE DEF Phase, Goto
<1>1. ASSUME NEW c \in Calls, NEW k \in Keys, RunExclusive(c, k)
      PROVE  Abstract!Arrive(c, k)
  BY <1>1 DEF RunExclusive, Abstract!Arrive, Inv, TypeOK, Running
<1>2. ASSUME NEW c \in Calls, StartFn(c)
      PROVE  Abstract!Enter(c)
  <2>1. Inv' BY <1>2, JobInv DEF Job
  <2>2. \A d \in Calls : key[d] = key[c] /\ ticket[d] < ticket[c] => Phase[d] = "left"
    <3> SUFFICES ASSUME NEW d \in Calls, key[d] = key[c], ticket[d] < ticket[c]
                 PROVE  pc[d] = "done"
      BY DEF Running
    <3>1. pc'[d] = "done"
      BY <1>2, <2>1 DEF StartFn, Inv, TypeOK, StartedInv, Started
    <3> QED BY <1>2, <3>1 DEF StartFn, Inv, TypeOK
  <2>3. Phase' = [Phase EXCEPT ![c] = "inside"] /\ Phase[c] = "waiting"
    BY <1>2 DEF StartFn, Inv, TypeOK, Running
  <2> QED BY <1>2, <2>2, <2>3 DEF StartFn, Abstract!Enter
<1>3. ASSUME NEW c \in Calls, FirstCommand(c) PROVE UNCHANGED Abstract!vars
  BY <1>3 DEF FirstCommand, Abstract!vars, Inv, TypeOK, Running
<1>4. ASSUME NEW c \in Calls, NEW r \in Settled, EndFn(c, r) PROVE Abstract!Leave(c)
  BY <1>4 DEF EndFn, Abstract!Leave, Inv, TypeOK, Running
<1>5. ASSUME NEW c \in Calls, SettleTail(c) \/ Finally(c) PROVE UNCHANGED Abstract!vars
  BY <1>5 DEF SettleTail, Finally, Abstract!vars, Inv, TypeOK, Running
<1>6. CASE UNCHANGED vars
  BY <1>6 DEF vars, Abstract!vars
<1> QED BY <1>1, <1>2, <1>3, <1>4, <1>5, <1>6 DEF Next, Job, Abstract!Next

\* keyed-lock.ts, "queue behind each other in arrival order": the chain of
\* promises implements the first-come first-served mutex.
THEOREM Refinement == Spec => ImplementsMutex
<1>1. Init => Abstract!Init
  BY RefineInit
<1>2. Inv /\ Inv' /\ [Next]_vars => [Abstract!Next]_(Abstract!vars)
  BY RefineStep
<1> QED BY <1>1, <1>2, LockInvariant, PTL DEF Spec, ImplementsMutex, Abstract!Spec

----------------------------------------------------------------------------
\* The notification queue.
Stages == {"idle", "type", "users", "prefs", "insert", "mail", "hooks", "next", "post", "stats",
           "slack"}

DrainRows ==
  [at : Stages, snap : Seq(Jobs), users : SUBSET Users, left : SUBSET (Users \cup Hooks),
   hook : Hooks \cup {"none"}, tries : Nat]

\* The types of what the queue and its drains keep.
QueueTypes ==
  /\ queue \in Seq(Jobs) /\ enqueued \in Seq(Jobs) /\ draining \in BOOLEAN
  /\ drain \in [Drains -> DrainRows]

\* The types of the rows and of the history.
RowTypes ==
  /\ DOMAIN users \subseteq Users /\ hooks \subseteq Hooks /\ enabled \in BOOLEAN
  /\ done \subseteq Jobs /\ told \in [Recipients -> Seq(Jobs)]
  /\ promised \in [Jobs -> SUBSET Recipients]
  /\ touched \in [Jobs -> SUBSET (Users \cup Hooks \cup {Slack})]

Busy(d) == drain[d].at # "idle"

\* How many jobs are behind a drain.
Behind(d) == Len(enqueued) - Len(queue) - Len(drain[d].snap)

\* One drain is under way at a time, with a job at hand.
OneDrain ==
  /\ \A d, e \in Drains : Busy(d) /\ Busy(e) => d = e
  /\ \A d \in Drains : Busy(d) => draining /\ drain[d].snap # <<>>

\* The jobs, in the order of the calls, are those that are done, those of the
\* snapshot and those of the queue.
Distinct == \A a, b \in 1..Len(enqueued) : enqueued[a] = enqueued[b] => a = b

QueueLast ==
  /\ Len(queue) <= Len(enqueued)
  /\ \A i \in 1..Len(queue) : queue[i] = enqueued[Len(enqueued) - Len(queue) + i]

DoneUpTo(k) == \A i \in 1..Len(enqueued) : enqueued[i] \in done <=> i <= k

SnapNext(d) ==
  /\ Behind(d) >= 0
  /\ \A i \in 1..Len(drain[d].snap) : drain[d].snap[i] = enqueued[Behind(d) + i]

InLine ==
  /\ Distinct /\ QueueLast /\ done \subseteq Seen(enqueued)
  /\ \A d \in Drains : Busy(d) => SnapNext(d) /\ DoneUpTo(Behind(d))
  /\ (\A d \in Drains : ~Busy(d)) => DoneUpTo(Len(enqueued) - Len(queue))

\* What is still to be told of the job at hand, at most.
Ahead(d) ==
  LET r == drain[d]
      late == {<<Slack, "message">>}
  IN CASE r.at \in {"type", "users", "prefs", "insert"} -> Recipients
       [] r.at = "mail"  -> (r.left \X {"mail"}) \cup (Hooks \X {"hook"}) \cup late
       [] r.at = "hooks" -> (Hooks \X {"hook"}) \cup late
       [] r.at \in {"next", "stats"} -> (r.left \X {"hook"}) \cup late
       [] r.at = "post"  -> ((r.left \cup {r.hook}) \X {"hook"}) \cup late
       [] OTHER -> late

\* Everybody was told of jobs that are done or at hand, in their order, and not
\* yet of the job at hand if that is to come.
Known(j) == j \in done \/ \E d \in Drains : Busy(d) /\ j = Current(d)

Sorted(t) ==
  \A i \in 2..Len(told[t]) : \A a, b \in 1..Len(enqueued) :
    enqueued[a] = told[t][i - 1] /\ enqueued[b] = told[t][i] => a < b

Fresh(d) == \A t \in Recipients : t \in Ahead(d) => Current(d) \notin Seen(told[t])

InOrder ==
  /\ \A t \in Recipients : Sorted(t) /\ \A j \in Seen(told[t]) : Known(j)
  /\ \A d \in Drains : Busy(d) => Fresh(d)

\* Until a job is done, who is entitled to it and was not touched is so now.
Steady ==
  \A j \in Seen(enqueued) \ done : \A t \in Recipients :
    t[1] \notin touched[j] => (t \in promised[j] <=> t \in Entitled)

\* What is left of what a drain has read.
LeftOver ==
  \A d \in Drains :
    /\ drain[d].at \in {"insert", "mail"} => drain[d].left \subseteq Users
    /\ drain[d].at \in {"next", "post", "stats"} => drain[d].left \subseteq Hooks
    /\ drain[d].at \in {"post", "stats"} => drain[d].hook \in Hooks \ drain[d].left

\* What a drain has read, and whom it has told of the job at hand, of those who
\* were not touched.
Calm(d, S) == {x \in S : x \notin touched[Current(d)]}
Told(d, x, c) == Current(d) \in Seen(told[<<x, c>>])
Due(x, c) == <<x, c>> \in Entitled

Chosen(d) ==
  LET r == drain[d]
  IN /\ r.at # "type" => (Calm(d, Users \cup Hooks \cup {Slack}) # {} => enabled)
     /\ r.at = "prefs" => \A u \in Calm(d, Users) : u \in r.users <=> u \in DOMAIN users
     /\ r.at = "insert" => \A u \in Calm(d, Users) :
          (u \in r.users <=> Due(u, "app")) /\ (u \in r.left <=> Due(u, "mail"))

UsersTold(d) ==
  LET r == drain[d]
  IN /\ r.at = "mail" => \A u \in Calm(d, Users) :
          /\ Told(d, u, "app") <=> Due(u, "app")
          /\ (Told(d, u, "mail") \/ u \in r.left) <=> Due(u, "mail")
     /\ r.at \in {"hooks", "next", "post", "stats", "slack"} => \A u \in Calm(d, Users) :
          (Told(d, u, "app") <=> Due(u, "app")) /\ (Told(d, u, "mail") <=> Due(u, "mail"))

HooksTold(d) ==
  LET r == drain[d]
  IN /\ r.at \in {"next", "stats"} => \A h \in Calm(d, Hooks) :
          (Told(d, h, "hook") \/ h \in r.left) <=> Due(h, "hook")
     /\ r.at = "stats" /\ r.hook \in Calm(d, Hooks) => Due(r.hook, "hook")
     /\ r.at = "post" => \A h \in Calm(d, Hooks) :
          (Told(d, h, "hook") \/ h \in r.left \/ h = r.hook) <=> Due(h, "hook")
     /\ r.at = "slack" => \A h \in Calm(d, Hooks) :
          /\ Told(d, h, "hook") => Due(h, "hook")
          /\ Due(h, "hook") => Told(d, h, "hook") \/ Cut(Current(d), "hooks")

OnTheWay == \A d \in Drains : Busy(d) => Chosen(d) /\ UsersTold(d) /\ HooksTold(d)

\* The inductive invariant of the queue.
FanOutInv ==
  /\ QueueTypes /\ RowTypes /\ OneDrain /\ InLine /\ LeftOver /\ InOrder /\ Steady /\ OnTheWay
  /\ \A j \in done : Reaches(j)
  /\ Explained /\ FlushedAll

----------------------------------------------------------------------------
\* A step of a drain within its job, for the queue.
Works(d) ==
  /\ Busy(d) /\ drain'[d].at # "idle" /\ drain'[d].snap = drain[d].snap
  /\ drain' \in [Drains -> DrainRows]
  /\ \A e \in Drains : e # d => drain'[e] = drain[e]
  /\ UNCHANGED <<queue, draining, done, enqueued>>

\* What is put for a drain within its job.
LEMMA PutWorks ==
  ASSUME QueueTypes, NEW d \in Drains, Busy(d),
         NEW r \in DrainRows, r.at # "idle", r.snap = drain[d].snap, Put(d, r),
         UNCHANGED <<queue, draining, done, enqueued>>
  PROVE  Works(d) /\ drain'[d] = r
BY DEF QueueTypes, Busy, Put, Works

\* Where each step of a job leaves its drain.
LEMMA ReadTypeWorks ==
  ASSUME QueueTypes, RowTypes, NEW d \in Drains, ReadType(d), ~Return(d)
  PROVE  /\ Works(d) /\ enabled
         /\ drain'[d].at = "users"
<1>1. PICK r \in DrainRows : r = drain[d]
  BY DEF QueueTypes
<1>2. PICK n \in DrainRows : n = [r EXCEPT !.at = "users"]
  BY <1>1 DEF DrainRows, Stages, RowTypes
<1>3. /\ n.snap = r.snap
      /\ n.at = "users"
  BY <1>2 DEF DrainRows
<1>8. Put(d, n) /\ Busy(d) /\ UNCHANGED <<queue, draining, done, enqueued>>
  BY <1>1, <1>2 DEF ReadType, Advance, At, Busy, Past
<1>9. n.at # "idle"
  BY <1>1, <1>3 DEF At
<1>10. Works(d) /\ drain'[d] = n
  BY <1>1, <1>3, <1>8, <1>9, PutWorks
<1> QED
  BY <1>1, <1>2, <1>3, <1>10 DEF ReadType, Advance, At

\* The users are read.
LEMMA ReadUsersWorks ==
  ASSUME QueueTypes, RowTypes, NEW d \in Drains, ReadUsers(d)
  PROVE  /\ Works(d)
         /\ drain'[d].at = "prefs" /\ drain'[d].users = DOMAIN users
<1>1. PICK r \in DrainRows : r = drain[d]
  BY DEF QueueTypes
<1>2. PICK n \in DrainRows : n = [r EXCEPT !.at = "prefs", !.users = DOMAIN users]
  BY <1>1 DEF DrainRows, Stages, RowTypes
<1>3. /\ n.snap = r.snap
      /\ n.at = "prefs" /\ n.users = DOMAIN users
  BY <1>2 DEF DrainRows
<1>8. Put(d, n) /\ Busy(d) /\ UNCHANGED <<queue, draining, done, enqueued>>
  BY <1>1, <1>2 DEF ReadUsers, At, Busy, Past
<1>9. n.at # "idle"
  BY <1>1, <1>3 DEF At
<1>10. Works(d) /\ drain'[d] = n
  BY <1>1, <1>3, <1>8, <1>9, PutWorks
<1> QED
  BY <1>1, <1>2, <1>3, <1>10 DEF ReadUsers, At

\* The preferences are read.
LEMMA ReadPreferencesWorks ==
  ASSUME QueueTypes, RowTypes, NEW d \in Drains, ReadPreferences(d)
  PROVE  /\ Works(d)
         /\ drain'[d].users = {u \in drain[d].users : InApp(PrefRead(u))}
         /\ drain'[d].left = {u \in drain'[d].users : Mails(PrefRead(u))}
         /\ drain'[d].at = IF drain'[d].users = {} THEN "hooks" ELSE "insert"
<1>1. PICK r \in DrainRows : r = drain[d]
  BY DEF QueueTypes
<1>4. PICK to : to = {u \in r.users : InApp(PrefRead(u))}
  OBVIOUS
<1>5. PICK ls : ls = {u \in to : Mails(PrefRead(u))}
  OBVIOUS
<1>6. PICK a : a = IF to = {} THEN "hooks" ELSE "insert"
  OBVIOUS
<1>7. to \subseteq Users /\ ls \subseteq Users /\ a \in Stages \ {"idle"}
  BY <1>1, <1>4, <1>5, <1>6 DEF DrainRows, Stages
<1>2. PICK n \in DrainRows : n = [r EXCEPT !.at = a, !.users = to, !.left = ls]
  BY <1>4, <1>5, <1>6, <1>7, <1>1 DEF DrainRows, Stages, RowTypes
<1>3. /\ n.snap = r.snap
      /\ n.at = a /\ n.users = to /\ n.left = ls
  BY <1>2 DEF DrainRows
<1>8. Put(d, n) /\ Busy(d) /\ UNCHANGED <<queue, draining, done, enqueued>>
  BY <1>4, <1>5, <1>6, <1>7, <1>1, <1>2 DEF ReadPreferences, At, Busy, Past
<1>9. n.at # "idle"
  BY <1>4, <1>5, <1>6, <1>7, <1>1, <1>3 DEF At
<1>10. Works(d) /\ drain'[d] = n
  BY <1>1, <1>3, <1>8, <1>9, PutWorks
<1> QED
  BY <1>4, <1>5, <1>6, <1>7, <1>1, <1>2, <1>3, <1>10 DEF ReadPreferences, At

\* The rows are inserted.
LEMMA InsertWorks ==
  ASSUME QueueTypes, RowTypes, NEW d \in Drains, Insert(d),
         Advance(d, IF drain[d].left = {} THEN "hooks" ELSE "mail")
  PROVE  /\ Works(d)
         /\ drain'[d].users = drain[d].users /\ drain'[d].left = drain[d].left
         /\ drain'[d].at = IF drain[d].left = {} THEN "hooks" ELSE "mail"
<1>1. PICK r \in DrainRows : r = drain[d]
  BY DEF QueueTypes
<1>4. PICK a : a = IF r.left = {} THEN "hooks" ELSE "mail"
  OBVIOUS
<1>5. a \in Stages \ {"idle"}
  BY <1>4 DEF Stages
<1>2. PICK n \in DrainRows : n = [r EXCEPT !.at = a]
  BY <1>4, <1>5, <1>1 DEF DrainRows, Stages, RowTypes
<1>3. /\ n.snap = r.snap
      /\ n.at = a /\ n.users = r.users /\ n.left = r.left
  BY <1>2 DEF DrainRows
<1>8. Put(d, n) /\ Busy(d) /\ UNCHANGED <<queue, draining, done, enqueued>>
  BY <1>4, <1>5, <1>1, <1>2 DEF Insert, Advance, At, Busy, Past
<1>9. n.at # "idle"
  BY <1>4, <1>5, <1>1, <1>3 DEF At
<1>10. Works(d) /\ drain'[d] = n
  BY <1>1, <1>3, <1>8, <1>9, PutWorks
<1> QED
  BY <1>4, <1>5, <1>1, <1>2, <1>3, <1>10 DEF Insert, Advance, At

\* An email is sent.
LEMMA SendMailWorks ==
  ASSUME QueueTypes, RowTypes, NEW d \in Drains, NEW u \in drain[d].left, At(d, "mail"),
         Past' = Past,
         Put(d, [drain[d] EXCEPT !.left = @ \ {u},
                                 !.at = IF drain[d].left = {u} THEN "hooks" ELSE "mail"]),
         UNCHANGED <<queue, draining, done>>
  PROVE  /\ Works(d)
         /\ drain'[d].left = drain[d].left \ {u}
         /\ drain'[d].at = IF drain[d].left = {u} THEN "hooks" ELSE "mail"
<1>1. PICK r \in DrainRows : r = drain[d]
  BY DEF QueueTypes
<1>4. PICK a : a = IF r.left = {u} THEN "hooks" ELSE "mail"
  OBVIOUS
<1>5. PICK ls : ls = r.left \ {u}
  OBVIOUS
<1>6. a \in Stages \ {"idle"} /\ ls \subseteq Users \cup Hooks
  BY <1>1, <1>4, <1>5 DEF Stages, DrainRows
<1>2. PICK n \in DrainRows : n = [r EXCEPT !.left = ls, !.at = a]
  BY <1>4, <1>5, <1>6, <1>1 DEF DrainRows, Stages, RowTypes
<1>3. /\ n.snap = r.snap
      /\ n.at = a /\ n.left = ls
  BY <1>2 DEF DrainRows
<1>8. Put(d, n) /\ Busy(d) /\ UNCHANGED <<queue, draining, done, enqueued>>
  BY <1>4, <1>5, <1>6, <1>1, <1>2 DEF Stages, At, Busy, Past
<1>9. n.at # "idle"
  BY <1>4, <1>5, <1>6, <1>1, <1>3 DEF At
<1>10. Works(d) /\ drain'[d] = n
  BY <1>1, <1>3, <1>8, <1>9, PutWorks
<1> QED
  BY <1>4, <1>5, <1>6, <1>1, <1>2, <1>3, <1>10 DEF Stages, At

\* The webhooks are read.
LEMMA ReadHooksWorks ==
  ASSUME QueueTypes, RowTypes, NEW d \in Drains, ReadHooks(d)
  PROVE  /\ Works(d)
         /\ drain'[d].left = hooks
         /\ drain'[d].at = IF hooks = {} THEN "slack" ELSE "next"
<1>1. PICK r \in DrainRows : r = drain[d]
  BY DEF QueueTypes
<1>4. PICK a : a = IF hooks = {} THEN "slack" ELSE "next"
  OBVIOUS
<1>5. a \in Stages \ {"idle"}
  BY <1>4 DEF Stages
<1>2. PICK n \in DrainRows : n = [r EXCEPT !.at = a, !.left = hooks]
  BY <1>4, <1>5, <1>1 DEF DrainRows, Stages, RowTypes
<1>3. /\ n.snap = r.snap
      /\ n.at = a /\ n.left = hooks
  BY <1>2 DEF DrainRows
<1>8. Put(d, n) /\ Busy(d) /\ UNCHANGED <<queue, draining, done, enqueued>>
  BY <1>4, <1>5, <1>1, <1>2 DEF ReadHooks, At, Busy, Past
<1>9. n.at # "idle"
  BY <1>4, <1>5, <1>1, <1>3 DEF At
<1>10. Works(d) /\ drain'[d] = n
  BY <1>1, <1>3, <1>8, <1>9, PutWorks
<1> QED
  BY <1>4, <1>5, <1>1, <1>2, <1>3, <1>10 DEF ReadHooks, At

\* The next webhook is taken.
LEMMA NextHookWorks ==
  ASSUME QueueTypes, RowTypes, NEW d \in Drains, NEW h \in drain[d].left, At(d, "next"),
         Past' = Past,
         h \in Hooks,
         Put(d, [drain[d] EXCEPT !.at = "post", !.hook = h, !.tries = 0, !.left = @ \ {h}]),
         UNCHANGED <<queue, draining, done>>
  PROVE  /\ Works(d)
         /\ drain'[d].at = "post" /\ drain'[d].hook = h /\ drain'[d].left = drain[d].left \ {h}
<1>1. PICK r \in DrainRows : r = drain[d]
  BY DEF QueueTypes
<1>4. PICK ls : ls = r.left \ {h}
  OBVIOUS
<1>5. ls \subseteq Users \cup Hooks /\ h \in Hooks
  BY <1>1, <1>4 DEF DrainRows
<1>2. PICK n \in DrainRows : n = [r EXCEPT !.at = "post", !.hook = h, !.tries = 0, !.left = ls]
  BY <1>4, <1>5, <1>1 DEF DrainRows, Stages, RowTypes
<1>3. /\ n.snap = r.snap
      /\ n.at = "post" /\ n.hook = h /\ n.left = ls
  BY <1>2 DEF DrainRows
<1>8. Put(d, n) /\ Busy(d) /\ UNCHANGED <<queue, draining, done, enqueued>>
  BY <1>4, <1>5, <1>1, <1>2 DEF Stages, At, Busy, Past
<1>9. n.at # "idle"
  BY <1>4, <1>5, <1>1, <1>3 DEF At
<1>10. Works(d) /\ drain'[d] = n
  BY <1>1, <1>3, <1>8, <1>9, PutWorks
<1> QED
  BY <1>4, <1>5, <1>1, <1>2, <1>3, <1>10 DEF Stages, At

\* The webhook was called.
LEMMA PostWorks ==
  ASSUME QueueTypes, RowTypes, NEW d \in Drains, At(d, "post"), Past' = Past,
         Put(d, [drain[d] EXCEPT !.at = "stats", !.tries = 0]),
         UNCHANGED <<queue, draining, done>>
  PROVE  /\ Works(d)
         /\ drain'[d].at = "stats" /\ drain'[d].hook = drain[d].hook
         /\ drain'[d].left = drain[d].left
<1>1. PICK r \in DrainRows : r = drain[d]
  BY DEF QueueTypes
<1>2. PICK n \in DrainRows : n = [r EXCEPT !.at = "stats", !.tries = 0]
  BY <1>1 DEF DrainRows, Stages, RowTypes
<1>3. /\ n.snap = r.snap
      /\ n.at = "stats" /\ n.hook = r.hook /\ n.left = r.left
  BY <1>2 DEF DrainRows
<1>8. Put(d, n) /\ Busy(d) /\ UNCHANGED <<queue, draining, done, enqueued>>
  BY <1>1, <1>2 DEF Stages, At, Busy, Past
<1>9. n.at # "idle"
  BY <1>1, <1>3 DEF At
<1>10. Works(d) /\ drain'[d] = n
  BY <1>1, <1>3, <1>8, <1>9, PutWorks
<1> QED
  BY <1>1, <1>2, <1>3, <1>10 DEF Stages, At

\* The webhook is called again.
LEMMA PostAgainWorks ==
  ASSUME QueueTypes, RowTypes, NEW d \in Drains, At(d, "post"), Past' = Past,
         Put(d, [drain[d] EXCEPT !.tries = @ + 1]),
         UNCHANGED <<queue, draining, done>>
  PROVE  /\ Works(d)
         /\ drain'[d].at = "post" /\ drain'[d].hook = drain[d].hook
         /\ drain'[d].left = drain[d].left
<1>1. PICK r \in DrainRows : r = drain[d]
  BY DEF QueueTypes
<1>4. PICK k \in Nat : k = r.tries + 1
  BY <1>1 DEF DrainRows
<1>2. PICK n \in DrainRows : n = [r EXCEPT !.tries = k]
  BY <1>4, <1>1 DEF DrainRows, Stages, RowTypes
<1>3. /\ n.snap = r.snap
      /\ n.at = r.at /\ n.hook = r.hook /\ n.left = r.left
  BY <1>2 DEF DrainRows
<1>8. Put(d, n) /\ Busy(d) /\ UNCHANGED <<queue, draining, done, enqueued>>
  BY <1>4, <1>1, <1>2 DEF Stages, At, Busy, Past
<1>9. n.at # "idle"
  BY <1>4, <1>1, <1>3 DEF At
<1>10. Works(d) /\ drain'[d] = n
  BY <1>1, <1>3, <1>8, <1>9, PutWorks
<1> QED
  BY <1>4, <1>1, <1>2, <1>3, <1>10 DEF Stages, At

\* The webhooks are left.
LEMMA EndHooksWorks ==
  ASSUME QueueTypes, NEW d \in Drains, Busy(d), NEW why, EndHooks(d, why),
         UNCHANGED <<queue, draining, done, enqueued>>
  PROVE  /\ Works(d)
         /\ drain'[d].at = "slack" /\ drain'[d].left = {}
         /\ cut' = cut \cup {<<Current(d), "hooks", why>>}
<1>1. PICK r \in DrainRows : r = drain[d]
  BY DEF QueueTypes
<1>2. PICK n \in DrainRows :
        n = [r EXCEPT !.at = "slack", !.hook = "none", !.tries = 0, !.left = {}]
  BY <1>1 DEF DrainRows, Stages
<1>3. n.snap = r.snap /\ n.at = "slack" /\ n.left = {}
  BY <1>2 DEF DrainRows
<1>4. Put(d, n) /\ cut' = cut \cup {<<Current(d), "hooks", why>>}
  BY <1>1, <1>2 DEF EndHooks
<1>5. Works(d) /\ drain'[d] = n
  BY <1>1, <1>2, <1>3, <1>4, PutWorks
<1> QED BY <1>3, <1>4, <1>5

\* A call fails among the webhooks.
LEMMA HooksFailWorks ==
  ASSUME QueueTypes, NEW d \in Drains, HooksFail(d)
  PROVE  /\ Works(d) /\ told' = told /\ drain[d].at \in {"hooks", "post", "stats"}
         /\ drain'[d].at = "slack" /\ drain'[d].left = {}
         /\ cut' = cut \cup {<<Current(d), "hooks", "fault">>}
<1>1. /\ Busy(d) /\ EndHooks(d, "fault") /\ told' = told
      /\ drain[d].at \in {"hooks", "post", "stats"}
      /\ UNCHANGED <<queue, draining, done, enqueued>>
  BY DEF HooksFail, Busy, Past
<1> QED BY <1>1, EndHooksWorks

\* A query fails before the emails.
LEMMA JobFailsShape ==
  ASSUME NEW d \in Drains, JobFails(d)
  PROVE  /\ Busy(d) /\ Return(d) /\ told' = told /\ enqueued' = enqueued
         /\ drain[d].at \in {"type", "users", "prefs", "insert"}
         /\ cut' = cut \cup {<<Current(d), "job", "fault">>}
BY DEF JobFails, EndJob, Busy, Past

\* The counters are updated.
LEMMA CountPostWorks ==
  ASSUME QueueTypes, RowTypes, NEW d \in Drains, CountPost(d)
  PROVE  /\ Works(d)
         /\ drain[d].hook \in hooks =>
              /\ drain'[d].left = drain[d].left /\ cut' = cut
              /\ drain'[d].at = IF drain[d].left = {} THEN "slack" ELSE "next"
         /\ drain[d].hook \notin hooks =>
              /\ drain'[d].left = {} /\ cut' = cut \cup {<<Current(d), "hooks", "gone">>}
              /\ drain'[d].at = "slack"
<1>1. PICK r \in DrainRows : r = drain[d]
  BY DEF QueueTypes
<1>2. Busy(d) /\ UNCHANGED <<queue, draining, done, enqueued>>
  BY DEF CountPost, At, Busy, Past
<1>3. CASE r.hook \in hooks
  <2>1. PICK a \in Stages \ {"idle"} : a = IF r.left = {} THEN "slack" ELSE "next"
    BY DEF Stages
  <2>2. PICK n \in DrainRows : n = [r EXCEPT !.at = a, !.hook = "none"]
    BY <1>1, <2>1 DEF DrainRows
  <2>3. n.snap = r.snap /\ n.at = a /\ n.left = r.left
    BY <2>2 DEF DrainRows
  <2>4. Put(d, n) /\ cut' = cut
    BY <1>1, <1>3, <2>1, <2>2 DEF CountPost
  <2>5. Works(d) /\ drain'[d] = n
    <3>1. n.at # "idle"
      BY <2>1, <2>3
    <3> QED BY <1>1, <1>2, <2>3, <2>4, <3>1, PutWorks
  <2> QED BY <1>1, <1>3, <2>1, <2>3, <2>4, <2>5
<1>4. CASE r.hook \notin hooks
  <2>1. EndHooks(d, "gone")
    BY <1>1, <1>4 DEF CountPost
  <2> QED BY <1>1, <1>2, <1>4, <2>1, EndHooksWorks
<1> QED BY <1>3, <1>4


\* An email: one of those left is told, and less is left.
LEMMA MailSent ==
  ASSUME QueueTypes, RowTypes, NEW d \in Drains, SendMail(d)
  PROVE  \E u \in drain[d].left :
           /\ Works(d) /\ Tell(d, {<<u, "mail">>})
           /\ drain'[d].left = drain[d].left \ {u}
           /\ drain'[d].at = IF drain[d].left = {u} THEN "hooks" ELSE "mail"
<1>1. PICK u \in drain[d].left :
        /\ Tell(d, {<<u, "mail">>})
        /\ Put(d, [drain[d] EXCEPT !.left = @ \ {u},
                                   !.at = IF drain[d].left = {u} THEN "hooks" ELSE "mail"])
  BY DEF SendMail
<1>2. /\ Works(d) /\ drain'[d].left = drain[d].left \ {u}
      /\ drain'[d].at = IF drain[d].left = {u} THEN "hooks" ELSE "mail"
  BY <1>1, SendMailWorks DEF SendMail
<1> QED BY <1>1, <1>2

\* The next webhook: one of those left is at hand, and less is left.
LEMMA HookTaken ==
  ASSUME QueueTypes, RowTypes, NEW d \in Drains, NextHook(d), drain[d].left \subseteq Hooks
  PROVE  \E h \in drain[d].left :
           /\ Works(d) /\ told' = told
           /\ drain'[d].at = "post" /\ drain'[d].hook = h /\ drain'[d].left = drain[d].left \ {h}
<1>1. PICK h \in drain[d].left :
        Put(d, [drain[d] EXCEPT !.at = "post", !.hook = h, !.tries = 0, !.left = @ \ {h}])
  BY DEF NextHook
<1>2. /\ Works(d) /\ drain'[d].at = "post" /\ drain'[d].hook = h
      /\ drain'[d].left = drain[d].left \ {h}
  BY <1>1, NextHookWorks DEF NextHook
<1> QED BY <1>1, <1>2 DEF NextHook

\* A POST: the webhook at hand is told, or called again.
LEMMA HookPosted ==
  ASSUME QueueTypes, RowTypes, NEW d \in Drains, PostHook(d)
  PROVE  /\ Works(d) /\ drain'[d].hook = drain[d].hook /\ drain'[d].left = drain[d].left
         /\ \/ drain'[d].at = "stats" /\ Tell(d, {<<drain[d].hook, "hook">>})
            \/ drain'[d].at = "post" /\ told' = told
<1>1. Past' = Past /\ UNCHANGED <<queue, draining, done>> /\ At(d, "post")
  BY DEF PostHook
<1>2. CASE /\ Tell(d, {<<drain[d].hook, "hook">>})
           /\ Put(d, [drain[d] EXCEPT !.at = "stats", !.tries = 0])
  BY <1>1, <1>2, PostWorks
<1>3. CASE told' = told /\ Put(d, [drain[d] EXCEPT !.tries = @ + 1])
  BY <1>1, <1>3, PostAgainWorks
<1> QED BY <1>2, <1>3 DEF PostHook

\* A drain begins, is at work, or has ended a job.
LEMMA Shapes ==
  ASSUME QueueTypes, RowTypes, LeftOver, NEW d \in Drains, DrainAction(d)
  PROVE  \/ Drain(d)
         \/ Works(d)
         \/ Busy(d) /\ Return(d) /\ enqueued' = enqueued
<1>1. CASE ReadType(d)
  BY <1>1, ReadTypeWorks DEF ReadType, At, Busy, Past
<1>2. CASE Insert(d)
  BY <1>2, InsertWorks DEF Insert, EndJob, At, Busy, Past
<1>3. CASE SendMail(d)
  BY <1>3, MailSent
<1>4. CASE NextHook(d)
  BY <1>4, HookTaken DEF NextHook, At, LeftOver
<1>5. CASE PostHook(d)
  BY <1>5, HookPosted
<1>6. CASE SendSlack(d)
  BY <1>6 DEF SendSlack, At, Busy, Past
<1> QED
  BY <1>1, <1>2, <1>3, <1>4, <1>5, <1>6, ReadUsersWorks, ReadPreferencesWorks, ReadHooksWorks,
     CountPostWorks, HooksFailWorks, JobFailsShape DEF DrainStep, DrainAction

\* A snapshot that is begun, for the queue.
LEMMA BeginRow ==
  ASSUME QueueTypes, NEW d \in Drains, NEW s \in Seq(Jobs), Begin(d, s)
  PROVE  /\ drain' \in [Drains -> DrainRows]
         /\ drain'[d].at = "type" /\ drain'[d].snap = s
         /\ \A e \in Drains : e # d => drain'[e] = drain[e]
<1>1. PICK n \in DrainRows : n = [NoDrain EXCEPT !.at = "type", !.snap = s]
  BY DEF NoDrain, DrainRows, Stages
<1>2. n.at = "type" /\ n.snap = s
  BY <1>1 DEF NoDrain
<1> QED BY <1>1, <1>2 DEF QueueTypes, Begin, Put

\* The row of a drain that has ended.
LEMMA EndRow ==
  ASSUME QueueTypes, NEW d \in Drains, Put(d, NoDrain)
  PROVE  /\ drain' \in [Drains -> DrainRows]
         /\ drain'[d].at = "idle"
         /\ \A e \in Drains : e # d => drain'[e] = drain[e]
<1>1. PICK n \in DrainRows : n = NoDrain
  <2>1. <<>> \in Seq(Jobs)
    OBVIOUS
  <2> QED BY <2>1 DEF NoDrain, DrainRows, Stages
<1>2. n.at = "idle"
  BY <1>1 DEF NoDrain
<1> QED BY <1>1, <1>2 DEF QueueTypes, Put

\* The part of the invariant about the line of jobs.
QueueInv == QueueTypes /\ OneDrain /\ InLine

\* A call of enqueue adds its job at the end of the line.
LEMMA EnqueueLine ==
  ASSUME QueueInv, NEW j \in Jobs, Enqueue(j)
  PROVE  QueueInv'
<1> USE DEF QueueInv
<1>1. QueueTypes'
  BY DEF QueueTypes, Enqueue
<1>2. OneDrain'
  BY DEF OneDrain, Enqueue, Busy
<1>3. InLine'
  <2>1. /\ Len(enqueued') = Len(enqueued) + 1 /\ Len(queue') = Len(queue) + 1
        /\ \A i \in 1..Len(enqueued) : enqueued'[i] = enqueued[i]
        /\ enqueued'[Len(enqueued) + 1] = j
        /\ \A i \in 1..Len(queue) : queue'[i] = queue[i]
        /\ queue'[Len(queue) + 1] = j
        /\ Len(enqueued) \in Nat /\ Len(queue) \in Nat
        /\ drain' = drain /\ done' = done
    BY DEF QueueTypes, Enqueue
  <2>2. \A i \in 1..Len(enqueued) : enqueued[i] # j
    BY DEF Enqueue, Seen
  <2>3. Distinct'
    BY <2>1, <2>2 DEF InLine, Distinct
  <2>4. QueueLast'
    <3> SUFFICES ASSUME NEW i \in 1..Len(queue')
                 PROVE  queue'[i] = enqueued'[Len(enqueued') - Len(queue') + i]
      BY <2>1 DEF InLine, QueueLast
    <3>1. CASE i = Len(queue) + 1
      BY <2>1, <3>1
    <3>2. CASE i \in 1..Len(queue)
      <4>1. Len(enqueued) - Len(queue) + i \in 1..Len(enqueued)
        BY <2>1, <3>2 DEF InLine, QueueLast
      <4> QED BY <2>1, <3>2, <4>1 DEF InLine, QueueLast
    <3> QED BY <2>1, <3>1, <3>2
  <2>5. j \notin done /\ done' \subseteq Seen(enqueued)'
    BY <2>1, <2>2 DEF InLine, Seen
  <2>6. ASSUME NEW k \in Int, k <= Len(enqueued), DoneUpTo(k)
        PROVE  DoneUpTo(k)'
    BY <2>1, <2>5, <2>6 DEF DoneUpTo
  <2>7. ASSUME NEW d \in Drains, Busy(d)
        PROVE  SnapNext(d)' /\ DoneUpTo(Behind(d))'
    <3>1. Len(drain[d].snap) \in Nat
      BY DEF QueueTypes, DrainRows
    <3>2. Behind(d)' = Behind(d) /\ Behind(d) \in Int /\ Behind(d) <= Len(enqueued)
      BY <2>1, <3>1 DEF Behind
    <3>3. SnapNext(d) /\ DoneUpTo(Behind(d))
      BY <2>7 DEF InLine
    <3>4. \A i \in 1..Len(drain[d].snap) : Behind(d) + i \in 1..Len(enqueued)
      BY <2>1, <3>1, <3>3 DEF Behind, SnapNext
    <3>5. SnapNext(d)'
      BY <2>1, <3>2, <3>3, <3>4 DEF SnapNext
    <3> QED BY <2>6, <3>2, <3>3, <3>5
  <2>8. (\A d \in Drains : ~Busy(d)) => DoneUpTo(Len(enqueued) - Len(queue))'
    BY <2>1, <2>6 DEF InLine
  <2> QED BY <2>1, <2>3, <2>4, <2>5, <2>7, <2>8 DEF InLine, Busy
<1> QED BY <1>1, <1>2, <1>3

\* A step within a job moves no job in the line.
LEMMA WorksLine ==
  ASSUME QueueInv, NEW d \in Drains, Works(d)
  PROVE  QueueInv'
<1> USE DEF QueueInv
<1>1. QueueTypes'
  BY DEF QueueTypes, Works
<1>2. \A e \in Drains : (Busy(e)' <=> Busy(e)) /\ drain'[e].snap = drain[e].snap
  BY DEF Works, Busy
<1>3. OneDrain'
  BY <1>2 DEF OneDrain, Works
<1>4. \A e \in Drains : Behind(e)' = Behind(e)
  BY <1>2 DEF Works, Behind
<1>5. \A e \in Drains : SnapNext(e)' <=> SnapNext(e)
  BY <1>2, <1>4 DEF SnapNext, Works
<1>6. Distinct' /\ QueueLast' /\ done' \subseteq Seen(enqueued)'
  BY DEF InLine, Distinct, QueueLast, Works, Seen
<1>7. \A k : DoneUpTo(k)' <=> DoneUpTo(k)
  BY DEF DoneUpTo, Works
<1>8. InLine'
  BY <1>2, <1>4, <1>5, <1>6, <1>7 DEF InLine, Works
<1> QED BY <1>1, <1>3, <1>8

\* The queue becomes the snapshot of a drain, when what was done before it is done.
LEMMA TakeLine ==
  ASSUME QueueInv, NEW d \in Drains, Take(d), enqueued' = enqueued, draining', queue # <<>>,
         draining' \in BOOLEAN,
         \A e \in Drains : e # d => ~Busy(e), done' \subseteq Seen(enqueued),
         \A i \in 1..Len(enqueued) : enqueued[i] \in done' <=> i <= Len(enqueued) - Len(queue)
  PROVE  QueueInv'
<1> USE DEF QueueInv
<1>1. /\ queue \in Seq(Jobs) /\ enqueued \in Seq(Jobs) /\ queue' = <<>>
      /\ Len(queue) \in Nat /\ Len(enqueued) \in Nat /\ Len(queue') = 0
  BY DEF QueueTypes, Take
<1>2. /\ drain' \in [Drains -> DrainRows]
      /\ drain'[d].at = "type" /\ drain'[d].snap = queue
      /\ \A e \in Drains : e # d => drain'[e] = drain[e]
  BY <1>1, BeginRow DEF Take
<1>3. QueueTypes'
  BY <1>1, <1>2 DEF QueueTypes
<1>4. Busy(d)' /\ \A e \in Drains : e # d => ~Busy(e)'
  BY <1>2 DEF Busy
<1>5. OneDrain'
  BY <1>2, <1>4 DEF OneDrain
<1>6. Behind(d)' = Len(enqueued) - Len(queue)
  BY <1>1, <1>2 DEF Behind
<1>7. SnapNext(d)'
  BY <1>1, <1>2, <1>6 DEF SnapNext, InLine, QueueLast
<1>8. DoneUpTo(Behind(d))'
  BY <1>6 DEF DoneUpTo
<1>9. Distinct' /\ QueueLast' /\ done' \subseteq Seen(enqueued)'
  BY <1>1 DEF InLine, Distinct, QueueLast, Seen
<1>10. InLine'
  BY <1>4, <1>7, <1>8, <1>9 DEF InLine
<1> QED BY <1>3, <1>5, <1>10

\* A drain begins.
LEMMA DrainLine ==
  ASSUME QueueInv, NEW d \in Drains, Drain(d)
  PROVE  QueueInv'
<1>1. \A e \in Drains : ~Busy(e)
  BY DEF QueueInv, OneDrain, Drain
<1>2. done \subseteq Seen(enqueued) /\ DoneUpTo(Len(enqueued) - Len(queue))
  BY <1>1 DEF QueueInv, InLine
<1>3. draining' /\ draining' \in BOOLEAN /\ queue # <<>> /\ Take(d)
  BY DEF Drain
<1>4. enqueued' = enqueued /\ done' = done
  BY DEF Drain, Past
<1> QED BY <1>1, <1>2, <1>3, <1>4, TakeLine DEF DoneUpTo

\* The job at hand is the first that is not done.
LEMMA AtHand ==
  ASSUME QueueInv, NEW d \in Drains, Busy(d)
  PROVE  /\ Current(d) \in Jobs /\ Current(d) \notin done /\ Current(d) \in Seen(enqueued)
         /\ Behind(d) \in Nat /\ Behind(d) + 1 \in 1..Len(enqueued)
         /\ enqueued[Behind(d) + 1] = Current(d)
         /\ DoneUpTo(Behind(d)) /\ SnapNext(d)
         /\ Len(drain[d].snap) \in Nat \ {0} /\ drain[d].snap \in Seq(Jobs)
<1>1. drain[d].snap \in Seq(Jobs) /\ drain[d].snap # <<>>
  BY DEF QueueInv, QueueTypes, DrainRows, OneDrain
<1>2. Len(drain[d].snap) \in Nat \ {0} /\ Current(d) = drain[d].snap[1] /\ Current(d) \in Jobs
  BY <1>1 DEF Current
<1>3. SnapNext(d) /\ DoneUpTo(Behind(d))
  BY DEF QueueInv, InLine
<1>4. Len(enqueued) \in Nat /\ Len(queue) \in Nat
  BY DEF QueueInv, QueueTypes
<1>5. Behind(d) \in Nat /\ Behind(d) + 1 \in 1..Len(enqueued)
  BY <1>2, <1>3, <1>4 DEF Behind, SnapNext
<1>6. enqueued[Behind(d) + 1] = Current(d)
  BY <1>2, <1>3 DEF SnapNext
<1>7. Current(d) \notin done /\ Current(d) \in Seen(enqueued)
  BY <1>3, <1>5, <1>6 DEF DoneUpTo, Seen
<1> QED BY <1>1, <1>2, <1>3, <1>5, <1>6, <1>7

\* The tail of a sequence.
LEMMA TailOf ==
  ASSUME NEW s \in Seq(Jobs), Len(s) # 0
  PROVE  /\ Tail(s) \in Seq(Jobs) /\ Len(Tail(s)) = Len(s) - 1
         /\ \A i \in 1..Len(Tail(s)) : Tail(s)[i] = s[i + 1]
         /\ Tail(s) = <<>> => Len(s) = 1
<1>1. s # <<>>
  OBVIOUS
<1>2. /\ Tail(s) \in Seq(Jobs) /\ Len(Tail(s)) = Len(s) - 1
      /\ \A i \in 1..Len(Tail(s)) : Tail(s)[i] = s[i + 1]
  BY <1>1, HeadTailProperties
<1>3. Len(s) \in Nat
  OBVIOUS
<1>4. Tail(s) = <<>> => Len(Tail(s)) = 0
  <2>1. Len(<<>>) = 0
    OBVIOUS
  <2> QED BY <2>1
<1>5. Tail(s) = <<>> => Len(s) = 1
  BY <1>2, <1>3, <1>4
<1> QED BY <1>2, <1>5

\* A job has ended.
LEMMA ReturnLine ==
  ASSUME QueueInv, NEW d \in Drains, Busy(d), Return(d), enqueued' = enqueued
  PROVE  QueueInv'
<1>1. /\ Current(d) \in Jobs /\ Current(d) \notin done /\ Current(d) \in Seen(enqueued)
      /\ Behind(d) \in Nat /\ Behind(d) + 1 \in 1..Len(enqueued)
      /\ enqueued[Behind(d) + 1] = Current(d)
      /\ DoneUpTo(Behind(d)) /\ SnapNext(d)
      /\ Len(drain[d].snap) \in Nat \ {0} /\ drain[d].snap \in Seq(Jobs)
  BY AtHand
<1>2. done' = done \cup {Current(d)}
  BY DEF Return
<1>3. done' \subseteq Seen(enqueued)
  BY <1>1, <1>2 DEF QueueInv, InLine
<1>4. \A i \in 1..Len(enqueued) : enqueued[i] \in done' <=> i <= Behind(d) + 1
  BY <1>1, <1>2 DEF QueueInv, InLine, Distinct, DoneUpTo
<1>5. \A e \in Drains : e # d => ~Busy(e)
  BY DEF QueueInv, OneDrain
<1>6. /\ queue \in Seq(Jobs) /\ enqueued \in Seq(Jobs)
      /\ Len(queue) \in Nat /\ Len(enqueued) \in Nat
  BY DEF QueueInv, QueueTypes
<1>7. draining /\ draining \in BOOLEAN
  BY DEF QueueInv, OneDrain, QueueTypes
<1>8. CASE Tail(drain[d].snap) # <<>>
  <2>1. Begin(d, Tail(drain[d].snap)) /\ queue' = queue /\ draining' = draining
    BY <1>8 DEF Return
  <2>2. PICK s \in Seq(Jobs) : s = Tail(drain[d].snap)
    BY <1>1, TailOf
  <2>3. /\ Len(s) \in Nat /\ Len(s) = Len(drain[d].snap) - 1
        /\ \A i \in 1..Len(s) : s[i] = drain[d].snap[i + 1]
    BY <1>1, <2>2, TailOf
  <2>4. /\ drain' \in [Drains -> DrainRows]
        /\ drain'[d].at = "type" /\ drain'[d].snap = s
        /\ \A e \in Drains : e # d => drain'[e] = drain[e]
    BY <2>1, <2>2, BeginRow DEF QueueInv
  <2>5. QueueTypes'
    BY <1>6, <1>7, <2>1, <2>4 DEF QueueTypes
  <2>6. Busy(d)' /\ \A e \in Drains : e # d => ~Busy(e)'
    BY <1>5, <2>4 DEF Busy
  <2>7. OneDrain'
    BY <1>7, <1>8, <2>1, <2>2, <2>4, <2>6 DEF OneDrain
  <2>8. Behind(d)' = Behind(d) + 1
    <3>1. PICK n \in Nat : n = Len(drain[d].snap)
      BY <1>1
    <3>2. /\ Len(drain'[d].snap) = n - 1 /\ Len(queue') = Len(queue)
          /\ Len(enqueued') = Len(enqueued)
      BY <2>1, <2>3, <2>4, <3>1
    <3> QED BY <1>6, <3>1, <3>2 DEF Behind
  <2>9. SnapNext(d)'
    <3>1. PICK n \in Nat, k \in Nat : n = Len(drain[d].snap) /\ k = Behind(d)
      BY <1>1
    <3>2. Len(s) = n - 1
      BY <2>3, <3>1
    <3>3. \A i \in 1..n : drain[d].snap[i] = enqueued[k + i]
      BY <1>1, <3>1 DEF SnapNext
    <3>4. ASSUME NEW i \in 1..Len(s)
          PROVE  s[i] = enqueued[k + 1 + i]
      <4>1. i + 1 \in 1..n /\ k + (i + 1) = k + 1 + i
        BY <3>1, <3>2
      <4>2. s[i] = drain[d].snap[i + 1]
        BY <2>3
      <4> QED BY <3>3, <4>1, <4>2
    <3> QED BY <2>4, <2>8, <3>1, <3>4 DEF SnapNext
  <2>10. DoneUpTo(Behind(d))'
    BY <1>4, <2>8 DEF DoneUpTo
  <2>11. Distinct' /\ QueueLast' /\ done' \subseteq Seen(enqueued)'
    BY <1>3, <2>1 DEF QueueInv, InLine, Distinct, QueueLast, Seen
  <2>12. InLine'
    BY <2>6, <2>9, <2>10, <2>11 DEF InLine
  <2> QED BY <2>5, <2>7, <2>12 DEF QueueInv
<1>9. CASE Tail(drain[d].snap) = <<>>
  <2>1. Len(drain[d].snap) = 1
    BY <1>1, <1>9, TailOf
  <2>2. Behind(d) + 1 = Len(enqueued) - Len(queue)
    BY <1>1, <1>6, <2>1 DEF Behind
  <2>3. CASE queue # <<>>
    <3>1. Take(d) /\ draining' = draining
      BY <1>9, <2>3 DEF Return
    <3> QED BY <1>3, <1>4, <1>5, <1>7, <2>2, <2>3, <3>1, TakeLine
  <2>4. CASE queue = <<>>
    <3>1. Put(d, NoDrain) /\ draining' = FALSE /\ queue' = queue
      BY <1>9, <2>4 DEF Return
    <3>2. /\ drain' \in [Drains -> DrainRows]
          /\ drain'[d].at = "idle"
          /\ \A e \in Drains : e # d => drain'[e] = drain[e]
      BY <3>1, EndRow DEF QueueInv
    <3>3. \A e \in Drains : ~Busy(e)'
      BY <1>5, <3>2 DEF Busy
    <3>4. QueueTypes'
      BY <1>6, <3>1, <3>2 DEF QueueTypes
    <3>5. OneDrain'
      BY <3>3 DEF OneDrain
    <3>6. DoneUpTo(Len(enqueued) - Len(queue))'
      BY <1>4, <2>2, <3>1 DEF DoneUpTo
    <3>7. Distinct' /\ QueueLast' /\ done' \subseteq Seen(enqueued)'
      BY <1>3, <3>1 DEF QueueInv, InLine, Distinct, QueueLast, Seen
    <3>8. InLine'
      BY <3>3, <3>6, <3>7 DEF InLine
    <3> QED BY <3>4, <3>5, <3>8 DEF QueueInv
  <2> QED BY <2>3, <2>4
<1> QED BY <1>8, <1>9

\* What leaves the queue, its drains and the jobs alone.
Aside == UNCHANGED <<queue, draining, drain, enqueued, done>>

\* Nor does a step that is not about the queue.
LEMMA AsideLine ==
  ASSUME QueueInv, Aside
  PROVE  QueueInv'
<1>1. QueueTypes'
  BY DEF QueueInv, QueueTypes, Aside
<1>2. \A d \in Drains :
        (Busy(d)' <=> Busy(d)) /\ (SnapNext(d)' <=> SnapNext(d)) /\ Behind(d)' = Behind(d)
  BY DEF Busy, SnapNext, Behind, Aside
<1>3. OneDrain'
  BY <1>2 DEF QueueInv, OneDrain, Aside
<1>4. Distinct' /\ QueueLast' /\ done' \subseteq Seen(enqueued)'
  BY DEF QueueInv, InLine, Distinct, QueueLast, Seen, Aside
<1>5. \A k : DoneUpTo(k)' <=> DoneUpTo(k)
  BY DEF DoneUpTo, Aside
<1>6. InLine'
  BY <1>2, <1>4, <1>5 DEF QueueInv, InLine, Aside
<1> QED BY <1>1, <1>3, <1>6 DEF QueueInv

\* The steps that are not of the queue.
RowStep ==
  \/ \E u \in Users : DeleteUser(u) \/ UpdatePreference(u)
  \/ \E h \in Hooks : DeleteWebhook(h)
  \/ ToggleType

\* A change of users, preferences, webhooks or types moves no job and tells nobody.
LEMMA RowStepAside ==
  ASSUME RowStep
  PROVE  Aside /\ UNCHANGED <<told, promised, cut, process>>
BY DEF RowStep, DeleteUser, UpdatePreference, DeleteWebhook, ToggleType, Touch, Aside

\* The shutdown of the process leaves the line and the rows alone.
LEMMA ProcessAside ==
  ASSUME Shutdown \/ FlushEnds \/ Killed \/ UNCHANGED queueVars
  PROVE  Aside /\ UNCHANGED <<told, promised, cut, touched, users, hooks, enabled>>
<1>1. CASE Shutdown
  BY <1>1 DEF Shutdown, Aside, Data, Past
<1>2. CASE FlushEnds
  BY <1>2 DEF FlushEnds, Aside, Data, Past
<1>3. CASE Killed
  BY <1>3 DEF Killed, Aside, Data, Past
<1>4. CASE UNCHANGED queueVars
  BY <1>4 DEF queueVars, Aside
<1> QED BY <1>1, <1>2, <1>3, <1>4

\* Every step keeps the jobs in line.
LEMMA QueueStep ==
  ASSUME QueueInv, RowTypes, LeftOver, [QueueNext]_queueVars
  PROVE  QueueInv'
<1>1. ASSUME NEW j \in Jobs, Enqueue(j)
      PROVE  QueueInv'
  BY <1>1, EnqueueLine
<1>2. ASSUME NEW d \in Drains, DrainAction(d)
      PROVE  QueueInv'
  <2>1. Drain(d) \/ Works(d) \/ (Busy(d) /\ Return(d) /\ enqueued' = enqueued)
    BY <1>2, Shapes DEF QueueInv
  <2> QED BY <2>1, DrainLine, WorksLine, ReturnLine
<1>3. CASE RowStep
  BY <1>3, RowStepAside, AsideLine
<1>4. CASE Shutdown \/ FlushEnds \/ Killed \/ UNCHANGED queueVars
  BY <1>4, ProcessAside, AsideLine
<1> QED BY <1>1, <1>2, <1>3, <1>4 DEF QueueNext, RowStep

\* Nothing is told.
LEMMA TellNobody ==
  ASSUME RowTypes, told' = told, NEW d \in Drains
  PROVE  Tell(d, {})
BY DEF RowTypes, Tell

\* What is ahead, by stage.
AheadAt(d) ==
  LET r == drain[d]
      hooked(S) == (S \X {"hook"}) \cup {<<Slack, "message">>}
  IN /\ r.at \in {"type", "users", "prefs", "insert"} => Ahead(d) = Recipients
     /\ r.at = "mail" => Ahead(d) = (r.left \X {"mail"}) \cup hooked(Hooks)
     /\ r.at = "hooks" => Ahead(d) = hooked(Hooks)
     /\ r.at \in {"next", "stats"} => Ahead(d) = hooked(r.left)
     /\ r.at = "post" => Ahead(d) = hooked(r.left \cup {r.hook})
     /\ r.at = "slack" => Ahead(d) = {<<Slack, "message">>}

\* What is told within a step, and what is ahead after it.
Tells(d, ts) ==
  /\ ts \subseteq Ahead(d) \cap Recipients /\ Tell(d, ts) /\ enqueued' = enqueued
  /\ \/ Works(d) /\ Ahead(d)' \subseteq Ahead(d) \ ts
     \/ Busy(d) /\ Return(d)

\* Every step of a drain but the first tells some of those ahead, and nobody twice.
LEMMA Telling ==
  ASSUME QueueTypes, RowTypes, LeftOver, NEW d \in Drains, DrainAction(d), ~Drain(d)
  PROVE  \E ts : Tells(d, ts)
<1>1. AheadAt(d) /\ AheadAt(d)'
  BY DEF AheadAt, Ahead
<1>2. ASSUME told' = told, enqueued' = enqueued,
             (Works(d) /\ Ahead(d)' \subseteq Ahead(d)) \/ (Busy(d) /\ Return(d))
      PROVE  Tells(d, {})
  BY <1>2, TellNobody DEF Tells
<1>3. CASE ReadType(d)
  <2>1. told' = told /\ enqueued' = enqueued /\ Ahead(d) = Recipients /\ Busy(d)
    BY <1>1, <1>3 DEF ReadType, At, AheadAt, Past, Busy
  <2>2. ~Return(d) => Works(d) /\ Ahead(d)' = Recipients
    BY <1>1, <1>3, ReadTypeWorks DEF AheadAt
  <2> QED BY <1>2, <2>1, <2>2
<1>4. CASE ReadUsers(d)
  <2>1. told' = told /\ enqueued' = enqueued /\ Ahead(d) = Recipients
    BY <1>1, <1>4 DEF ReadUsers, At, AheadAt, Past
  <2>2. Works(d) /\ Ahead(d)' = Recipients
    BY <1>1, <1>4, ReadUsersWorks DEF AheadAt
  <2> QED BY <1>2, <2>1, <2>2
<1>5. CASE ReadPreferences(d)
  <2>1. told' = told /\ enqueued' = enqueued /\ Ahead(d) = Recipients
    BY <1>1, <1>5 DEF ReadPreferences, At, AheadAt, Past
  <2>2. Works(d) /\ drain'[d].at \in {"hooks", "insert"}
    BY <1>5, ReadPreferencesWorks
  <2>3. Ahead(d)' \subseteq Recipients
    BY <1>1, <2>2 DEF AheadAt, Recipients
  <2> QED BY <1>2, <2>1, <2>2, <2>3
<1>6. CASE Insert(d)
  <2>1. enqueued' = enqueued /\ drain[d].at = "insert" /\ Ahead(d) = Recipients /\ Busy(d)
    BY <1>1, <1>6 DEF Insert, At, AheadAt, Past, Busy
  <2>2. CASE Return(d) /\ told' = told
    BY <1>2, <2>1, <2>2
  <2>3. CASE ~(Return(d) /\ told' = told)
    <3>1. /\ drain[d].users \subseteq DOMAIN users
          /\ Advance(d, IF drain[d].left = {} THEN "hooks" ELSE "mail")
          /\ Tell(d, drain[d].users \X {"app"}) /\ cut' = cut
      BY <1>6, <2>3 DEF Insert, EndJob
    <3>2. /\ Works(d) /\ drain'[d].left = drain[d].left
          /\ drain'[d].at \in {"hooks", "mail"}
      BY <1>6, <3>1, InsertWorks
    <3>3. drain[d].left \subseteq Users /\ drain[d].users \subseteq Users
      BY <2>1 DEF LeftOver, QueueTypes, DrainRows
    <3>4. drain[d].users \X {"app"} \subseteq Ahead(d) \cap Recipients
      BY <2>1, <3>3 DEF Recipients
    <3>5. Ahead(d)' \subseteq Ahead(d) \ (drain[d].users \X {"app"})
      BY <1>1, <2>1, <3>2, <3>3 DEF AheadAt, Recipients
    <3> QED BY <2>1, <3>1, <3>2, <3>4, <3>5 DEF Tells
  <2> QED BY <2>2, <2>3
<1>7. CASE SendMail(d)
  <2>1. PICK u \in drain[d].left :
          /\ Works(d) /\ Tell(d, {<<u, "mail">>}) /\ drain'[d].left = drain[d].left \ {u}
          /\ drain'[d].at = IF drain[d].left = {u} THEN "hooks" ELSE "mail"
    BY <1>7, MailSent
  <2>3. drain[d].at = "mail" /\ drain[d].left \subseteq Users /\ enqueued' = enqueued
    BY <1>7 DEF SendMail, At, LeftOver, Past
  <2>4. {<<u, "mail">>} \subseteq Ahead(d) \cap Recipients
    BY <1>1, <2>3 DEF AheadAt, Recipients
  <2>5. Ahead(d)' \subseteq Ahead(d) \ {<<u, "mail">>}
    BY <1>1, <2>1, <2>3 DEF AheadAt
  <2> QED BY <2>1, <2>3, <2>4, <2>5 DEF Tells
<1>8. CASE ReadHooks(d)
  <2>1. told' = told /\ enqueued' = enqueued /\ drain[d].at = "hooks"
    BY <1>8 DEF ReadHooks, At, Past
  <2>2. Works(d) /\ drain'[d].left = hooks /\ drain'[d].at \in {"slack", "next"}
    BY <1>8, ReadHooksWorks
  <2>3. Ahead(d)' \subseteq Ahead(d)
    BY <1>1, <2>1, <2>2 DEF AheadAt, RowTypes
  <2> QED BY <1>2, <2>1, <2>2, <2>3
<1>9. CASE NextHook(d)
  <2>1. /\ told' = told /\ enqueued' = enqueued /\ drain[d].at = "next"
        /\ drain[d].left \subseteq Hooks
    BY <1>9 DEF NextHook, At, Past, LeftOver
  <2>3. PICK h \in drain[d].left :
          /\ Works(d) /\ drain'[d].at = "post" /\ drain'[d].hook = h
          /\ drain'[d].left = drain[d].left \ {h}
    BY <1>9, <2>1, HookTaken
  <2>4. Ahead(d)' \subseteq Ahead(d)
    BY <1>1, <2>1, <2>3 DEF AheadAt
  <2> QED BY <1>2, <2>1, <2>3, <2>4
<1>10. CASE PostHook(d)
  <2>1. /\ enqueued' = enqueued /\ drain[d].at = "post"
        /\ drain[d].hook \in Hooks \ drain[d].left /\ drain[d].left \subseteq Hooks
    BY <1>10 DEF PostHook, At, Past, LeftOver
  <2>2. Works(d) /\ drain'[d].hook = drain[d].hook /\ drain'[d].left = drain[d].left
    BY <1>10, HookPosted
  <2>3. CASE drain'[d].at = "stats" /\ Tell(d, {<<drain[d].hook, "hook">>})
    <3>1. {<<drain[d].hook, "hook">>} \subseteq Ahead(d) \cap Recipients
      BY <1>1, <2>1 DEF AheadAt, Recipients
    <3>2. Ahead(d)' \subseteq Ahead(d) \ {<<drain[d].hook, "hook">>}
      BY <1>1, <2>1, <2>2, <2>3 DEF AheadAt
    <3> QED BY <2>1, <2>2, <2>3, <3>1, <3>2 DEF Tells
  <2>4. CASE drain'[d].at = "post" /\ told' = told
    <3>1. Ahead(d)' \subseteq Ahead(d)
      BY <1>1, <2>1, <2>2, <2>4 DEF AheadAt
    <3> QED BY <1>2, <2>1, <2>2, <2>4, <3>1
  <2> QED BY <1>10, <2>3, <2>4, HookPosted
<1>11. CASE CountPost(d)
  <2>1. told' = told /\ enqueued' = enqueued /\ drain[d].at = "stats"
    BY <1>11 DEF CountPost, At, Past
  <2>2. Works(d) /\ drain'[d].left \subseteq drain[d].left /\ drain'[d].at \in {"slack", "next"}
    BY <1>11, CountPostWorks
  <2>3. Ahead(d)' \subseteq Ahead(d)
    BY <1>1, <2>1, <2>2 DEF AheadAt
  <2> QED BY <1>2, <2>1, <2>2, <2>3
<1>12. CASE SendSlack(d)
  <2>1. /\ enqueued' = enqueued /\ drain[d].at = "slack" /\ Busy(d) /\ Return(d)
        /\ Tell(d, {<<Slack, "message">>})
    BY <1>12 DEF SendSlack, At, Past, Busy
  <2>2. {<<Slack, "message">>} \subseteq Ahead(d) \cap Recipients
    BY <1>1, <2>1 DEF AheadAt, Recipients
  <2> QED BY <2>1, <2>2 DEF Tells
<1>13. CASE JobFails(d)
  BY <1>2, <1>13, JobFailsShape
<1>14. CASE HooksFail(d)
  <2>1. enqueued' = enqueued
    BY <1>14 DEF HooksFail, Past
  <2>2. /\ Works(d) /\ told' = told /\ drain[d].at \in {"hooks", "post", "stats"}
        /\ drain'[d].at = "slack"
    BY <1>14, HooksFailWorks
  <2>3. Ahead(d)' \subseteq Ahead(d)
    BY <1>1, <2>2 DEF AheadAt
  <2> QED BY <1>2, <2>1, <2>2, <2>3
<1> QED
  BY <1>3, <1>4, <1>5, <1>6, <1>7, <1>8, <1>9, <1>10, <1>11, <1>12, <1>13, <1>14
     DEF DrainStep, DrainAction

\* Appending a job to what a target was told.
LEMMA ToldAfter ==
  ASSUME QueueInv, RowTypes, NEW d \in Drains, Busy(d), NEW ts, Tell(d, ts)
  PROVE  /\ told' \in [Recipients -> Seq(Jobs)]
         /\ \A t \in Recipients \ ts : told'[t] = told[t]
         /\ \A t \in Recipients \cap ts : told'[t] = Append(told[t], Current(d))
         /\ \A t \in Recipients :
              Seen(told'[t]) = IF t \in ts THEN Seen(told[t]) \cup {Current(d)} ELSE Seen(told[t])
<1>1. Current(d) \in Jobs
  BY AtHand
<1>2. /\ told' \in [Recipients -> Seq(Jobs)]
      /\ \A t \in Recipients \ ts : told'[t] = told[t]
      /\ \A t \in Recipients \cap ts : told'[t] = Append(told[t], Current(d))
  BY <1>1 DEF Tell, RowTypes
<1>3. ASSUME NEW s \in Seq(Jobs), NEW j \in Jobs
      PROVE  Seen(Append(s, j)) = Seen(s) \cup {j}
  BY DEF Seen
<1> QED BY <1>1, <1>2, <1>3 DEF RowTypes

\* A job at hand that was not told before is told last.
LEMMA SortedAfter ==
  ASSUME QueueInv, RowTypes, InOrder, NEW d \in Drains, NEW ts, Tells(d, ts)
  PROVE  \A t \in Recipients : Sorted(t)'
<1> SUFFICES ASSUME NEW t \in Recipients PROVE Sorted(t)'
  OBVIOUS
<1>1. Busy(d) /\ enqueued' = enqueued /\ Tell(d, ts) /\ ts \subseteq Ahead(d) \cap Recipients
  BY DEF Tells, Works
<1>2. Sorted(t)
  BY DEF InOrder
<1>3. CASE t \notin ts
  <2>1. told'[t] = told[t]
    BY <1>1, <1>3, ToldAfter
  <2> QED BY <1>1, <1>2, <2>1 DEF Sorted
<1>4. CASE t \in ts
  <2>1. told'[t] = Append(told[t], Current(d)) /\ told[t] \in Seq(Jobs) /\ Current(d) \in Jobs
    BY <1>1, <1>4, ToldAfter, AtHand DEF RowTypes
  <2>2. PICK n \in Nat : n = Len(told[t])
    BY <2>1
  <2>3. /\ Len(told'[t]) = n + 1 /\ told'[t][n + 1] = Current(d)
        /\ \A i \in 1..n : told'[t][i] = told[t][i]
    BY <2>1, <2>2
  <2>4. Current(d) \notin Seen(told[t])
    BY <1>1, <1>4 DEF InOrder, Fresh
  <2>5. \A j \in Seen(told[t]) : j \in done
    <3> SUFFICES ASSUME NEW j \in Seen(told[t]) PROVE j \in done
      OBVIOUS
    <3>1. Known(j)
      BY DEF InOrder
    <3>2. \A e \in Drains : Busy(e) => e = d
      BY <1>1 DEF QueueInv, OneDrain
    <3> QED BY <2>4, <3>1, <3>2 DEF Known
  <2>6. PICK k \in Nat :
          k = Behind(d) /\ DoneUpTo(k) /\ k + 1 \in 1..Len(enqueued) /\ enqueued[k + 1] = Current(d)
    BY <1>1, AtHand
  <2>7. ASSUME NEW i \in 2..(n + 1), NEW a \in 1..Len(enqueued), NEW b \in 1..Len(enqueued),
               enqueued[a] = told'[t][i - 1], enqueued[b] = told'[t][i]
        PROVE  a < b
    <3>1. CASE i \in 2..n
      <4>1. told'[t][i - 1] = told[t][i - 1] /\ told'[t][i] = told[t][i]
        BY <2>3, <3>1
      <4> QED BY <1>2, <2>2, <2>7, <3>1, <4>1 DEF Sorted
    <3>2. CASE i = n + 1
      <4>1. n \in 1..n /\ told'[t][i - 1] = told[t][n]
        BY <2>2, <2>3, <3>2
      <4>2. told[t][n] \in done
        BY <2>2, <2>5, <4>1 DEF Seen
      <4>3. a <= k
        BY <2>6, <2>7, <4>1, <4>2 DEF DoneUpTo
      <4>4. b = k + 1
        BY <2>3, <2>6, <2>7, <3>2 DEF QueueInv, InLine, Distinct
      <4>5. k \in Nat /\ a \in Int /\ b \in Int
        OBVIOUS
      <4> QED BY <4>3, <4>4, <4>5
    <3> QED BY <2>2, <3>1, <3>2
  <2> QED BY <1>1, <2>3, <2>7 DEF Sorted
<1> QED BY <1>3, <1>4

\* A job at hand is not done.
NotDone == \A d \in Drains : Busy(d) => Current(d) \notin done

\* The job at the head of a snapshot is not done before its drain says so.
LEMMA AtHandNotDone == QueueInv => NotDone
BY AtHand DEF NotDone

\* The same after a step.
LEMMA AtHandNext == QueueInv' => NotDone'
BY AtHandNotDone, PTL

\* Whoever was told only of jobs that are done is not ahead of a new job.
LEMMA FreshAfter ==
  ASSUME QueueInv', \A t \in Recipients : \A j \in Seen(told'[t]) : j \in done'
  PROVE  \A d \in Drains : Busy(d)' => Fresh(d)'
BY AtHandNext DEF NotDone, Fresh

\* A step of a drain keeps the order.
LEMMA OrderStep ==
  ASSUME QueueInv, QueueInv', RowTypes, InOrder, NEW d \in Drains, NEW ts, Tells(d, ts)
  PROVE  InOrder'
<1>1. Busy(d) /\ enqueued' = enqueued /\ Tell(d, ts) /\ ts \subseteq Ahead(d) \cap Recipients
  BY DEF Tells, Works
<1>2. \A t \in Recipients :
        Seen(told'[t]) = IF t \in ts THEN Seen(told[t]) \cup {Current(d)} ELSE Seen(told[t])
  BY <1>1, ToldAfter
<1>3. \A t \in Recipients : Sorted(t)'
  BY SortedAfter
<1>4. \A e \in Drains : Busy(e) => e = d
  BY <1>1 DEF QueueInv, OneDrain
<1>5. \A t \in Recipients : \A j \in Seen(told'[t]) : j \in done \cup {Current(d)}
  BY <1>2, <1>4 DEF InOrder, Known
<1>6. CASE Works(d) /\ Ahead(d)' \subseteq Ahead(d) \ ts
  <2>1. /\ done' = done /\ Current(d)' = Current(d) /\ Busy(d)'
        /\ \A e \in Drains : Busy(e)' => e = d
    BY <1>4, <1>6 DEF Works, Current, Busy
  <2>2. \A t \in Recipients : \A j \in Seen(told'[t]) : Known(j)'
    BY <1>5, <2>1 DEF Known
  <2>3. Fresh(d)'
    BY <1>1, <1>2, <1>6, <2>1 DEF InOrder, Fresh
  <2>4. \A e \in Drains : Busy(e)' => Fresh(e)'
    BY <2>1, <2>3
  <2> QED BY <1>3, <2>2, <2>4 DEF InOrder
<1>7. CASE Return(d)
  <2>1. done' = done \cup {Current(d)}
    BY <1>7 DEF Return
  <2>2. \A t \in Recipients : \A j \in Seen(told'[t]) : j \in done'
    BY <1>5, <2>1
  <2>3. \A e \in Drains : Busy(e)' => Fresh(e)'
    BY <2>2, FreshAfter
  <2> QED BY <1>3, <2>2, <2>3 DEF InOrder, Known
<1> QED BY <1>6, <1>7 DEF Tells

\* So do the other steps.
LEMMA OrderKept ==
  ASSUME QueueInv, QueueInv', RowTypes, InOrder, [QueueNext]_queueVars, LeftOver
  PROVE  InOrder'
<1>1. ASSUME NEW j \in Jobs, Enqueue(j)
      PROVE  InOrder'
  <2>1. /\ told' = told /\ done' = done /\ drain' = drain /\ enqueued' = Append(enqueued, j)
        /\ enqueued \in Seq(Jobs)
    BY <1>1 DEF Enqueue, QueueInv, QueueTypes
  <2>2. \A e \in Drains :
          (Busy(e)' <=> Busy(e)) /\ Current(e)' = Current(e) /\ Ahead(e)' = Ahead(e)
    BY <2>1 DEF Busy, Current, Ahead
  <2>3. \A t \in Recipients : \A i \in Seen(told'[t]) : Known(i)'
    BY <2>1, <2>2 DEF InOrder, Known
  <2>4. \A e \in Drains : Busy(e)' => Fresh(e)'
    BY <2>1, <2>2 DEF InOrder, Fresh
  <2>5. ASSUME NEW t \in Recipients PROVE Sorted(t)'
    <3>1. \A i \in 1..Len(told[t]) : told[t][i] \in Seen(enqueued)
      <4>1. \A e \in Drains : Busy(e) => Current(e) \in Seen(enqueued)
        BY AtHand
      <4>2. \A i \in Seen(told[t]) : i \in Seen(enqueued)
        BY <4>1 DEF InOrder, Known, QueueInv, InLine
      <4> QED BY <4>2 DEF Seen
    <3>2. j \notin Seen(enqueued)
      BY <1>1 DEF Enqueue
    <3>3. PICK n \in Nat : n = Len(enqueued)
      BY <2>1
    <3>4. /\ Len(enqueued') = n + 1 /\ enqueued'[n + 1] = j
          /\ \A i \in 1..n : enqueued'[i] = enqueued[i]
      BY <2>1, <3>3
    <3>5. told[t] \in Seq(Jobs) /\ Len(told[t]) \in Nat
      BY DEF RowTypes
    <3>6. ASSUME NEW i \in 2..Len(told[t]), NEW a \in 1..n + 1, NEW b \in 1..n + 1,
                 enqueued'[a] = told[t][i - 1], enqueued'[b] = told[t][i]
          PROVE  a < b
      <4>1. i - 1 \in 1..Len(told[t]) /\ i \in 1..Len(told[t])
        BY <3>5
      <4>2. enqueued'[a] # j /\ enqueued'[b] # j
        BY <3>1, <3>2, <3>6, <4>1
      <4>3. a \in 1..n /\ b \in 1..n
        BY <3>4, <4>2
      <4>4. enqueued[a] = told[t][i - 1] /\ enqueued[b] = told[t][i]
        BY <3>4, <3>6, <4>3
      <4> QED BY <3>3, <4>3, <4>4 DEF InOrder, Sorted
    <3> QED BY <2>1, <3>4, <3>6 DEF Sorted
  <2> QED BY <2>3, <2>4, <2>5 DEF InOrder
<1>2. ASSUME NEW d \in Drains, DrainAction(d)
      PROVE  InOrder'
  <2>1. CASE Drain(d)
    <3>1. told' = told /\ done' = done /\ enqueued' = enqueued
      BY <2>1 DEF Drain, Past
    <3>2. \A e \in Drains : ~Busy(e)
      BY <2>1 DEF Drain, QueueInv, OneDrain
    <3>3. \A t \in Recipients : \A j \in Seen(told'[t]) : j \in done'
      BY <3>1, <3>2 DEF InOrder, Known
    <3>4. \A e \in Drains : Busy(e)' => Fresh(e)'
      BY <3>3, FreshAfter
    <3>5. \A t \in Recipients : Sorted(t)'
      BY <3>1 DEF InOrder, Sorted
    <3> QED BY <3>3, <3>4, <3>5 DEF InOrder, Known
  <2>2. CASE ~Drain(d)
    BY <1>2, <2>2, Telling, OrderStep DEF QueueInv
  <2> QED BY <2>1, <2>2
<1>3. ASSUME Aside, told' = told
      PROVE  InOrder'
  <2>1. \A e \in Drains :
          (Busy(e)' <=> Busy(e)) /\ Current(e)' = Current(e) /\ Ahead(e)' = Ahead(e)
    BY <1>3 DEF Busy, Current, Ahead, Aside
  <2>2. \A t \in Recipients : \A i \in Seen(told'[t]) : Known(i)'
    BY <1>3, <2>1 DEF InOrder, Known, Aside
  <2>3. \A e \in Drains : Busy(e)' => Fresh(e)'
    BY <1>3, <2>1 DEF InOrder, Fresh
  <2>4. \A t \in Recipients : Sorted(t)'
    BY <1>3 DEF InOrder, Sorted, Aside
  <2> QED BY <2>2, <2>3, <2>4 DEF InOrder
<1>4. CASE RowStep
  BY <1>3, <1>4, RowStepAside
<1>5. CASE Shutdown \/ FlushEnds \/ Killed \/ UNCHANGED queueVars
  BY <1>3, <1>5, ProcessAside
<1> QED BY <1>1, <1>2, <1>4, <1>5 DEF QueueNext, RowStep

\* Who is entitled.
LEMMA EntitledIs ==
  /\ \A u : Due(u, "app") <=> enabled /\ u \in DOMAIN users /\ InApp(users[u])
  /\ \A u : Due(u, "mail") <=> enabled /\ u \in DOMAIN users /\ Mails(users[u])
  /\ \A h : Due(h, "hook") <=> enabled /\ h \in hooks
  /\ Due(Slack, "message") <=> enabled
  /\ \A x : Due(x, "message") => x = Slack
BY DEF Due, Entitled

\* Who is entitled is a recipient.
LEMMA EntitledWithin ==
  ASSUME RowTypes
  PROVE  Entitled \subseteq Recipients
BY DEF RowTypes, Entitled, Recipients

\* A target is a name and a channel.
LEMMA RecipientIs ==
  ASSUME NEW t \in Recipients
  PROVE  /\ t = <<t[1], t[2]>>
         /\ t[1] \in Users \cup Hooks \cup {Slack}
         /\ \/ t[2] \in {"app", "mail"} /\ t[1] \in Users
            \/ t[2] = "hook" /\ t[1] \in Hooks
            \/ t[2] = "message" /\ t[1] = Slack
BY DEF Recipients

\* The rows and the history keep their types.
LEMMA RowsTyped ==
  ASSUME QueueInv, RowTypes, LeftOver, [QueueNext]_queueVars
  PROVE  RowTypes'
<1>1. ASSUME NEW j \in Jobs, Enqueue(j)
      PROVE  RowTypes'
  BY <1>1, EntitledWithin DEF RowTypes, Enqueue, Data
<1>2. ASSUME NEW d \in Drains, DrainAction(d)
      PROVE  RowTypes'
  <2>1. UNCHANGED <<users, hooks, enabled, promised, touched>>
    BY <1>2
        DEF DrainStep, Drain, ReadType, ReadUsers, ReadPreferences, Insert, SendMail, ReadHooks,
                NextHook, PostHook, CountPost, SendSlack, DrainAction, JobFails, HooksFail,
                EndJob, EndHooks, Data, Past
  <2>2. done' \subseteq Jobs
    <3>1. Drain(d) => done' = done
      BY DEF Drain
    <3>2. Busy(d) /\ Return(d) => done' = done \cup {Current(d)} /\ Current(d) \in Jobs
      BY AtHand DEF Return
    <3>3. Works(d) => done' = done
      BY DEF Works
    <3> QED BY <1>2, <3>1, <3>2, <3>3, Shapes DEF QueueInv, RowTypes
  <2>3. told' \in [Recipients -> Seq(Jobs)]
    <3>1. CASE Drain(d)
      BY <3>1 DEF Drain, RowTypes
    <3>2. CASE ~Drain(d)
      <4>1. PICK ts : Tells(d, ts)
        BY <1>2, <3>2, Telling DEF QueueInv
      <4> QED BY <4>1, ToldAfter DEF Tells, Works
    <3> QED BY <3>1, <3>2
  <2> QED BY <2>1, <2>2, <2>3 DEF RowTypes
<1>3. CASE RowStep
  <2>1. UNCHANGED <<done, told, promised>>
    BY <1>3, RowStepAside DEF Aside
  <2>2. PICK ts \in SUBSET (Users \cup Hooks \cup {Slack}) : Touch(ts)
    BY <1>3 DEF RowStep, DeleteUser, UpdatePreference, DeleteWebhook, ToggleType
  <2>3. touched' \in [Jobs -> SUBSET (Users \cup Hooks \cup {Slack})]
    BY <2>2 DEF Touch, RowTypes
  <2>4. DOMAIN users' \subseteq Users /\ hooks' \subseteq Hooks /\ enabled' \in BOOLEAN
    <3>1. ASSUME NEW u \in Users, DeleteUser(u)
          PROVE  DOMAIN users' \subseteq Users /\ hooks' \subseteq Hooks /\ enabled' \in BOOLEAN
      BY <3>1 DEF DeleteUser, RowTypes
    <3>2. ASSUME NEW u \in Users, UpdatePreference(u)
          PROVE  DOMAIN users' \subseteq Users /\ hooks' \subseteq Hooks /\ enabled' \in BOOLEAN
      BY <3>2 DEF UpdatePreference, RowTypes
    <3>3. ASSUME NEW h \in Hooks, DeleteWebhook(h)
          PROVE  DOMAIN users' \subseteq Users /\ hooks' \subseteq Hooks /\ enabled' \in BOOLEAN
      BY <3>3 DEF DeleteWebhook, RowTypes
    <3>4. ASSUME ToggleType
          PROVE  DOMAIN users' \subseteq Users /\ hooks' \subseteq Hooks /\ enabled' \in BOOLEAN
      BY <3>4 DEF ToggleType, RowTypes
    <3> QED BY <1>3, <3>1, <3>2, <3>3, <3>4 DEF RowStep
  <2> QED BY <2>1, <2>3, <2>4 DEF RowTypes
<1>4. CASE Shutdown \/ FlushEnds \/ Killed \/ UNCHANGED queueVars
  BY <1>4, ProcessAside DEF RowTypes, Aside
<1> QED BY <1>1, <1>2, <1>3, <1>4 DEF QueueNext, RowStep

\* What is left of what a drain has read keeps its type.
LEMMA LeftOverKept ==
  ASSUME QueueInv, RowTypes, LeftOver, [QueueNext]_queueVars
  PROVE  LeftOver'
<1>1. ASSUME NEW d \in Drains, DrainAction(d)
      PROVE  LeftOver'
  <2>0. drain[d].users \subseteq Users /\ hooks \subseteq Hooks
    BY DEF QueueInv, QueueTypes, DrainRows, RowTypes
  <2>1. ASSUME \A e \in Drains : e # d => drain'[e] = drain[e],
               drain'[d].at \in {"type", "users", "prefs", "hooks", "slack", "idle"}
        PROVE  LeftOver'
    BY <2>1 DEF LeftOver
  <2>2. ASSUME Works(d),
               drain'[d].at \in {"insert", "mail"} => drain'[d].left \subseteq Users,
               drain'[d].at \in {"next", "post", "stats"} => drain'[d].left \subseteq Hooks,
               drain'[d].at \in {"post", "stats"} => drain'[d].hook \in Hooks \ drain'[d].left
        PROVE  LeftOver'
    BY <2>2 DEF LeftOver, Works
  <2>3. CASE Drain(d)
    BY <2>1, <2>3, BeginRow DEF Drain, Take, QueueInv, QueueTypes
  <2>4. CASE Busy(d) /\ Return(d)
    <3>1. Tail(drain[d].snap) \in Seq(Jobs) /\ queue \in Seq(Jobs)
      BY <2>4, AtHand, TailOf DEF QueueInv, QueueTypes
    <3> QED BY <2>1, <2>4, <3>1, BeginRow, EndRow DEF Return, Take, QueueInv
  <2>5. CASE ReadType(d)
    BY <2>2, <2>4, <2>5, ReadTypeWorks DEF ReadType, At, Busy, QueueInv
  <2>6. CASE ReadUsers(d)
    BY <2>2, <2>6, ReadUsersWorks DEF QueueInv
  <2>7. CASE ReadPreferences(d)
    BY <2>0, <2>2, <2>7, ReadPreferencesWorks DEF QueueInv
  <2>8. CASE Insert(d)
    BY <2>2, <2>4, <2>8, InsertWorks DEF Insert, EndJob, At, Busy, QueueInv, LeftOver
  <2>9. CASE SendMail(d)
    <3>1. drain[d].left \subseteq Users
      BY <2>9 DEF SendMail, At, LeftOver
    <3> QED BY <2>2, <2>9, <3>1, MailSent DEF QueueInv
  <2>10. CASE ReadHooks(d)
    BY <2>0, <2>2, <2>10, ReadHooksWorks DEF QueueInv
  <2>11. CASE NextHook(d)
    <3>1. drain[d].left \subseteq Hooks
      BY <2>11 DEF NextHook, At, LeftOver
    <3> QED BY <2>2, <2>11, <3>1, HookTaken DEF QueueInv
  <2>12. CASE PostHook(d)
    <3>1. drain[d].left \subseteq Hooks /\ drain[d].hook \in Hooks \ drain[d].left
      BY <2>12 DEF PostHook, At, LeftOver
    <3> QED BY <2>2, <2>12, <3>1, HookPosted DEF QueueInv
  <2>13. CASE CountPost(d)
    BY <2>2, <2>13, CountPostWorks DEF CountPost, At, QueueInv, LeftOver
  <2>14. CASE SendSlack(d)
    BY <2>4, <2>14 DEF SendSlack, At, Busy
  <2>15. CASE JobFails(d)
    BY <2>4, <2>15, JobFailsShape
  <2>16. CASE HooksFail(d)
    BY <2>2, <2>16, HooksFailWorks DEF QueueInv
  <2> QED
    BY <1>1, <2>3, <2>5, <2>6, <2>7, <2>8, <2>9, <2>10, <2>11, <2>12, <2>13, <2>14, <2>15, <2>16
       DEF DrainStep, DrainAction
<1>2. drain' = drain => LeftOver'
  BY DEF LeftOver
<1>3. ASSUME NEW j \in Jobs, Enqueue(j)
      PROVE  LeftOver'
  BY <1>2, <1>3 DEF Enqueue
<1>4. CASE RowStep
  BY <1>2, <1>4, RowStepAside DEF Aside
<1>5. CASE Shutdown \/ FlushEnds \/ Killed \/ UNCHANGED queueVars
  BY <1>2, <1>5, ProcessAside DEF Aside
<1> QED BY <1>1, <1>3, <1>4, <1>5 DEF QueueNext, RowStep

\* A change of rows says nothing of those it does not touch.
LEMMA Unaffected ==
  ASSUME RowTypes, RowStep, NEW j \in Jobs, j \in Seen(enqueued), j \notin done,
         NEW x \in Users \cup Hooks \cup {Slack}, x \notin touched'[j]
  PROVE  /\ x \notin touched[j]
         /\ enabled' = enabled
         /\ x \in DOMAIN users' <=> x \in DOMAIN users
         /\ \A c \in {"app", "mail", "hook"} : Due(x, c)' <=> Due(x, c)
         /\ x = Slack => (Due(x, "message")' <=> Due(x, "message"))
<1> USE DEF RowTypes
<1>1. ASSUME NEW ts, Touch(ts)
      PROVE  touched'[j] = touched[j] \cup ts
  BY <1>1 DEF Touch
<1>2. /\ Due(x, "app") <=> enabled /\ x \in DOMAIN users /\ InApp(users[x])
      /\ Due(x, "mail") <=> enabled /\ x \in DOMAIN users /\ Mails(users[x])
      /\ Due(x, "hook") <=> enabled /\ x \in hooks
      /\ x = Slack => (Due(x, "message") <=> enabled)
  BY DEF Due, Entitled
<1>3. /\ Due(x, "app")' <=> enabled' /\ x \in DOMAIN users' /\ InApp(users'[x])
      /\ Due(x, "mail")' <=> enabled' /\ x \in DOMAIN users' /\ Mails(users'[x])
      /\ Due(x, "hook")' <=> enabled' /\ x \in hooks'
      /\ x = Slack => (Due(x, "message")' <=> enabled')
  BY DEF Due, Entitled
<1>4. ASSUME x \notin touched[j], enabled' = enabled, x \in DOMAIN users' <=> x \in DOMAIN users,
             x \in DOMAIN users => users'[x] = users[x], x \in hooks' <=> x \in hooks
      PROVE  /\ x \notin touched[j]
             /\ enabled' = enabled
             /\ x \in DOMAIN users' <=> x \in DOMAIN users
             /\ \A c \in {"app", "mail", "hook"} : Due(x, c)' <=> Due(x, c)
             /\ x = Slack => (Due(x, "message")' <=> Due(x, "message"))
  BY <1>2, <1>3, <1>4
<1>5. ASSUME NEW u \in Users, DeleteUser(u)
      PROVE  /\ x \notin touched[j] /\ enabled' = enabled
             /\ (x \in DOMAIN users' <=> x \in DOMAIN users)
             /\ x \in DOMAIN users => users'[x] = users[x]
             /\ x \in hooks' <=> x \in hooks
  BY <1>1, <1>5 DEF DeleteUser
<1>6. ASSUME NEW u \in Users, UpdatePreference(u)
      PROVE  /\ x \notin touched[j] /\ enabled' = enabled
             /\ (x \in DOMAIN users' <=> x \in DOMAIN users)
             /\ x \in DOMAIN users => users'[x] = users[x]
             /\ x \in hooks' <=> x \in hooks
  BY <1>1, <1>6 DEF UpdatePreference
<1>7. ASSUME NEW h \in Hooks, DeleteWebhook(h)
      PROVE  /\ x \notin touched[j] /\ enabled' = enabled
             /\ (x \in DOMAIN users' <=> x \in DOMAIN users)
             /\ x \in DOMAIN users => users'[x] = users[x]
             /\ x \in hooks' <=> x \in hooks
  BY <1>1, <1>7 DEF DeleteWebhook
<1>8. ~ToggleType
  BY <1>1 DEF ToggleType
<1> QED BY <1>4, <1>5, <1>6, <1>7, <1>8 DEF RowStep

\* Jobs that are not done keep their promises.
LEMMA SteadyKept ==
  ASSUME QueueInv, RowTypes, Steady, LeftOver, [QueueNext]_queueVars
  PROVE  Steady'
<1>1. ASSUME NEW j \in Jobs, Enqueue(j)
      PROVE  Steady'
  <2>1. /\ Entitled' = Entitled /\ touched' = touched /\ done' = done
        /\ promised'[j] = Entitled /\ \A i \in Jobs : i # j => promised'[i] = promised[i]
    BY <1>1 DEF Enqueue, Data, Entitled, RowTypes
  <2>2. \A i \in Seen(enqueued') : i \in Jobs /\ (i = j \/ i \in Seen(enqueued))
    BY <1>1 DEF Enqueue, Seen, QueueInv, QueueTypes
  <2> QED BY <2>1, <2>2 DEF Steady
<1>2. ASSUME NEW d \in Drains, DrainAction(d)
      PROVE  Steady'
  <2>1. UNCHANGED <<users, hooks, enabled, promised, touched, enqueued>>
    BY <1>2
        DEF DrainStep, Drain, ReadType, ReadUsers, ReadPreferences, Insert, SendMail, ReadHooks,
                NextHook, PostHook, CountPost, SendSlack, DrainAction, JobFails, HooksFail,
                EndJob, EndHooks, Data, Past
  <2>2. Entitled' = Entitled
    BY <2>1 DEF Entitled
  <2>3. done \subseteq done'
    <3>1. Drain(d) \/ Works(d) \/ Return(d)
      BY <1>2, Shapes DEF QueueInv
    <3> QED BY <3>1 DEF Drain, Works, Return
  <2> QED BY <2>1, <2>2, <2>3 DEF Steady
<1>3. CASE RowStep
  <2>1. UNCHANGED <<enqueued, done, promised>>
    BY <1>3, RowStepAside DEF Aside
  <2> SUFFICES ASSUME NEW j \in Seen(enqueued) \ done, NEW t \in Recipients,
                      t[1] \notin touched'[j]
               PROVE  t \in promised[j] <=> t \in Entitled'
    BY <2>1 DEF Steady
  <2>2. j \in Jobs
    BY DEF Seen, QueueInv, QueueTypes
  <2>3. t = <<t[1], t[2]>> /\ t[1] \in Users \cup Hooks \cup {Slack}
    BY RecipientIs
  <2>4. t[1] \notin touched[j] /\ (Due(t[1], t[2])' <=> Due(t[1], t[2]))
    BY <1>3, <2>2, <2>3, RecipientIs, Unaffected
  <2>5. t \in Entitled' <=> t \in Entitled
    BY <2>3, <2>4 DEF Due
  <2> QED BY <2>4, <2>5 DEF Steady
<1>4. CASE Shutdown \/ FlushEnds \/ Killed \/ UNCHANGED queueVars
  <2>1. UNCHANGED <<enqueued, done, promised, touched, users, hooks, enabled>>
    BY <1>4, ProcessAside DEF Aside
  <2>2. Entitled' = Entitled
    BY <2>1 DEF Entitled
  <2> QED BY <2>1, <2>2 DEF Steady
<1> QED BY <1>1, <1>2, <1>3, <1>4 DEF QueueNext, RowStep

\* A flush that ends has left nothing.
LEMMA FlushKept ==
  ASSUME QueueInv, FlushedAll, [QueueNext]_queueVars
  PROVE  FlushedAll'
<1>1. CASE UNCHANGED queueVars
  BY <1>1 DEF FlushedAll, queueVars, Seen
<1>2. CASE FlushEnds
  <2>1. \A d \in Drains : ~Busy(d)
    BY <1>2 DEF FlushEnds, QueueInv, OneDrain
  <2>2. Len(queue) = 0 /\ Len(enqueued) \in Nat
    BY <1>2 DEF FlushEnds, QueueInv, QueueTypes
  <2>3. DoneUpTo(Len(enqueued) - Len(queue))
    BY <2>1 DEF QueueInv, InLine
  <2>4. Seen(enqueued) \subseteq done
    BY <2>2, <2>3 DEF DoneUpTo, Seen
  <2>5. enqueued' = enqueued /\ done' = done
    BY <1>2 DEF FlushEnds, Past
  <2> QED BY <2>4, <2>5 DEF FlushedAll
<1>3. CASE QueueNext /\ ~FlushEnds
  <2>1. process' # "flushed"
    BY <1>3
        DEF QueueNext, DrainStep, Enqueue, Drain, ReadType, ReadUsers, ReadPreferences, Insert,
                SendMail, ReadHooks, NextHook, PostHook, CountPost, SendSlack, DrainAction,
                JobFails, HooksFail, EndJob, EndHooks, DeleteUser, UpdatePreference, DeleteWebhook, ToggleType, Touch, Shutdown, Killed, At, Alive
  <2> QED BY <2>1 DEF FlushedAll
<1> QED BY <1>1, <1>2, <1>3

\* What a step within a job leaves as it is.
LEMMA Carry ==
  ASSUME QueueInv, RowTypes, NEW d \in Drains, DrainAction(d), Works(d), NEW ts, Tell(d, ts)
  PROVE  /\ Current(d)' = Current(d) /\ enabled' = enabled /\ users' = users /\ hooks' = hooks
         /\ \A S : Calm(d, S)' = Calm(d, S)
         /\ \A x, c : Due(x, c)' <=> Due(x, c)
         /\ \A u \in Users, c \in {"app", "mail"} :
              Told(d, u, c)' <=> (Told(d, u, c) \/ <<u, c>> \in ts)
         /\ \A h \in Hooks : Told(d, h, "hook")' <=> (Told(d, h, "hook") \/ <<h, "hook">> \in ts)
<1>1. UNCHANGED <<users, hooks, enabled, touched>>
  BY DEF DrainStep, Drain, ReadType, ReadUsers, ReadPreferences, Insert, SendMail, ReadHooks,
         NextHook, PostHook, CountPost, SendSlack, DrainAction, JobFails, HooksFail,
                EndJob, EndHooks, Data, Past
<1>2. Current(d)' = Current(d) /\ Busy(d)
  BY DEF Works, Current
<1>3. \A t \in Recipients :
        Current(d) \in Seen(told'[t]) <=> (Current(d) \in Seen(told[t]) \/ t \in ts)
  BY <1>2, ToldAfter
<1>4. \A x, c : <<x, c>> \in Recipients => (Told(d, x, c)' <=> (Told(d, x, c) \/ <<x, c>> \in ts))
  BY <1>2, <1>3 DEF Told
<1>5. /\ \A u \in Users, c \in {"app", "mail"} : <<u, c>> \in Recipients
      /\ \A h \in Hooks : <<h, "hook">> \in Recipients
  BY DEF Recipients
<1>6. /\ \A u \in Users, c \in {"app", "mail"} :
           Told(d, u, c)' <=> (Told(d, u, c) \/ <<u, c>> \in ts)
      /\ \A h \in Hooks : Told(d, h, "hook")' <=> (Told(d, h, "hook") \/ <<h, "hook">> \in ts)
  BY <1>4, <1>5
<1>7. (\A S : Calm(d, S)' = Calm(d, S)) /\ (\A x, c : Due(x, c)' <=> Due(x, c))
  BY <1>1, <1>2 DEF Calm, Due, Entitled
<1> QED BY <1>1, <1>2, <1>6, <1>7

\* Who is ahead of the job at hand has not been told of it.
LEMMA NotYet ==
  ASSUME QueueInv, InOrder, NEW d \in Drains, Busy(d), NEW t \in Recipients, t \in Ahead(d)
  PROVE  Current(d) \notin Seen(told[t])
BY DEF InOrder, Fresh

\* Each step within a job says what it has to of those not touched.
LEMMA WayStep ==
  ASSUME QueueInv, RowTypes, LeftOver, InOrder, NEW d \in Drains, DrainAction(d), Works(d),
         Chosen(d), UsersTold(d), HooksTold(d)
  PROVE  Chosen(d)' /\ UsersTold(d)' /\ HooksTold(d)'
<1>0. AheadAt(d)
  BY DEF AheadAt, Ahead
<1>1. Busy(d) /\ drain[d].users \subseteq Users
  BY DEF Works, QueueInv, QueueTypes, DrainRows
<1>2. /\ Calm(d, Users) \subseteq Calm(d, Users \cup Hooks \cup {Slack})
      /\ Calm(d, Hooks) \subseteq Calm(d, Users \cup Hooks \cup {Slack})
      /\ Calm(d, Users) \subseteq Users /\ Calm(d, Hooks) \subseteq Hooks
  BY DEF Calm
<1>3. /\ \A u : Due(u, "app") <=> enabled /\ u \in DOMAIN users /\ InApp(users[u])
      /\ \A u : Due(u, "mail") <=> enabled /\ u \in DOMAIN users /\ Mails(users[u])
      /\ \A h : Due(h, "hook") <=> enabled /\ h \in hooks
  BY EntitledIs
<1>4. ASSUME told' = told
      PROVE  /\ Current(d)' = Current(d) /\ enabled' = enabled /\ users' = users /\ hooks' = hooks
             /\ \A S : Calm(d, S)' = Calm(d, S)
             /\ \A x, c : Due(x, c)' <=> Due(x, c)
             /\ \A u \in Users, c \in {"app", "mail"} : Told(d, u, c)' <=> Told(d, u, c)
             /\ \A h \in Hooks : Told(d, h, "hook")' <=> Told(d, h, "hook")
  <2>1. PICK ts : ts = {} /\ Tell(d, ts)
    BY <1>4, TellNobody
  <2>2. /\ Current(d)' = Current(d) /\ enabled' = enabled /\ users' = users /\ hooks' = hooks
        /\ \A S : Calm(d, S)' = Calm(d, S)
        /\ \A x, c : Due(x, c)' <=> Due(x, c)
        /\ \A u \in Users, c \in {"app", "mail"} :
             Told(d, u, c)' <=> (Told(d, u, c) \/ <<u, c>> \in ts)
        /\ \A h \in Hooks : Told(d, h, "hook")' <=> (Told(d, h, "hook") \/ <<h, "hook">> \in ts)
    BY <2>1, Carry
  <2> QED BY <2>1, <2>2
<1>5. (\A u \in Users : <<u, "app">> \in Recipients /\ <<u, "mail">> \in Recipients) /\
          (\A h \in Hooks : <<h, "hook">> \in Recipients)
  BY DEF Recipients
<1>6. ASSUME drain[d].at \in {"type", "users", "prefs", "insert"}
      PROVE  \A u \in Users : ~Told(d, u, "app") /\ ~Told(d, u, "mail")
  BY <1>0, <1>1, <1>5, <1>6, NotYet DEF AheadAt, Told
<1>7. CASE ReadType(d)
  <2>1. told' = told /\ drain[d].at = "type"
    BY <1>7 DEF ReadType, At
  <2>2. ~Return(d)
    BY AtHand, <1>1 DEF Works, Return
  <2>3. enabled /\ drain'[d].at = "users"
    BY <1>7, <2>2, ReadTypeWorks DEF QueueInv
  <2> QED BY <1>4, <2>1, <2>3 DEF Chosen, UsersTold, HooksTold
<1>8. CASE ReadUsers(d)
  <2>1. told' = told /\ drain[d].at = "users"
    BY <1>8 DEF ReadUsers, At
  <2>2. drain'[d].at = "prefs" /\ drain'[d].users = DOMAIN users
    BY <1>8, ReadUsersWorks DEF QueueInv
  <2> QED BY <1>4, <2>1, <2>2 DEF Chosen, UsersTold, HooksTold
<1>9. CASE ReadPreferences(d)
  <2>1. told' = told /\ drain[d].at = "prefs"
    BY <1>9 DEF ReadPreferences, At
  <2>2. /\ drain'[d].users = {u \in drain[d].users : InApp(PrefRead(u))}
        /\ drain'[d].left = {u \in drain'[d].users : Mails(PrefRead(u))}
        /\ drain'[d].at = IF drain'[d].users = {} THEN "hooks" ELSE "insert"
    BY <1>9, ReadPreferencesWorks DEF QueueInv
  <2>3. ASSUME NEW u \in Calm(d, Users)
        PROVE  /\ (u \in drain'[d].users <=> Due(u, "app"))
               /\ (u \in drain'[d].left <=> Due(u, "mail"))
    <3>1. enabled /\ (u \in drain[d].users <=> u \in DOMAIN users)
      BY <1>2, <2>1 DEF Chosen
    <3>2. u \in DOMAIN users => PrefRead(u) = users[u]
      BY DEF PrefRead
    <3>3. Mails(users[u]) => InApp(users[u])
      BY DEF Mails, InApp
    <3> QED BY <1>3, <2>2, <3>1, <3>2, <3>3
  <2>4. Calm(d, Users \cup Hooks \cup {Slack}) # {} => enabled
    BY <2>1 DEF Chosen
  <2>5. CASE drain'[d].at = "insert"
    BY <1>4, <2>1, <2>3, <2>4, <2>5 DEF Chosen, UsersTold, HooksTold
  <2>6. CASE drain'[d].at = "hooks"
    <3>1. drain'[d].users = {} /\ drain'[d].left = {}
      BY <2>2, <2>6
    <3>2. \A u \in Calm(d, Users) :
            ~Due(u, "app") /\ ~Due(u, "mail") /\ ~Told(d, u, "app") /\ ~Told(d, u, "mail")
      BY <1>2, <1>6, <2>1, <2>3, <3>1
    <3> QED BY <1>2, <1>4, <2>1, <2>4, <2>6, <3>2 DEF Chosen, UsersTold, HooksTold
  <2> QED BY <2>2, <2>5, <2>6
<1>10. CASE Insert(d)
  <2>1. drain[d].at = "insert" /\ drain[d].left \subseteq Users
    BY <1>10 DEF Insert, At, LeftOver
  <2>2. ~Return(d)
    BY AtHand, <1>1 DEF Works, Return
  <2>3. /\ Advance(d, IF drain[d].left = {} THEN "hooks" ELSE "mail")
        /\ Tell(d, drain[d].users \X {"app"})
    BY <1>10, <2>2 DEF Insert, EndJob
  <2>4. /\ drain'[d].left = drain[d].left
        /\ drain'[d].at = IF drain[d].left = {} THEN "hooks" ELSE "mail"
    BY <1>10, <2>3, InsertWorks DEF QueueInv
  <2>5. /\ enabled' = enabled
        /\ \A S : Calm(d, S)' = Calm(d, S)
        /\ \A x, c : Due(x, c)' <=> Due(x, c)
        /\ \A u \in Users, c \in {"app", "mail"} :
             Told(d, u, c)' <=> (Told(d, u, c) \/ <<u, c>> \in drain[d].users \X {"app"})
    BY <2>3, Carry
  <2>6. \A u \in Users : (Told(d, u, "app")' <=> u \in drain[d].users) /\ ~Told(d, u, "mail")'
    BY <1>6, <2>1, <2>5
  <2>7. \A u \in Calm(d, Users) :
          (u \in drain[d].users <=> Due(u, "app")) /\ (u \in drain[d].left <=> Due(u, "mail"))
    BY <2>1 DEF Chosen
  <2>8. Calm(d, Users \cup Hooks \cup {Slack}) # {} => enabled
    BY <2>1 DEF Chosen
  <2>9. \A u \in Calm(d, Users) :
          /\ (Told(d, u, "app")' <=> Due(u, "app"))
          /\ (Told(d, u, "mail")' \/ u \in drain[d].left <=> Due(u, "mail"))
    BY <1>2, <2>6, <2>7
  <2>10. CASE drain[d].left = {}
    BY <2>4, <2>5, <2>8, <2>9, <2>10 DEF Chosen, UsersTold, HooksTold
  <2>11. CASE drain[d].left # {}
    BY <2>4, <2>5, <2>8, <2>9, <2>11 DEF Chosen, UsersTold, HooksTold
  <2> QED BY <2>10, <2>11
<1>11. CASE SendMail(d)
  <2>1. drain[d].at = "mail"
    BY <1>11 DEF SendMail, At
  <2>2. PICK v \in drain[d].left :
          /\ Tell(d, {<<v, "mail">>})
          /\ drain'[d].left = drain[d].left \ {v}
          /\ drain'[d].at = IF drain[d].left = {v} THEN "hooks" ELSE "mail"
    BY <1>11, MailSent DEF QueueInv
  <2>3. /\ enabled' = enabled
        /\ \A S : Calm(d, S)' = Calm(d, S)
        /\ \A x, c : Due(x, c)' <=> Due(x, c)
        /\ \A u \in Users, c \in {"app", "mail"} :
             Told(d, u, c)' <=> (Told(d, u, c) \/ <<u, c>> \in {<<v, "mail">>})
    BY <2>2, Carry
  <2>4. \A u \in Users : (Told(d, u, "app")' <=> Told(d, u, "app")) /\
            (Told(d, u, "mail")' <=> Told(d, u, "mail") \/ u = v)
    BY <2>3
  <2>5. \A u \in Calm(d, Users) :
          /\ Told(d, u, "app") <=> Due(u, "app")
          /\ (Told(d, u, "mail") \/ u \in drain[d].left) <=> Due(u, "mail")
    BY <2>1 DEF UsersTold
  <2>6. \A u \in Calm(d, Users) :
          /\ Told(d, u, "app")' <=> Due(u, "app")
          /\ (Told(d, u, "mail")' \/ u \in drain'[d].left) <=> Due(u, "mail")
    BY <1>2, <2>2, <2>4, <2>5
  <2>7. Calm(d, Users \cup Hooks \cup {Slack}) # {} => enabled
    BY <2>1 DEF Chosen
  <2>8. CASE drain[d].left = {v}
    <3>1. drain'[d].left = {} /\ drain'[d].at = "hooks"
      BY <2>2, <2>8
    <3> QED BY <2>3, <2>6, <2>7, <3>1 DEF Chosen, UsersTold, HooksTold
  <2>9. CASE drain[d].left # {v}
    <3>1. drain'[d].at = "mail"
      BY <2>2, <2>9
    <3> QED BY <2>3, <2>6, <2>7, <3>1 DEF Chosen, UsersTold, HooksTold
  <2> QED BY <2>8, <2>9
<1>12. CASE ReadHooks(d)
  <2>1. told' = told /\ drain[d].at = "hooks"
    BY <1>12 DEF ReadHooks, At
  <2>2. drain'[d].left = hooks /\ drain'[d].at = IF hooks = {} THEN "slack" ELSE "next"
    BY <1>12, ReadHooksWorks DEF QueueInv
  <2>3. \A h \in Hooks : ~Told(d, h, "hook")
    BY <1>0, <1>1, <1>5, <2>1, NotYet DEF AheadAt, Told
  <2>4. Calm(d, Users \cup Hooks \cup {Slack}) # {} => enabled
    BY <2>1 DEF Chosen
  <2>5. \A u \in Calm(d, Users) :
          (Told(d, u, "app") <=> Due(u, "app")) /\ (Told(d, u, "mail") <=> Due(u, "mail"))
    BY <2>1 DEF UsersTold
  <2>6. \A h \in Calm(d, Hooks) : (Told(d, h, "hook") \/ h \in hooks) <=> Due(h, "hook")
    BY <1>2, <1>3, <2>3, <2>4
  <2>7. drain'[d].at \in {"slack", "next"} /\ (drain'[d].at = "slack" => hooks = {})
    BY <2>2
  <2>8. Chosen(d)'
    BY <1>4, <2>1, <2>4, <2>7 DEF Chosen
  <2>9. UsersTold(d)'
    BY <1>2, <1>4, <2>1, <2>5, <2>7 DEF UsersTold
  <2>10. HooksTold(d)'
    BY <1>2, <1>4, <2>1, <2>2, <2>6, <2>7 DEF HooksTold
  <2> QED BY <2>8, <2>9, <2>10
<1>13. CASE NextHook(d)
  <2>1. drain[d].at = "next" /\ drain[d].left \subseteq Hooks
    BY <1>13 DEF NextHook, At, LeftOver
  <2>2. PICK g \in drain[d].left :
          /\ told' = told /\ drain'[d].at = "post" /\ drain'[d].hook = g
          /\ drain'[d].left = drain[d].left \ {g}
    BY <1>13, <2>1, HookTaken DEF QueueInv
  <2>3. \A h \in Calm(d, Hooks) : (Told(d, h, "hook") \/ h \in drain[d].left) <=> Due(h, "hook")
    BY <2>1 DEF HooksTold
  <2>4. Chosen(d)'
    BY <1>4, <2>1, <2>2 DEF Chosen
  <2>5. UsersTold(d)'
    BY <1>2, <1>4, <2>1, <2>2 DEF UsersTold
  <2>6. HooksTold(d)'
    BY <1>2, <1>4, <2>2, <2>3 DEF HooksTold
  <2> QED BY <2>4, <2>5, <2>6
<1>14. CASE PostHook(d)
  <2>1. drain[d].at = "post"
    BY <1>14 DEF PostHook, At
  <2>2. drain'[d].hook = drain[d].hook /\ drain'[d].left = drain[d].left
    BY <1>14, HookPosted DEF QueueInv
  <2>3. \A h \in Calm(d, Hooks) :
          (Told(d, h, "hook") \/ h \in drain[d].left \/ h = drain[d].hook) <=> Due(h, "hook")
    BY <2>1 DEF HooksTold
  <2>4. CASE drain'[d].at = "post" /\ told' = told
    <3>1. Chosen(d)'
      BY <1>4, <2>1, <2>4 DEF Chosen
    <3>2. UsersTold(d)'
      BY <1>2, <1>4, <2>1, <2>4 DEF UsersTold
    <3>3. HooksTold(d)'
      BY <1>2, <1>4, <2>2, <2>3, <2>4 DEF HooksTold
    <3> QED BY <3>1, <3>2, <3>3
  <2>5. CASE drain'[d].at = "stats" /\ Tell(d, {<<drain[d].hook, "hook">>})
    <3>1. /\ enabled' = enabled
          /\ \A S : Calm(d, S)' = Calm(d, S)
          /\ \A x, c : Due(x, c)' <=> Due(x, c)
          /\ \A u \in Users, c \in {"app", "mail"} :
               Told(d, u, c)' <=> (Told(d, u, c) \/ <<u, c>> \in {<<drain[d].hook, "hook">>})
          /\ \A h \in Hooks :
               Told(d, h, "hook")' <=>
                 (Told(d, h, "hook") \/ <<h, "hook">> \in {<<drain[d].hook, "hook">>})
      BY <2>5, Carry
    <3>2. /\ \A u \in Users, c \in {"app", "mail"} : Told(d, u, c)' <=> Told(d, u, c)
          /\ \A h \in Hooks : Told(d, h, "hook")' <=> (Told(d, h, "hook") \/ h = drain[d].hook)
      BY <3>1
    <3>3. Chosen(d)'
      BY <2>1, <2>5, <3>1 DEF Chosen
    <3>4. UsersTold(d)'
      BY <1>2, <2>1, <2>5, <3>1, <3>2 DEF UsersTold
    <3>5. HooksTold(d)'
      BY <1>2, <2>2, <2>3, <2>5, <3>1, <3>2 DEF HooksTold
    <3> QED BY <3>3, <3>4, <3>5
  <2> QED BY <1>14, <2>4, <2>5, HookPosted DEF QueueInv
<1>15. CASE CountPost(d)
  <2>1. told' = told /\ drain[d].at = "stats"
    BY <1>15 DEF CountPost, At
  <2>2. /\ drain[d].hook \in hooks =>
             /\ drain'[d].left = drain[d].left /\ cut' = cut
             /\ drain'[d].at = IF drain[d].left = {} THEN "slack" ELSE "next"
        /\ drain[d].hook \notin hooks =>
             /\ drain'[d].left = {} /\ cut' = cut \cup {<<Current(d), "hooks", "gone">>}
             /\ drain'[d].at = "slack"
    BY <1>15, CountPostWorks DEF QueueInv
  <2>3. \A h \in Calm(d, Hooks) : (Told(d, h, "hook") \/ h \in drain[d].left) <=> Due(h, "hook")
    BY <2>1 DEF HooksTold
  <2>4. drain'[d].at \in {"slack", "next"}
    BY <2>2
  <2>5. Chosen(d)'
    BY <1>4, <2>1, <2>4 DEF Chosen
  <2>6. UsersTold(d)'
    BY <1>2, <1>4, <2>1, <2>4 DEF UsersTold
  <2>7. HooksTold(d)'
    <3>1. CASE drain[d].hook \in hooks /\ drain[d].left # {}
      <4>1. drain'[d].at = "next" /\ drain'[d].left = drain[d].left
        BY <2>2, <3>1
      <4> QED BY <1>2, <1>4, <2>1, <2>3, <4>1 DEF HooksTold
    <3>2. CASE drain[d].hook \in hooks /\ drain[d].left = {}
      <4>1. drain'[d].at = "slack"
        BY <2>2, <3>2
      <4> QED BY <1>2, <1>4, <2>1, <2>3, <3>2, <4>1 DEF HooksTold
    <3>3. CASE drain[d].hook \notin hooks
      <4>1. drain'[d].at = "slack" /\ Cut(Current(d), "hooks")'
        BY <1>4, <2>1, <2>2, <3>3 DEF Cut
      <4> QED BY <1>2, <1>4, <2>1, <2>3, <4>1 DEF HooksTold
    <3> QED BY <3>1, <3>2, <3>3
  <2> QED BY <2>5, <2>6, <2>7
<1>16. ~SendSlack(d) /\ ~Drain(d)
  <2>1. ~Return(d)
    BY AtHand, <1>1 DEF Works, Return
  <2> QED BY <1>1, <2>1 DEF SendSlack, Drain, Free, Busy
<1>17. ~JobFails(d)
  <2>1. ~Return(d)
    BY AtHand, <1>1 DEF Works, Return
  <2> QED BY <2>1, JobFailsShape
<1>18. CASE HooksFail(d)
  <2>1. /\ told' = told /\ drain[d].at \in {"hooks", "post", "stats"}
        /\ drain'[d].at = "slack" /\ <<Current(d), "hooks", "fault">> \in cut'
    BY <1>18, HooksFailWorks DEF QueueInv
  <2>2. Chosen(d)'
    BY <1>4, <2>1 DEF Chosen
  <2>3. UsersTold(d)'
    BY <1>2, <1>4, <2>1 DEF UsersTold
  <2>4. Cut(Current(d), "hooks")'
    BY <1>4, <2>1 DEF Cut
  <2>5. drain[d].at = "hooks" => \A h \in Hooks : ~Told(d, h, "hook")
    BY <1>0, <1>1, <1>5, NotYet DEF AheadAt, Told
  <2>6. \A h \in Calm(d, Hooks) : Told(d, h, "hook") => Due(h, "hook")
    BY <1>2, <2>1, <2>5 DEF HooksTold
  <2>7. HooksTold(d)'
    BY <1>2, <1>4, <2>1, <2>4, <2>6 DEF HooksTold
  <2> QED BY <2>2, <2>3, <2>7
<1> QED
  BY <1>7, <1>8, <1>9, <1>10, <1>11, <1>12, <1>13, <1>14, <1>15, <1>16, <1>17, <1>18
     DEF DrainStep, DrainAction

\* Whatever happens, a drain on its way says what it has to.
LEMMA WayKept ==
  ASSUME QueueInv, RowTypes, LeftOver, InOrder, OnTheWay, [QueueNext]_queueVars
  PROVE  OnTheWay'
<1>0. ASSUME UNCHANGED <<drain, users, hooks, enabled, touched, told, cut>>
      PROVE  OnTheWay'
  <2> SUFFICES ASSUME NEW d \in Drains, Busy(d)
               PROVE  Chosen(d)' /\ UsersTold(d)' /\ HooksTold(d)'
    BY <1>0 DEF OnTheWay, Busy
  <2>1. Chosen(d) /\ UsersTold(d) /\ HooksTold(d)
    BY DEF OnTheWay
  <2>2. Current(d)' = Current(d) /\ \A S : Calm(d, S)' = Calm(d, S)
    BY <1>0 DEF Current, Calm
  <2>3. \A x, c : (Due(x, c)' <=> Due(x, c)) /\ (Told(d, x, c)' <=> Told(d, x, c))
    BY <1>0, <2>2 DEF Due, Told, Entitled
  <2>4. \A j, what : Cut(j, what)' <=> Cut(j, what)
    BY <1>0 DEF Cut
  <2>5. Chosen(d)'
    BY <1>0, <2>1, <2>2, <2>3 DEF Chosen
  <2>6. UsersTold(d)'
    BY <1>0, <2>1, <2>2, <2>3 DEF UsersTold
  <2>7. HooksTold(d)'
    BY <1>0, <2>1, <2>2, <2>3, <2>4 DEF HooksTold
  <2> QED BY <2>5, <2>6, <2>7
<1>1. ASSUME NEW d \in Drains, drain'[d].at = "type"
      PROVE  Chosen(d)' /\ UsersTold(d)' /\ HooksTold(d)'
  BY <1>1 DEF Chosen, UsersTold, HooksTold
<1>2. ASSUME NEW d \in Drains, DrainAction(d)
      PROVE  OnTheWay'
  <2>1. CASE Works(d)
    <3>1. Busy(d) /\ \A e \in Drains : Busy(e)' => e = d
      BY <2>1 DEF Works, Busy, QueueInv, OneDrain
    <3>2. Chosen(d)' /\ UsersTold(d)' /\ HooksTold(d)'
      BY <1>2, <2>1, <3>1, WayStep DEF OnTheWay
    <3> QED BY <3>1, <3>2 DEF OnTheWay
  <2>2. ASSUME \A e \in Drains : e # d => ~Busy(e) /\ drain'[e] = drain[e],
               drain'[d].at \in {"idle", "type"}
        PROVE  OnTheWay'
    BY <1>1, <2>2 DEF OnTheWay, Busy
  <2>3. CASE Drain(d)
    <3>1. \A e \in Drains : ~Busy(e)
      BY <2>3 DEF Drain, QueueInv, OneDrain
    <3> QED BY <2>2, <2>3, <3>1, BeginRow DEF Drain, Take, QueueInv, QueueTypes
  <2>4. CASE Busy(d) /\ Return(d)
    <3>1. Tail(drain[d].snap) \in Seq(Jobs) /\ queue \in Seq(Jobs)
      BY <2>4, AtHand, TailOf DEF QueueInv, QueueTypes
    <3>2. \A e \in Drains : e # d => ~Busy(e)
      BY <2>4 DEF QueueInv, OneDrain
    <3> QED BY <2>2, <2>4, <3>1, <3>2, BeginRow, EndRow DEF Return, Take, QueueInv
  <2> QED BY <1>2, <2>1, <2>3, <2>4, Shapes DEF QueueInv
<1>3. ASSUME NEW j \in Jobs, Enqueue(j)
      PROVE  OnTheWay'
  <2>1. UNCHANGED <<drain, users, hooks, enabled, touched, told, cut>>
    BY <1>3 DEF Enqueue, Data
  <2> QED BY <1>0, <2>1
<1>4. CASE RowStep
  <2>1. UNCHANGED <<drain, told, cut>>
    BY <1>4, RowStepAside DEF Aside
  <2> SUFFICES ASSUME NEW d \in Drains, Busy(d)
               PROVE  Chosen(d)' /\ UsersTold(d)' /\ HooksTold(d)'
    BY <2>1 DEF OnTheWay, Busy
  <2>2. Current(d)' = Current(d) /\ \A x, c : Told(d, x, c)' <=> Told(d, x, c)
    BY <2>1 DEF Current, Told
  <2>3. Chosen(d) /\ UsersTold(d) /\ HooksTold(d)
    BY DEF OnTheWay
  <2>4. Current(d) \in Jobs /\ Current(d) \in Seen(enqueued) /\ Current(d) \notin done
    BY AtHand
  <2>5. \A x \in Users \cup Hooks \cup {Slack} : x \notin touched'[Current(d)] =>
          /\ x \notin touched[Current(d)]
          /\ enabled' = enabled
          /\ x \in DOMAIN users' <=> x \in DOMAIN users
          /\ \A c \in {"app", "mail", "hook"} : Due(x, c)' <=> Due(x, c)
    BY <1>4, <2>4, Unaffected
  <2>6. ASSUME NEW S \in SUBSET (Users \cup Hooks \cup {Slack})
        PROVE  \A x \in Calm(d, S)' :
                 /\ x \in Calm(d, S) /\ enabled' = enabled
                 /\ x \in DOMAIN users' <=> x \in DOMAIN users
                 /\ Due(x, "app")' <=> Due(x, "app")
                 /\ Due(x, "mail")' <=> Due(x, "mail")
                 /\ Due(x, "hook")' <=> Due(x, "hook")
    BY <2>2, <2>5 DEF Calm
  <2>7. Chosen(d)'
    BY <2>1, <2>3, <2>6 DEF Chosen
  <2>8. UsersTold(d)'
    BY <2>1, <2>2, <2>3, <2>6 DEF UsersTold
  <2>9. HooksTold(d)'
    <3>1. \A h \in Calm(d, Hooks)' : h \in Calm(d, Hooks) /\ (Due(h, "hook")' <=> Due(h, "hook"))
      BY <2>6
    <3>2. Cut(Current(d), "hooks")' <=> Cut(Current(d), "hooks")
      BY <2>1, <2>2 DEF Cut
    <3> QED BY <2>1, <2>2, <2>3, <3>1, <3>2 DEF HooksTold
  <2> QED BY <2>7, <2>8, <2>9
<1>5. CASE Shutdown \/ FlushEnds \/ Killed \/ UNCHANGED queueVars
  <2>1. UNCHANGED <<drain, users, hooks, enabled, touched, told, cut>>
    BY <1>5, ProcessAside DEF Aside
  <2> QED BY <1>0, <2>1
<1> QED BY <1>2, <1>3, <1>4, <1>5 DEF QueueNext, RowStep

\* A job that has ended has reached those it had to.
LEMMA EndReaches ==
  ASSUME QueueInv, RowTypes, LeftOver, InOrder, Steady, OnTheWay,
         NEW d \in Drains, DrainAction(d), Busy(d), Return(d), NEW j, j = Current(d)
  PROVE  Reaches(j)'
<1>1. j \in Jobs /\ j \in Seen(enqueued) /\ j \notin done /\ done' # done
  BY AtHand DEF Return
<1>2. UNCHANGED <<users, hooks, enabled, promised, touched>>
  BY DEF DrainStep, Drain, ReadType, ReadUsers, ReadPreferences, Insert, SendMail, ReadHooks,
         NextHook, PostHook, CountPost, SendSlack, DrainAction, JobFails, HooksFail,
                EndJob, EndHooks, Data, Past
<1>3. AheadAt(d)
  BY DEF AheadAt, Ahead
<1>4. ASSUME NEW t \in Recipients, t[1] \notin touched[j]
      PROVE  /\ j \in Seen(told'[t]) => t \in promised[j]
             /\ t \in promised[j] => \/ j \in Seen(told'[t])
                                     \/ Cut(j, "job")'
                                     \/ t[2] = "hook" /\ Cut(j, "hooks")'
  <2>1. t \in promised[j] <=> t \in Entitled
    BY <1>1, <1>4 DEF Steady
  <2>2. t \in Ahead(d) => j \notin Seen(told[t])
    BY NotYet
  <2>3. CASE ReadType(d)
    <3>1. told' = told /\ drain[d].at = "type" /\ ~enabled
      BY <1>1, <2>3 DEF ReadType, Advance, At
    <3>2. t \notin Entitled
      BY <3>1 DEF Entitled
    <3>3. t \in Ahead(d)
      BY <1>3, <3>1 DEF AheadAt
    <3> QED BY <2>1, <2>2, <3>1, <3>2, <3>3
  <2>4. CASE Insert(d)
    <3>1. told' = told /\ drain[d].at = "insert" /\ <<j, "job", "gone">> \in cut'
      BY <1>1, <2>4 DEF Insert, EndJob, Advance, At
    <3>2. t \in Ahead(d)
      BY <1>3, <3>1 DEF AheadAt
    <3>3. Cut(j, "job")'
      BY <3>1 DEF Cut
    <3> QED BY <2>2, <3>1, <3>2, <3>3
  <2>5. CASE SendSlack(d)
    <3>1. Tell(d, {<<Slack, "message">>}) /\ drain[d].at = "slack" /\ cut' = cut
      BY <2>5 DEF SendSlack, At
    <3>2. j \in Seen(told'[t]) <=> (j \in Seen(told[t]) \/ t = <<Slack, "message">>)
      <4>1. PICK ts : ts = {<<Slack, "message">>} /\ Tell(d, ts)
        BY <3>1
      <4>2. Seen(told'[t]) = IF t \in ts THEN Seen(told[t]) \cup {Current(d)} ELSE Seen(told[t])
        BY <4>1, ToldAfter
      <4> QED BY <4>1, <4>2
    <3>3. t = <<t[1], t[2]>> /\ t[1] \in Calm(d, Users \cup Hooks \cup {Slack})
      BY <1>4, RecipientIs DEF Calm
    <3>4. enabled
      BY <3>1, <3>3 DEF OnTheWay, Chosen
    <3>5. j \in Seen(told[t]) <=> Told(d, t[1], t[2])
      BY <3>3 DEF Told
    <3>6. t \in Entitled <=> Due(t[1], t[2])
      BY <3>3 DEF Due
    <3>7. CASE t[2] \in {"app", "mail"} /\ t[1] \in Users
      <4>1. t[1] \in Calm(d, Users) /\ t # <<Slack, "message">>
        BY <1>4, <3>3, <3>7 DEF Calm
      <4>2. Told(d, t[1], t[2]) <=> Due(t[1], t[2])
        BY <3>1, <3>7, <4>1 DEF OnTheWay, UsersTold
      <4> QED BY <2>1, <3>2, <3>5, <3>6, <4>1, <4>2
    <3>8. CASE t[2] = "hook" /\ t[1] \in Hooks
      <4>1. t[1] \in Calm(d, Hooks) /\ t # <<Slack, "message">>
        BY <1>4, <3>3, <3>8 DEF Calm
      <4>2. /\ Told(d, t[1], "hook") => Due(t[1], "hook")
            /\ Due(t[1], "hook") => Told(d, t[1], "hook") \/ Cut(j, "hooks")
        BY <3>1, <4>1 DEF OnTheWay, HooksTold
      <4>3. Cut(j, "hooks") => Cut(j, "hooks")'
        BY <3>1 DEF Cut
      <4> QED BY <2>1, <3>2, <3>5, <3>6, <3>8, <4>1, <4>2, <4>3
    <3>9. CASE t[2] = "message" /\ t[1] = Slack
      <4>1. t = <<Slack, "message">> /\ t \in Entitled
        BY <3>3, <3>4, <3>6, <3>9, EntitledIs
      <4> QED BY <2>1, <3>2, <4>1
    <3> QED BY <3>7, <3>8, <3>9, RecipientIs
  <2>6. CASE JobFails(d)
    <3>1. t \in Ahead(d) /\ told' = told /\ <<j, "job", "fault">> \in cut'
      BY <1>3, <2>6, JobFailsShape DEF AheadAt
    <3>2. Cut(j, "job")'
      BY <3>1 DEF Cut
    <3> QED BY <2>2, <3>1, <3>2
  <2>7. ReadType(d) \/ Insert(d) \/ SendSlack(d) \/ JobFails(d)
    BY <1>1 DEF DrainAction, DrainStep, Drain, ReadUsers, ReadPreferences, SendMail, ReadHooks,
                NextHook, PostHook, CountPost, HooksFail
  <2> QED BY <2>3, <2>4, <2>5, <2>6, <2>7
<1> QED BY <1>2, <1>4 DEF Reaches

\* What a finished job has reached stays so.
LEMMA ReachesKept ==
  ASSUME QueueInv, RowTypes, LeftOver, InOrder, Steady, OnTheWay, [QueueNext]_queueVars,
         \A j \in done : Reaches(j)
  PROVE  \A j \in done' : Reaches(j)'
<1>1. ASSUME NEW j \in done, touched'[j] = touched[j], promised'[j] = promised[j],
             cut \subseteq cut',
             \A t \in Recipients : j \in Seen(told'[t]) <=> j \in Seen(told[t])
      PROVE  Reaches(j)'
  <2>1. Reaches(j)
    OBVIOUS
  <2>2. \A what : Cut(j, what) => Cut(j, what)'
    BY <1>1 DEF Cut
  <2> QED BY <1>1, <2>1, <2>2 DEF Reaches
<1>2. ASSUME NEW i \in Jobs, Enqueue(i)
      PROVE  \A j \in done' : Reaches(j)'
  <2>1. \A j \in done : j \in Jobs /\ j # i
    BY <1>2 DEF Enqueue, QueueInv, InLine, RowTypes
  <2>2. /\ UNCHANGED <<done, touched, told, cut>>
        /\ \A j \in Jobs : j # i => promised'[j] = promised[j]
    BY <1>2 DEF Enqueue, RowTypes
  <2> QED BY <1>1, <2>1, <2>2
<1>3. ASSUME NEW d \in Drains, DrainAction(d)
      PROVE  \A j \in done' : Reaches(j)'
  <2>1. UNCHANGED <<promised, touched>> /\ cut \subseteq cut'
    BY <1>3
        DEF DrainStep, Drain, ReadType, ReadUsers, ReadPreferences, Insert, SendMail, ReadHooks,
                NextHook, PostHook, CountPost, SendSlack, DrainAction, JobFails, HooksFail,
                EndJob, EndHooks, Past
  <2>2. CASE Drain(d)
    BY <1>1, <2>1, <2>2 DEF Drain
  <2>3. CASE ~Drain(d)
    <3>1. PICK ts : Tells(d, ts)
      BY <1>3, <2>3, Telling DEF QueueInv
    <3>2. Busy(d) /\ Tell(d, ts)
      BY <3>1 DEF Tells, Works
    <3>3. Current(d) \notin done
      BY <3>2, AtHand
    <3>4. \A j \in done : \A t \in Recipients : j \in Seen(told'[t]) <=> j \in Seen(told[t])
      <4>1. \A t \in Recipients :
              Seen(told'[t]) = IF t \in ts THEN Seen(told[t]) \cup {Current(d)} ELSE Seen(told[t])
        BY <3>2, ToldAfter
      <4> QED BY <3>3, <4>1
    <3>5. \A j \in done : Reaches(j)'
      BY <1>1, <2>1, <3>4
    <3>6. CASE Works(d)
      BY <3>5, <3>6 DEF Works
    <3>7. CASE Return(d)
      <4>1. done' = done \cup {Current(d)}
        BY <3>7 DEF Return
      <4>2. PICK c : c = Current(d)
        OBVIOUS
      <4>3. Reaches(c)'
        BY <1>3, <3>2, <3>7, <4>2, EndReaches
      <4> QED BY <3>5, <4>1, <4>2, <4>3
    <3> QED BY <3>1, <3>6, <3>7 DEF Tells
  <2> QED BY <2>2, <2>3
<1>4. CASE RowStep
  <2>1. UNCHANGED <<done, told, promised, cut>>
    BY <1>4, RowStepAside DEF Aside
  <2>2. PICK ts : Touch(ts)
    BY <1>4 DEF RowStep, DeleteUser, UpdatePreference, DeleteWebhook, ToggleType
  <2>3. \A j \in done : touched'[j] = touched[j]
    BY <2>2 DEF Touch, RowTypes
  <2> QED BY <1>1, <2>1, <2>3
<1>5. CASE Shutdown \/ FlushEnds \/ Killed \/ UNCHANGED queueVars
  <2>1. UNCHANGED <<done, told, promised, cut, touched>>
    BY <1>5, ProcessAside DEF Aside
  <2> QED BY <1>1, <2>1
<1> QED BY <1>2, <1>3, <1>4, <1>5 DEF QueueNext, RowStep

\* What is cut off is explained: the recipient or the webhook that is gone was
\* touched, or it would be as it was read.
LEMMA ExplainedKept ==
  ASSUME QueueInv, RowTypes, LeftOver, OnTheWay, Explained, [QueueNext]_queueVars
  PROVE  Explained'
<1>1. ASSUME \A j \in Jobs : touched[j] \subseteq touched'[j],
             \A j \in Jobs : <<j, "job", "gone">> \in cut' =>
                 <<j, "job", "gone">> \in cut \/ touched[j] \cap Users # {},
             \A j \in Jobs : <<j, "hooks", "gone">> \in cut' =>
                 <<j, "hooks", "gone">> \in cut \/ touched[j] \cap Hooks # {}
      PROVE  Explained'
  BY <1>1 DEF Explained
<1>2. ASSUME NEW d \in Drains, DrainAction(d)
      PROVE  Explained'
  <2>1. touched' = touched
    BY <1>2
        DEF DrainStep, Drain, ReadType, ReadUsers, ReadPreferences, Insert, SendMail, ReadHooks,
                NextHook, PostHook, CountPost, SendSlack, DrainAction, JobFails, HooksFail,
                EndJob, EndHooks, Data, Past
  <2>2. CASE Insert(d)
    <3>1. cut' = cut \/ ~(drain[d].users \subseteq DOMAIN users)
      BY <2>2 DEF Insert
    <3>2. cut' \subseteq cut \cup {<<Current(d), "job", "gone">>}
      BY <2>2 DEF Insert, EndJob
    <3>3. Busy(d) /\ drain[d].at = "insert" /\ drain[d].users \subseteq Users
      BY <2>2 DEF Insert, At, Busy, QueueInv, QueueTypes, DrainRows
    <3>4. ASSUME NEW u \in drain[d].users, u \notin DOMAIN users
          PROVE  u \in touched[Current(d)] \cap Users
      <4>1. u \in Calm(d, Users) => Due(u, "app")
        BY <3>3 DEF OnTheWay, Chosen
      <4>2. ~Due(u, "app")
        BY <3>4, EntitledIs
      <4> QED BY <3>3, <4>1, <4>2 DEF Calm
    <3>5. cut' # cut => touched[Current(d)] \cap Users # {}
      BY <3>1, <3>4
    <3> QED BY <1>1, <2>1, <3>2, <3>5
  <2>3. CASE CountPost(d)
    <3>1. cut' = cut \/ drain[d].hook \notin hooks
      BY <2>3 DEF CountPost
    <3>2. cut' \subseteq cut \cup {<<Current(d), "hooks", "gone">>}
      BY <2>3 DEF CountPost, EndHooks
    <3>3. Busy(d) /\ drain[d].at = "stats" /\ drain[d].hook \in Hooks
      BY <2>3 DEF CountPost, At, Busy, LeftOver
    <3>4. drain[d].hook \notin hooks => drain[d].hook \in touched[Current(d)] \cap Hooks
      <4>1. drain[d].hook \in Calm(d, Hooks) => Due(drain[d].hook, "hook")
        BY <3>3 DEF OnTheWay, HooksTold
      <4>2. Due(drain[d].hook, "hook") => drain[d].hook \in hooks
        BY EntitledIs
      <4> QED BY <3>3, <4>1, <4>2 DEF Calm
    <3> QED BY <1>1, <2>1, <3>1, <3>2, <3>4
  <2>4. CASE ~Insert(d) /\ ~CountPost(d)
    <3>1. \A j, what : <<j, what, "gone">> \in cut' => <<j, what, "gone">> \in cut
      <4>1. CASE JobFails(d)
        BY <4>1, JobFailsShape
      <4>2. CASE HooksFail(d)
        BY <4>2, HooksFailWorks DEF QueueInv
      <4>3. CASE ~JobFails(d) /\ ~HooksFail(d)
        <5>1. cut' = cut
          BY <1>2, <2>4, <4>3
              DEF DrainAction, DrainStep, Drain, ReadType, ReadUsers, ReadPreferences, SendMail,
                  ReadHooks, NextHook, PostHook, SendSlack
        <5> QED BY <5>1
      <4> QED BY <4>1, <4>2, <4>3
    <3> QED BY <1>1, <2>1, <3>1
  <2> QED BY <2>2, <2>3, <2>4
<1>3. CASE RowStep
  <2>1. cut' = cut
    BY <1>3, RowStepAside
  <2>2. PICK ts : Touch(ts)
    BY <1>3 DEF RowStep, DeleteUser, UpdatePreference, DeleteWebhook, ToggleType
  <2>3. \A j \in Jobs : touched[j] \subseteq touched'[j]
    BY <2>2 DEF Touch
  <2> QED BY <1>1, <2>1, <2>3
<1>4. CASE (\E j \in Jobs : Enqueue(j)) \/ Shutdown \/ FlushEnds \/ Killed \/ UNCHANGED queueVars
  <2>1. cut' = cut /\ touched' = touched
    BY <1>4 DEF Enqueue, Shutdown, FlushEnds, Killed, Past, queueVars
  <2> QED BY <1>1, <2>1
<1> QED BY <1>2, <1>3, <1>4 DEF QueueNext, RowStep

\* At the start there is no job.
LEMMA FanOutStart == QueueInit => FanOutInv
<1> SUFFICES ASSUME QueueInit PROVE FanOutInv
  OBVIOUS
<1>0. <<>> \in Seq(Jobs) /\ Len(<<>>) = 0
  OBVIOUS
<1>1. Seen(<<>>) = {}
  BY <1>0 DEF Seen
<1>2. NoDrain \in DrainRows /\ NoDrain.at = "idle"
  BY <1>0 DEF NoDrain, DrainRows, Stages
<1>3. \A d \in Drains : ~Busy(d)
  BY <1>2 DEF QueueInit, Busy
<1>4. QueueTypes
  BY <1>0, <1>2 DEF QueueInit, QueueTypes
<1>5. RowTypes
  BY <1>0 DEF QueueInit, RowTypes
<1>6. OneDrain /\ OnTheWay
  BY <1>3 DEF OneDrain, OnTheWay
<1>7. InLine
  BY <1>0, <1>3 DEF QueueInit, InLine, Distinct, QueueLast, DoneUpTo
<1>8. LeftOver
  BY <1>2 DEF QueueInit, LeftOver
<1>9. InOrder
  BY <1>0, <1>1, <1>3 DEF QueueInit, InOrder, Sorted
<1>10. Steady /\ FlushedAll
  BY <1>1 DEF QueueInit, Steady, FlushedAll
<1>11. (\A j \in done : Reaches(j)) /\ Explained
  BY DEF QueueInit, Explained
<1> QED BY <1>4, <1>5, <1>6, <1>7, <1>8, <1>9, <1>10, <1>11 DEF FanOutInv

\* Every step keeps it.
LEMMA FanOutStep == FanOutInv /\ [QueueNext]_queueVars => FanOutInv'
<1> SUFFICES ASSUME FanOutInv, [QueueNext]_queueVars PROVE FanOutInv'
  OBVIOUS
<1>1. QueueInv /\ RowTypes /\ LeftOver /\ InOrder /\ Steady /\ OnTheWay /\ FlushedAll
      /\ Explained /\ \A j \in done : Reaches(j)
  BY DEF FanOutInv, QueueInv
<1>2. QueueInv'
  BY <1>1, QueueStep
<1>3. RowTypes' /\ LeftOver'
  BY <1>1, RowsTyped, LeftOverKept
<1>4. InOrder'
  BY <1>1, <1>2, OrderKept
<1>5. Steady' /\ OnTheWay' /\ FlushedAll'
  BY <1>1, SteadyKept, WayKept, FlushKept
<1>6. \A j \in done' : Reaches(j)'
  BY <1>1, ReachesKept
<1>7. Explained'
  BY <1>1, ExplainedKept
<1> QED BY <1>2, <1>3, <1>4, <1>5, <1>6, <1>7 DEF FanOutInv, QueueInv

\* The order of what was told is that of the calls.
LEMMA FanOutMeans == FanOutInv => FanOutSound
<1> SUFFICES ASSUME FanOutInv PROVE OnceInOrder
  BY DEF FanOutSound, FanOutInv
<1>1. \A a \in 1..Len(enqueued) : Place(enqueued[a]) = a
  BY DEF FanOutInv, InLine, Distinct, Place
<1>2. \A d \in Drains : Busy(d) => Current(d) \in Seen(enqueued)
  BY AtHand DEF FanOutInv, QueueInv
<1> SUFFICES ASSUME NEW t \in Recipients, NEW i \in 2..Len(told[t])
             PROVE  Place(told[t][i - 1]) < Place(told[t][i])
  BY DEF OnceInOrder
<1>3. Len(told[t]) \in Nat
  BY DEF FanOutInv, RowTypes
<1>4. i \in 1..Len(told[t]) /\ i - 1 \in 1..Len(told[t])
  BY <1>3
<1>5. told[t][i] \in Seen(told[t]) /\ told[t][i - 1] \in Seen(told[t])
  BY <1>4 DEF Seen
<1>6. \A j \in Seen(told[t]) : j \in Seen(enqueued)
  BY <1>2 DEF FanOutInv, InOrder, Known, InLine
<1>7. PICK a \in 1..Len(enqueued), b \in 1..Len(enqueued) :
        enqueued[a] = told[t][i - 1] /\ enqueued[b] = told[t][i]
  BY <1>5, <1>6 DEF Seen
<1>8. a < b
  BY <1>7 DEF FanOutInv, InOrder, Sorted
<1> QED BY <1>1, <1>7, <1>8

\* For any number of jobs, users, webhooks, drains, changes, refused messages and
\* calls that throw: nobody is told twice or out of order; a finished job has
\* reached exactly those entitled to it, but for what an exception left out, and
\* only a failing call, a secret that cannot be decrypted or a row that was
\* deleted meanwhile throws; a flush that ends in time has left nothing
\* (processSystemNotificationJob, dispatchWebhook, drain, flushNotificationQueue).
THEOREM FanOutSoundHolds == QueueSpec => []FanOutSound
<1>1. QueueSpec => []FanOutInv
  BY FanOutStart, FanOutStep, PTL DEF QueueSpec
<1> QED BY <1>1, FanOutMeans, PTL
==============================================================================
