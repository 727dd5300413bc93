------------------------------ MODULE KeyedLock ------------------------------
(***************************************************************************)
(* runExclusive of src/lib/keyed-lock.ts and its two callers: deployService *)
(* (compose pull, compose up) and the restart route (compose down, compose *)
(* up), which use it with the key `${serverId}::${composePath}`.           *)
(*                                                                         *)
(* A step is one job of the event loop: the synchronous call, the start of *)
(* fn by prev.then, each of fn's two remote commands, the settling of the  *)
(* tail and the callback of tail.finally.  A tail's finally is registered  *)
(* when the tail is made, so before any waiter's then, and runs before it. *)
(***************************************************************************)
EXTENDS Integers

CONSTANTS
  Calls,  \* each is made once
  Keys,
  NoKey,
  NoCall

ASSUME LockAssumption == NoCall \notin Calls /\ NoKey \notin Keys

VARIABLES
  chains,  \* key -> the call whose tail is stored, NoCall when the key is absent
  pc,      \* call -> where it is
  key,     \* call -> its key
  prev,    \* call -> the call whose tail it waits for
  result,  \* call -> how its fn ended
  tail,    \* call -> how its tail ended
  ticket,  \* history: call -> its place in the order of arrival
  arrived  \* history: how many calls were made

vars == <<chains, pc, key, prev, result, tail, ticket, arrived>>

Settled == {"resolved", "rejected"}
Running == {"first", "second"}

TypeOK ==
  /\ chains \in [Keys -> Calls \union {NoCall}]
  /\ pc \in [Calls -> {"new", "waiting", "first", "second", "left", "settled", "done"}]
  /\ key \in [Calls -> Keys \union {NoKey}]
  /\ prev \in [Calls -> Calls \union {NoCall}]
  /\ result \in [Calls -> Settled \union {"pending"}]
  /\ tail \in [Calls -> Settled \union {"pending"}]
  /\ ticket \in [Calls -> Nat]
  /\ arrived \in Nat

Init ==
  /\ chains = [k \in Keys |-> NoCall]
  /\ pc = [c \in Calls |-> "new"]
  /\ key = [c \in Calls |-> NoKey]
  /\ prev = [c \in Calls |-> NoCall]
  /\ result = [c \in Calls |-> "pending"]
  /\ tail = [c \in Calls |-> "pending"]
  /\ ticket = [c \in Calls |-> 0]
  /\ arrived = 0

Goto(c, l) == pc' = [pc EXCEPT ![c] = l]

\* Mutant of RunExclusive: a key that is in the map keeps its tail.
RunExclusiveKeepsTail(c, k) ==
  /\ pc[c] = "new"
  /\ Goto(c, "waiting")
  /\ key' = [key EXCEPT ![c] = k]
  /\ prev' = [prev EXCEPT ![c] = chains[k]]
  /\ chains' = [chains EXCEPT ![k] = IF @ = NoCall THEN c ELSE @]
  /\ arrived' = arrived + 1
  /\ ticket' = [ticket EXCEPT ![c] = arrived + 1]
  /\ UNCHANGED <<result, tail>>

\* The synchronous part: chain onto the key's tail, or onto a resolved promise.
RunExclusive(c, k) ==
  /\ pc[c] = "new"
  /\ Goto(c, "waiting")
  /\ key' = [key EXCEPT ![c] = k]
  /\ prev' = [prev EXCEPT ![c] = chains[k]]
  /\ chains' = [chains EXCEPT ![k] = c]
  /\ arrived' = arrived + 1
  /\ ticket' = [ticket EXCEPT ![c] = arrived + 1]
  /\ UNCHANGED <<result, tail>>

\* prev.then(() => fn()): only a tail that resolved starts fn.
StartFn(c) ==
  /\ pc[c] = "waiting"
  /\ prev[c] # NoCall => pc[prev[c]] = "done" /\ tail[prev[c]] = "resolved"
  /\ Goto(c, "first")
  /\ UNCHANGED <<chains, key, prev, result, tail, ticket, arrived>>

\* composePull or composeDown has come back.
FirstCommand(c) ==
  /\ pc[c] = "first"
  /\ Goto(c, "second")
  /\ UNCHANGED <<chains, key, prev, result, tail, ticket, arrived>>

\* composeUp came back, or one of the two commands threw.
EndFn(c, r) ==
  /\ \/ pc[c] = "second"
     \/ pc[c] = "first" /\ r = "rejected"
  /\ result' = [result EXCEPT ![c] = r]
  /\ Goto(c, "left")
  /\ UNCHANGED <<chains, key, prev, tail, ticket, arrived>>

\* Mutant of SettleTail: the tail passes on how fn ended.
SettleTailAsResult(c) ==
  /\ pc[c] = "left"
  /\ tail' = [tail EXCEPT ![c] = result[c]]
  /\ Goto(c, "settled")
  /\ UNCHANGED <<chains, key, prev, result, ticket, arrived>>

\* result.then(() => {}, () => {}): the rejection stays with the caller.
SettleTail(c) ==
  /\ pc[c] = "left"
  /\ tail' = [tail EXCEPT ![c] = "resolved"]
  /\ Goto(c, "settled")
  /\ UNCHANGED <<chains, key, prev, result, ticket, arrived>>

\* Mutant of Finally: the key is dropped whoever holds its tail now.
FinallyDeletes(c) ==
  /\ pc[c] = "settled"
  /\ chains' = [chains EXCEPT ![key[c]] = NoCall]
  /\ Goto(c, "done")
  /\ UNCHANGED <<key, prev, result, tail, ticket, arrived>>

\* Mutant of Finally: the key is dropped only when somebody has chained on.
FinallyKeepsLast(c) ==
  /\ pc[c] = "settled"
  /\ chains' = [chains EXCEPT ![key[c]] = IF @ = c THEN @ ELSE NoCall]
  /\ Goto(c, "done")
  /\ UNCHANGED <<key, prev, result, tail, ticket, arrived>>

Finally(c) ==
  /\ pc[c] = "settled"
  /\ chains' = [chains EXCEPT ![key[c]] = IF @ = c THEN NoCall ELSE @]
  /\ Goto(c, "done")
  /\ UNCHANGED <<key, prev, result, tail, ticket, arrived>>

Job(c) ==
  \/ StartFn(c) \/ FirstCommand(c)
  \/ \E r \in Settled : EndFn(c, r)
  \/ SettleTail(c) \/ Finally(c)

Next == \E c \in Calls : (\E k \in Keys : RunExclusive(c, k)) \/ Job(c)

\* The event loop runs every job, and a remote command returns or times out.
Fairness == \A c \in Calls : WF_vars(Job(c))

Spec == Init /\ [][Next]_vars /\ Fairness

----------------------------------------------------------------------------
(* Properties *)

\* keyed-lock.ts: only one fn of a key runs at a time, also when the key was
\* dropped from the map and entered again while older calls were finishing.
OneHolder ==
  \A c, d \in Calls :
    pc[c] \in Running /\ pc[d] \in Running /\ key[c] = key[d] => c = d

\* The map knows a key as long as, and only as long as, some call on it is
\* unfinished, and then holds the tail of the last of them.
MapHoldsTheLast ==
  \A k \in Keys :
    LET open == {c \in Calls : key[c] = k /\ pc[c] # "done"}
    IN IF open = {} THEN chains[k] = NoCall
       ELSE chains[k] \in open /\ \A c \in open : ticket[c] <= ticket[chains[k]]

Phase == [c \in Calls |->
            IF pc[c] \in {"new", "waiting"} THEN pc[c]
            ELSE IF pc[c] \in Running THEN "inside" ELSE "left"]

Abstract == INSTANCE FifoMutex WITH phase <- Phase

\* keyed-lock.ts: "Calls with the same key queue behind each other in arrival
\* order": chained promises and a map that forgets idle keys implement the
\* first-come first-served mutex.
ImplementsMutex == Abstract!Spec

\* "A failed predecessor never blocks or poisons the next": every call gets its
\* turn and ends, whatever the calls before it did.
EveryCallEnds == \A c \in Calls : pc[c] = "waiting" ~> pc[c] = "done"
==============================================================================
