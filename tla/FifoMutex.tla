------------------------------ MODULE FifoMutex ------------------------------
(***************************************************************************)
(* What src/lib/keyed-lock.ts promises: "for a given key, only one `fn`    *)
(* runs at a time", and "calls with the same key queue behind each other   *)
(* in arrival order; calls with different keys run concurrently".          *)
(***************************************************************************)
EXTENDS Integers

CONSTANTS
  Calls,   \* calls of runExclusive
  Keys,
  NoKey

VARIABLES
  phase,   \* call -> "new", "waiting", "inside" or "left"
  key,     \* call -> the key it was made with
  ticket,  \* call -> its place in the order of arrival
  arrived  \* how many calls have been made

vars == <<phase, key, ticket, arrived>>

Init ==
  /\ phase = [c \in Calls |-> "new"]
  /\ key = [c \in Calls |-> NoKey]
  /\ ticket = [c \in Calls |-> 0]
  /\ arrived = 0

Arrive(c, k) ==
  /\ phase[c] = "new"
  /\ phase' = [phase EXCEPT ![c] = "waiting"]
  /\ key' = [key EXCEPT ![c] = k]
  /\ arrived' = arrived + 1
  /\ ticket' = [ticket EXCEPT ![c] = arrived + 1]

\* Only the calls with the same key matter, and of them all that came before.
Enter(c) ==
  /\ phase[c] = "waiting"
  /\ \A d \in Calls :
       key[d] = key[c] /\ ticket[d] < ticket[c] => phase[d] = "left"
  /\ phase' = [phase EXCEPT ![c] = "inside"]
  /\ UNCHANGED <<key, ticket, arrived>>

Leave(c) ==
  /\ phase[c] = "inside"
  /\ phase' = [phase EXCEPT ![c] = "left"]
  /\ UNCHANGED <<key, ticket, arrived>>

Next == \E c \in Calls : (\E k \in Keys : Arrive(c, k)) \/ Enter(c) \/ Leave(c)

Spec == Init /\ [][Next]_vars
==============================================================================
