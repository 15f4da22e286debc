----------------------------- MODULE TaskSlots -----------------------------
(***************************************************************************)
(* What the Global Task Framework promises of deduplication, without its   *)
(* processes, locks and statuses: a task takes the slot of its key when it *)
(* is created, its function is started at most once and only while it      *)
(* holds the slot, and it gives the slot back once and for all.            *)
(*                                                                         *)
(* It is not promised that the slot is held until the function returns:    *)
(* see OneBodyPerKey in TaskClaims.                                        *)
(***************************************************************************)
EXTENDS Naturals

CONSTANTS Tasks, Keys

VARIABLES
  created,  \* the tasks that have been created
  holders,  \* the tasks that hold the slot of each key
  starts    \* how often the function of each task has been started

vars == <<created, holders, starts>>

Init ==
  /\ created = {}
  /\ holders = [k \in Keys |-> {}]
  /\ starts = [t \in Tasks |-> 0]

Create(t, k) ==
  /\ t \notin created
  /\ holders[k] = {}
  /\ created' = created \cup {t}
  /\ holders' = [holders EXCEPT ![k] = {t}]
  /\ UNCHANGED starts

Start(t, k) ==
  /\ t \in holders[k]
  /\ starts[t] = 0
  /\ starts' = [starts EXCEPT ![t] = 1]
  /\ UNCHANGED <<created, holders>>

Release(t, k) ==
  /\ t \in holders[k]
  /\ holders' = [holders EXCEPT ![k] = {}]
  /\ UNCHANGED <<created, starts>>

Next == \E t \in Tasks, k \in Keys : Create(t, k) \/ Start(t, k) \/ Release(t, k)

Spec == Init /\ [][Next]_vars
=============================================================================
