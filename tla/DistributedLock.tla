--------------------------- MODULE DistributedLock ---------------------------
(***************************************************************************)
(* The distributed lock of Superset on one key.  Acquiring creates an      *)
(* entry that expires after Ttl ticks, in Redis (SET NX EX) or in the      *)
(* key_value table of the database; releasing deletes whatever entry the   *)
(* key has, because an entry does not say whose it is.  A process that     *)
(* dies in its critical section, a release that fails and an acquisition   *)
(* whose answer is lost leave the entry to its expiry.                     *)
(*                                                                         *)
(* The expiry of a database entry is written in UTC and compared with the  *)
(* local clock: Offset is the local time of the host minus UTC.  Time is   *)
(* counted from the creation of the entry, so no clock is bounded.  An     *)
(* acquisition is one step: the unique index on the key makes the second   *)
(* of two open transactions wait for the first, and fail.                  *)
(***************************************************************************)
EXTENDS Integers

CONSTANTS
  Procs,
  Ttl,        \* ttl_seconds
  MaxHold,    \* the longest a critical section lasts
  Redis,      \* DISTRIBUTED_COORDINATION_CONFIG is set
  Offset

\* Mutant: a database on a host far east of Greenwich.
SkewOfEasternHost == Ttl

\* How many ticks too early an entry is taken for expired.
Skew == IF Redis THEN 0 ELSE Offset

\* A critical section ends before its entry expires: "they complete quickly".
ASSUME LockAssumption ==
  /\ Ttl \in Nat \ {0}
  /\ MaxHold \in Nat
  /\ Redis \in BOOLEAN
  /\ Offset \in Int
  /\ MaxHold + (IF Redis THEN 0 ELSE Offset) < Ttl

VARIABLES
  entry,      \* the key has an entry
  age,        \* ticks since the entry was created, until it has expired
  holding,    \* the processes in their critical section
  busy        \* ticks a process has spent in its critical section

vars == <<entry, age, holding, busy>>

TypeOK ==
  /\ entry \in BOOLEAN
  /\ age \in Nat
  /\ (age + Skew <= Ttl) \/ (age = 0)
  /\ holding \subseteq Procs
  /\ busy \in [Procs -> 0 .. MaxHold]

Init ==
  /\ entry = FALSE
  /\ age = 0
  /\ holding = {}
  /\ busy = [p \in Procs |-> 0]

\* Mutant: the limit is exclusive.
ExpiredLate == age + Skew > Ttl

\* expires_on <= now; Redis removes the key by itself.
Expired == age + Skew >= Ttl

Create == entry' = TRUE /\ age' = 0

\* AcquireDistributedLock.run: expired entries are deleted, the new one is
\* refused while there is another.
Acquire(p) ==
  /\ p \notin holding
  /\ ~entry \/ Expired
  /\ Create
  /\ holding' = holding \cup {p}
  /\ busy' = [busy EXCEPT ![p] = 0]

\* The entry is created but the answer is an error: the caller gives up.
AcquireUnheard(p) ==
  /\ p \notin holding
  /\ ~entry \/ Expired
  /\ Create
  /\ UNCHANGED <<holding, busy>>

Leave(p) ==
  /\ p \in holding
  /\ holding' = holding \ {p}
  /\ UNCHANGED busy

\* ReleaseDistributedLock.run deletes the entry of the key.
Release(p) ==
  /\ Leave(p)
  /\ entry' = FALSE
  /\ age' = 0

\* The release fails, or the process dies with the lock.
Abandon(p) == Leave(p) /\ UNCHANGED <<entry, age>>

\* Mutant: an entry is created without a time to live.
TickWithoutTtl ==
  /\ \A p \in holding : busy[p] < MaxHold
  /\ holding /= {} \/ (entry /\ ~Expired)
  /\ busy' = [p \in Procs |-> IF p \in holding THEN busy[p] + 1 ELSE busy[p]]
  /\ UNCHANGED <<entry, age, holding>>

\* Time passes; a critical section lasts at most MaxHold.
Tick ==
  /\ \A p \in holding : busy[p] < MaxHold
  /\ holding /= {} \/ (entry /\ ~Expired)
  /\ busy' = [p \in Procs |-> IF p \in holding THEN busy[p] + 1 ELSE busy[p]]
  /\ age' = IF entry /\ ~Expired THEN age + 1 ELSE age
  /\ UNCHANGED <<entry, holding>>

Next ==
  \/ \E p \in Procs : Acquire(p) \/ AcquireUnheard(p) \/ Release(p) \/ Abandon(p)
  \/ Tick

Spec == Init /\ [][Next]_vars

\* Time goes on, and every critical section ends.
Fairness ==
  /\ WF_vars(Tick)
  /\ \A p \in Procs : WF_vars(Release(p) \/ Abandon(p))

FairSpec == Spec /\ Fairness
-----------------------------------------------------------------------------
\* Mutual exclusion (task_lock: "ensuring mutual exclusion"): although a
\* release deletes an entry without asking whose it is, and an expired entry
\* is deleted by the next process, bodies under one key never overlap, as
\* long as each of them ends before its entry expires.
M == INSTANCE Mutex WITH inside <- holding
ImplementsMutex == M!Spec

\* DistributedLock: "the lock is automatically released to prevent deadlocks
\* from crashed processes": whatever dies or fails, an entry is deleted or
\* expires, so that the next process can have the lock.
LockComesFree == entry ~> (~entry \/ Expired)
=============================================================================
