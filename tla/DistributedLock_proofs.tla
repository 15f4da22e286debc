----------------------- MODULE DistributedLock_proofs -----------------------
(***************************************************************************)
(* The distributed lock is type correct and implements mutual exclusion,   *)
(* for every number of processes, time to live and clock offset that leave *)
(* a critical section shorter than the life of its entry.                  *)
(***************************************************************************)
EXTENDS DistributedLock, TLAPS

\* A holder is alone, and the entry is the one it has created: it is there
\* and as old as the critical section.  Hence it has not expired, and nobody
\* else can replace it; and the entry a release deletes is the releaser's.
HolderOwnsEntry ==
  \A p \in holding : entry /\ age = busy[p] /\ (\A q \in holding : q = p)

IInv == TypeOK /\ HolderOwnsEntry

\* While somebody is in its critical section the entry has not expired.
LEMMA HeldIsNotExpired ==
  ASSUME IInv, NEW p \in holding
  PROVE  entry /\ ~Expired
<1>1. entry /\ age = busy[p]
  BY DEF IInv, HolderOwnsEntry
<1>2. p \in Procs /\ busy[p] \in 0 .. MaxHold
  BY DEF IInv, TypeOK
<1>3. age <= MaxHold /\ age \in Nat
  BY <1>1, <1>2, LockAssumption DEF LockAssumption
<1>4. Skew \in Int /\ MaxHold + Skew < Ttl
  BY LockAssumption DEF LockAssumption, Skew
<1> QED
  BY <1>1, <1>3, <1>4, LockAssumption DEF LockAssumption, Expired

\* Nobody is inside when a new entry can be created.
LEMMA FreeMeansNobody ==
  ASSUME IInv, ~entry \/ Expired
  PROVE  holding = {}
BY HeldIsNotExpired

LEMMA InitInv == Init => IInv
<1> SUFFICES ASSUME Init
             PROVE  IInv
  OBVIOUS
<1>1. 0 \in 0 .. MaxHold
  BY LockAssumption DEF LockAssumption
<1>2. busy \in [Procs -> 0 .. MaxHold]
  BY <1>1 DEF Init
<1>3. entry = FALSE /\ age = 0 /\ holding = {}
  BY DEF Init
<1> QED
  BY <1>2, <1>3 DEF IInv, TypeOK, HolderOwnsEntry

LEMMA AcquireInv ==
  ASSUME IInv, NEW p \in Procs, Acquire(p)
  PROVE  IInv'
<1>1. holding = {}
  BY FreeMeansNobody DEF Acquire
<1>2. holding' = {p} /\ entry' = TRUE /\ age' = 0
  BY <1>1 DEF Acquire, Create
<1>3. busy \in [Procs -> 0 .. MaxHold] /\ busy' = [busy EXCEPT ![p] = 0]
  BY DEF Acquire, IInv, TypeOK
<1>4. busy' \in [Procs -> 0 .. MaxHold] /\ busy'[p] = 0
  BY <1>3, LockAssumption DEF LockAssumption
<1>5. TypeOK'
  BY <1>2, <1>4 DEF TypeOK
<1>6. HolderOwnsEntry'
  BY <1>2, <1>4 DEF HolderOwnsEntry
<1> QED
  BY <1>5, <1>6 DEF IInv

LEMMA AcquireUnheardInv ==
  ASSUME IInv, NEW p \in Procs, AcquireUnheard(p)
  PROVE  IInv'
<1>1. holding' = {} /\ busy' = busy /\ entry' = TRUE /\ age' = 0
  BY FreeMeansNobody DEF AcquireUnheard, Create
<1> QED
  BY <1>1 DEF IInv, TypeOK, HolderOwnsEntry

LEMMA ReleaseInv ==
  ASSUME IInv, NEW p \in Procs, Release(p)
  PROVE  IInv'
<1>1. holding' = {} /\ busy' = busy /\ entry' = FALSE /\ age' = 0
  BY DEF Release, Leave, IInv, HolderOwnsEntry
<1> QED
  BY <1>1 DEF IInv, TypeOK, HolderOwnsEntry

LEMMA AbandonInv ==
  ASSUME IInv, NEW p \in Procs, Abandon(p)
  PROVE  IInv'
<1>1. holding' = {} /\ busy' = busy /\ entry' = entry /\ age' = age
  BY DEF Abandon, Leave, IInv, HolderOwnsEntry
<1> QED
  BY <1>1 DEF IInv, TypeOK, HolderOwnsEntry, Skew

LEMMA TickInv ==
  ASSUME IInv, Tick
  PROVE  IInv'
<1> USE DEF IInv
<1>1. entry' = entry /\ holding' = holding
  BY DEF Tick
<1>2. Skew \in Int /\ Ttl \in Nat
  BY LockAssumption DEF LockAssumption, Skew
<1>3. busy' \in [Procs -> 0 .. MaxHold]
  <2>1. ASSUME NEW q \in Procs
        PROVE  (IF q \in holding THEN busy[q] + 1 ELSE busy[q]) \in 0 .. MaxHold
    BY LockAssumption DEF LockAssumption, Tick, TypeOK
  <2> QED
    BY <2>1 DEF Tick
<1>4. age' \in Nat /\ ((age' + Skew <= Ttl) \/ (age' = 0))
  BY <1>2 DEF Tick, TypeOK, Expired
<1>5. TypeOK'
  BY <1>1, <1>3, <1>4 DEF TypeOK, Skew
<1>6. HolderOwnsEntry'
  <2>1. SUFFICES ASSUME NEW q \in holding
                 PROVE  entry /\ age' = busy'[q] /\ (\A r \in holding : r = q)
    BY <1>1 DEF HolderOwnsEntry
  <2>2. entry /\ ~Expired
    BY HeldIsNotExpired
  <2>3. age = busy[q] /\ (\A r \in holding : r = q) /\ q \in Procs
    BY DEF HolderOwnsEntry, TypeOK
  <2>4. age' = age + 1 /\ busy'[q] = busy[q] + 1
    BY <2>2, <2>3 DEF Tick
  <2> QED
    BY <2>2, <2>3, <2>4
<1> QED
  BY <1>5, <1>6

LEMMA StutterInv ==
  ASSUME IInv, UNCHANGED vars
  PROVE  IInv'
BY DEF IInv, TypeOK, HolderOwnsEntry, vars, Skew

LEMMA NextInv == IInv /\ [Next]_vars => IInv'
<1> SUFFICES ASSUME IInv, [Next]_vars
             PROVE  IInv'
  OBVIOUS
<1>1. CASE Tick
  BY <1>1, TickInv
<1>2. ASSUME NEW p \in Procs,
             Acquire(p) \/ AcquireUnheard(p) \/ Release(p) \/ Abandon(p)
      PROVE  IInv'
  BY <1>2, AcquireInv, AcquireUnheardInv, ReleaseInv, AbandonInv
<1>3. CASE UNCHANGED vars
  BY <1>3, StutterInv
<1> QED
  BY <1>1, <1>2, <1>3 DEF Next

\* The inductive invariant holds in every reachable state.
LEMMA Invariance == Spec => []IInv
<1> QED
  BY InitInv, NextInv, PTL DEF Spec

\* Every reachable state of the lock is well typed; in particular an entry
\* never lives past the moment its expiry is noticed.
THEOREM LockTypeCorrect == Spec => []TypeOK
<1>1. IInv => TypeOK
  BY DEF IInv
<1> QED
  BY <1>1, Invariance, PTL

\* DistributedLock implements mutual exclusion: entering means that nobody is
\* inside, whoever releases, dies or fails to hear of its acquisition.
THEOREM LockImplementsMutex == Spec => ImplementsMutex
<1>1. Init => M!Init
  BY DEF Init, M!Init
<1>2. IInv /\ [Next]_vars => [M!Next]_holding
  <2> SUFFICES ASSUME IInv, [Next]_vars
               PROVE  [M!Next]_holding
    OBVIOUS
  <2>1. ASSUME NEW p \in Procs, Acquire(p)
        PROVE  M!Next
    <3>1. M!Enter(p)
      BY <2>1, FreeMeansNobody DEF Acquire, M!Enter
    <3> QED
      BY <3>1 DEF M!Next
  <2>2. ASSUME NEW p \in Procs, Release(p) \/ Abandon(p)
        PROVE  M!Next
    <3>1. M!Leave(p)
      BY <2>2 DEF Release, Abandon, Leave, M!Leave
    <3> QED
      BY <3>1 DEF M!Next
  <2>3. ASSUME NEW p \in Procs, AcquireUnheard(p)
        PROVE  holding' = holding
    BY <2>3 DEF AcquireUnheard
  <2>4. CASE Tick
    BY <2>4 DEF Tick
  <2>5. CASE UNCHANGED vars
    BY <2>5 DEF vars
  <2> QED
    BY <2>1, <2>2, <2>3, <2>4, <2>5 DEF Next
<1> QED
  BY <1>1, <1>2, Invariance, PTL DEF Spec, ImplementsMutex, M!Spec
=============================================================================
