------------------------- MODULE AsyncCharts_proofs -------------------------
(***************************************************************************)
(* Proofs about the asynchronous charts, for any set of requests, any      *)
(* number of faults and any sizes of the pages Redis and the application   *)
(* answer with.                                                            *)
(*                                                                         *)
(* The invariant IInv has one part per component: the streams are ordered  *)
(* by their ids (StreamsInv), live sockets are registered (ServerInv),     *)
(* every connection after the first follows a fault (WsInv), the state of  *)
(* the listeners is typed (WaitTyped), everything up to the cursor, to an  *)
(* event that waits for its retry, and to a page on its way was received   *)
(* or is on that page (PollInv), and an earlier run without an answer is   *)
(* going to be aborted before the current one is answered (ChartInv).      *)
(*                                                                         *)
(* The loop of processEvents is a recursive function: what it computes is  *)
(* shown by induction over the natural numbers, stated with the set of the *)
(* numbers for which a fact holds (LeastNat, Induction).                   *)
(***************************************************************************)
EXTENDS AsyncCharts, SequenceTheorems, WellFoundedInduction, TLAPS

\* Every nonempty set of natural numbers has a least element.
LEMMA LeastNat ==
  ASSUME NEW T, T \subseteq Nat, T /= {}
  PROVE  \E n \in T : \A m \in T : n <= m
<1> DEFINE R == OpToRel(<, Nat)
<1>1. IsWellFoundedOn(R, Nat)
  BY NatLessThanWellFounded
<1>2. \A a, b \in Nat : a < b => <<a, b>> \in R
  BY DEF OpToRel
<1> HIDE DEF R
<1>3. PICK n \in T : \A m \in T : ~(<<m, n>> \in R)
  BY <1>1, WFMin
<1>4. \A m \in T : ~(m < n)
  BY <1>2, <1>3
<1> QED
  BY <1>3, <1>4

\* A set with 0, and with n + 1 for every n in it, holds all numbers.
LEMMA Induction ==
  ASSUME NEW P, 0 \in P, \A n \in Nat : n \in P => n + 1 \in P
  PROVE  Nat \subseteq P
<1> SUFFICES ASSUME Nat \ P /= {}
             PROVE  FALSE
  OBVIOUS
<1>1. PICK n \in Nat \ P : \A m \in Nat \ P : n <= m
  BY LeastNat
<1>2. n - 1 \in Nat /\ n - 1 \in P
  BY <1>1
<1> QED
  BY <1>1, <1>2

\* The equation of the loop of processEvents, and that it has a solution.
Turn(g, i, w, events) == IF i = 0 THEN w ELSE ProcessEvent(g[i - 1], events[i])

LEMMA TurnsExist ==
  ASSUME NEW w, NEW events, NEW n \in Nat
  PROVE  \E g : g = [i \in 0 .. n |-> Turn(g, i, w, events)]
<1> DEFINE P == {m \in Nat : \E g : g = [i \in 0 .. m |-> Turn(g, i, w, events)]}
<1>1. 0 \in P
  <2> DEFINE g == [i \in 0 .. 0 |-> w]
  <2>1. g = [i \in 0 .. 0 |-> Turn(g, i, w, events)]
    BY DEF Turn
  <2> QED
    BY <2>1
<1>2. ASSUME NEW m \in Nat, m \in P
      PROVE  m + 1 \in P
  <2>1. PICK g : g = [i \in 0 .. m |-> Turn(g, i, w, events)]
    BY <1>2
  <2> DEFINE h == [i \in 0 .. m + 1 |-> IF i <= m THEN g[i] ELSE Turn(g, i, w, events)]
  <2>2. \A i \in 0 .. m + 1 : h[i] = Turn(h, i, w, events)
    BY <2>1 DEF Turn
  <2>3. h = [i \in 0 .. m + 1 |-> Turn(h, i, w, events)]
    BY <2>2
  <2> HIDE DEF h
  <2>4. \E k : k = [i \in 0 .. m + 1 |-> Turn(k, i, w, events)]
    BY <2>3
  <2> QED
    BY <2>4
<1> HIDE DEF P
<1>3. Nat \subseteq P
  BY <1>1, <1>2, Induction
<1> QED
  BY <1>3 DEF P

\* The states of the loop, turn by turn.
LEMMA TurnsUnfold ==
  ASSUME NEW w, NEW events, Len(events) \in Nat
  PROVE  /\ Turns(w, events)[0] = w
         /\ \A i \in 1 .. Len(events) :
              Turns(w, events)[i] = ProcessEvent(Turns(w, events)[i - 1], events[i])
<1> DEFINE T == Turns(w, events)
<1>1. \E g : g = [i \in 0 .. Len(events) |-> IF i = 0 THEN w ELSE ProcessEvent(g[i - 1], events[i])]
  <2>1. PICK g : g = [i \in 0 .. Len(events) |-> Turn(g, i, w, events)]
    BY TurnsExist
  <2>2. g = [i \in 0 .. Len(events) |-> IF i = 0 THEN w ELSE ProcessEvent(g[i - 1], events[i])]
    BY <2>1 DEF Turn
  <2> QED
    BY <2>2
<1>2. T = [i \in 0 .. Len(events) |-> IF i = 0 THEN w ELSE ProcessEvent(T[i - 1], events[i])]
  BY <1>1 DEF Turns
<1> HIDE DEF T
<1> QED
  BY <1>2 DEF T

Timers == UNION {[D -> Nat \ {0}] : D \in SUBSET Entry}

LEMMA TimersGrow ==
  ASSUME NEW t \in Timers, NEW e \in Entry
  PROVE  t (+) SetToBag({e}) \in Timers /\ DOMAIN (t (+) SetToBag({e})) \subseteq DOMAIN t \cup {e}
<1>1. PICK D \in SUBSET Entry : t \in [D -> Nat \ {0}]
  BY DEF Timers
<1> DEFINE count(d) == (IF d \in D THEN t[d] ELSE 0) + (IF d \in {e} THEN 1 ELSE 0)
           b == [d \in D \cup {e} |-> count(d)]
<1>2. t (+) SetToBag({e}) = b
  <2>1. DOMAIN SetToBag({e}) = {e} /\ SetToBag({e})[e] = 1 /\ DOMAIN t = D
    BY <1>1 DEF SetToBag
  <2> QED
    BY <2>1 DEF (+)
<1>3. \A d \in D \cup {e} : count(d) \in Nat \ {0}
  BY <1>1
<1> HIDE DEF count
<1>4. b \in [D \cup {e} -> Nat \ {0}] /\ D \cup {e} \in SUBSET Entry
  BY <1>3
<1>5. b \in Timers /\ DOMAIN b = D \cup {e} /\ DOMAIN t = D
  BY <1>1, <1>4 DEF Timers
<1> QED
  BY <1>2, <1>5

LEMMA TimersShrink ==
  ASSUME NEW t \in Timers, NEW e \in Entry
  PROVE  t (-) SetToBag({e}) \in Timers /\ DOMAIN (t (-) SetToBag({e})) \subseteq DOMAIN t
<1>1. PICK D \in SUBSET Entry : t \in [D -> Nat \ {0}]
  BY DEF Timers
<1> DEFINE left == [d \in D |-> IF d \in {e} THEN t[d] - 1 ELSE t[d]]
           L == {d \in D : left[d] > 0}
           b == [d \in L |-> left[d]]
<1>2. t (-) SetToBag({e}) = b
  <2>1. DOMAIN SetToBag({e}) = {e} /\ SetToBag({e})[e] = 1 /\ DOMAIN t = D
    BY <1>1 DEF SetToBag
  <2>2. left = [d \in DOMAIN t |-> IF d \in DOMAIN SetToBag({e}) THEN t[d] - SetToBag({e})[d] ELSE t[d]]
    BY <2>1
  <2>3. DOMAIN left = D
    OBVIOUS
  <2> HIDE DEF left
  <2> QED
    BY <2>2, <2>3 DEF (-)
<1>3. left \in [D -> Nat]
  BY <1>1
<1> HIDE DEF left
<1>4. b \in [L -> Nat \ {0}] /\ L \in SUBSET Entry
  BY <1>3
<1>5. b \in Timers /\ DOMAIN b = L /\ DOMAIN t = D
  BY <1>1, <1>4 DEF Timers
<1> QED
  BY <1>2, <1>5

Promises == {"none", "pending", "resolved", "rejected"}

WaitStates ==
  [listeners : SUBSET Requests, retries : [Requests -> 0 .. MaxRetries], timers : Timers,
   lastId : Nat, fetching : SUBSET Requests, promise : [Requests -> Promises],
   givenUp : SUBSET Requests]

\* What a turn of the loop, and any number of turns for events of S, may do.
After(w, v, S) ==
  /\ v \in WaitStates
  /\ v.listeners \subseteq w.listeners
  /\ v.fetching \subseteq w.fetching \cup w.listeners
  /\ \A r \in Requests : v.promise[r] = "pending" => w.promise[r] = "pending"
  /\ v.lastId = w.lastId \/ \E e \in S : v.lastId = e.id
  /\ DOMAIN v.timers \subseteq DOMAIN w.timers \cup S

LEMMA TurnFacts ==
  ASSUME NEW w \in WaitStates, NEW e \in Entry
  PROVE  After(w, ProcessEvent(w, e), {e})
<1>1. e.job \in Requests /\ e.id \in Nat
  BY DEF Entry
<1>2. /\ w.retries \in [Requests -> 0 .. MaxRetries] /\ w.promise \in [Requests -> Promises]
      /\ w.timers \in Timers /\ w.listeners \subseteq Requests /\ w.fetching \subseteq Requests
      /\ w.givenUp \subseteq Requests /\ MaxRetries \in Nat
  BY RetriesAssumption DEF WaitStates, RetriesAssumption
<1>3. [w.retries EXCEPT ![e.job] = 0] \in [Requests -> 0 .. MaxRetries]
  BY <1>1, <1>2
<1> DEFINE v == IF e.job \in w.listeners THEN CallListener(w, e) ELSE RetryLater(w, e)
<1>4. After(w, v, {e})
  <2>1. CASE e.job \in w.listeners /\ job[e.job].status = "done"
    <3>1. v = [w EXCEPT !.retries = [w.retries EXCEPT ![e.job] = 0],
                        !.fetching = w.fetching \cup {e.job}]
      BY <2>1 DEF CallListener, WaitStates
    <3> HIDE DEF v
    <3>2. v \in WaitStates
      BY <1>1, <1>2, <1>3, <3>1 DEF WaitStates
    <3> QED
      BY <1>2, <2>1, <3>1, <3>2 DEF After, WaitStates
  <2>2. CASE e.job \in w.listeners /\ job[e.job].status /= "done"
    <3> DEFINE p == [w.promise EXCEPT ![e.job] = IF @ = "pending" THEN "rejected" ELSE @]
    <3>1. v = [w EXCEPT !.retries = [w.retries EXCEPT ![e.job] = 0],
                        !.listeners = w.listeners \ {e.job}, !.promise = p]
      BY <2>2 DEF CallListener, WaitStates
    <3> HIDE DEF v
    <3>2. p \in [Requests -> Promises] /\ \A r \in Requests : p[r] = "pending" => w.promise[r] = "pending"
      BY <1>1, <1>2 DEF Promises
    <3> HIDE DEF p
    <3>3. v \in WaitStates
      BY <1>1, <1>2, <1>3, <3>1, <3>2 DEF WaitStates
    <3> QED
      BY <1>2, <3>1, <3>2, <3>3 DEF After, WaitStates
  <2>3. CASE e.job \notin w.listeners /\ w.retries[e.job] < MaxRetries
    <3> DEFINE n == [w.retries EXCEPT ![e.job] = @ + 1]
               t == w.timers (+) SetToBag({e})
    <3>1. v = [w EXCEPT !.retries = n, !.timers = t]
      BY <2>3 DEF RetryLater, WaitStates
    <3> HIDE DEF v
    <3>2. n \in [Requests -> 0 .. MaxRetries]
      <4>1. w.retries[e.job] + 1 \in 0 .. MaxRetries
        BY <1>1, <1>2, <2>3
      <4> QED
        BY <1>1, <1>2, <4>1
    <3>3. t \in Timers /\ DOMAIN t \subseteq DOMAIN w.timers \cup {e}
      BY <1>2, TimersGrow
    <3> HIDE DEF n, t
    <3>4. v \in WaitStates
      BY <1>2, <3>1, <3>2, <3>3 DEF WaitStates
    <3> QED
      BY <1>2, <3>1, <3>3, <3>4 DEF After, WaitStates
  <2>4. CASE e.job \notin w.listeners /\ ~(w.retries[e.job] < MaxRetries)
    <3>1. v = [w EXCEPT !.retries = [w.retries EXCEPT ![e.job] = 0],
                        !.givenUp = w.givenUp \cup {e.job}]
      BY <2>4 DEF RetryLater, WaitStates
    <3> HIDE DEF v
    <3>2. v \in WaitStates
      BY <1>1, <1>2, <1>3, <3>1 DEF WaitStates
    <3> QED
      BY <1>2, <3>1, <3>2 DEF After, WaitStates
  <2> QED
    BY <2>1, <2>2, <2>3, <2>4
<1> DEFINE u == [v EXCEPT !.lastId = e.id]
<1>5. ProcessEvent(w, e) = u
  BY DEF ProcessEvent
<1> HIDE DEF v
<1>6. u \in WaitStates /\ u.lastId = e.id /\ u.listeners = v.listeners /\ u.fetching = v.fetching
      /\ u.promise = v.promise /\ u.timers = v.timers
  BY <1>1, <1>4 DEF After, WaitStates
<1> HIDE DEF u
<1>7. After(w, u, {e})
  BY <1>4, <1>6 DEF After
<1> QED
  BY <1>5, <1>7

LEMMA TurnsFacts ==
  ASSUME NEW w \in WaitStates, NEW events \in Seq(Entry)
  PROVE  After(w, Turns(w, events)[Len(events)], Range(events))
<1> DEFINE T == Turns(w, events)
           P == {n \in Nat : n <= Len(events) => After(w, T[n], Range(events))}
<1>0. Len(events) \in Nat /\ Range(events) \subseteq Entry
      /\ \A i \in 1 .. Len(events) : events[i] \in Entry /\ events[i] \in Range(events)
  BY DEF Range
<1>1. T[0] = w /\ \A i \in 1 .. Len(events) : T[i] = ProcessEvent(T[i - 1], events[i])
  BY <1>0, TurnsUnfold
<1> HIDE DEF T
<1>2. 0 \in P
  BY <1>1 DEF After
<1>3. ASSUME NEW n \in Nat, n \in P
      PROVE  n + 1 \in P
  <2> SUFFICES ASSUME n + 1 <= Len(events)
               PROVE  After(w, T[n + 1], Range(events))
    OBVIOUS
  <2>1. After(w, T[n], Range(events))
    BY <1>0, <1>3
  <2>2. n + 1 \in 1 .. Len(events) /\ (n + 1) - 1 = n
    BY <1>0
  <2>3. T[n + 1] = ProcessEvent(T[n], events[n + 1])
    BY <1>1, <2>2
  <2>4. T[n] \in WaitStates /\ events[n + 1] \in Entry /\ events[n + 1] \in Range(events)
    BY <1>0, <2>1, <2>2 DEF After
  <2>5. After(T[n], T[n + 1], {events[n + 1]})
    BY <2>3, <2>4, TurnFacts
  <2> QED
    BY <2>1, <2>4, <2>5 DEF After
<1> HIDE DEF P
<1>4. Nat \subseteq P
  BY <1>2, <1>3, Induction
<1> QED
  BY <1>0, <1>4 DEF P, T

LEMMA MinMax ==
  ASSUME NEW S, S \subseteq Nat, S /= {}, NEW n \in Nat, \A i \in S : i <= n
  PROVE  /\ Min(S) \in S /\ \A i \in S : Min(S) <= i
         /\ Max(S) \in S /\ \A i \in S : i <= Max(S)
<1>1. \E x \in S : \A y \in S : x <= y
  BY LeastNat
<1>2. Min(S) \in S /\ \A i \in S : Min(S) <= i
  BY <1>1 DEF Min
<1> DEFINE T == {u \in Nat : \A i \in S : i <= u}
<1>3. PICK u \in T : \A v \in T : u <= v
  <2>1. n \in T /\ T \subseteq Nat
    OBVIOUS
  <2> QED
    BY <2>1, LeastNat
<1>4. u \in S
  <2> SUFFICES ASSUME u \notin S
               PROVE  FALSE
    OBVIOUS
  <2>0. PICK i \in S : i \in Nat /\ i <= u /\ i /= u
    BY <1>3
  <2>1. u \in Nat /\ u > 0
    BY <1>3, <2>0
  <2>2. u - 1 \in T
    BY <1>3, <2>1
  <2> QED
    BY <1>3, <2>1, <2>2
<1>5. \E x \in S : \A y \in S : x >= y
  BY <1>3, <1>4
<1>6. Max(S) \in S /\ \A i \in S : Max(S) >= i
  BY <1>5 DEF Max
<1> QED
  BY <1>2, <1>6

\* The places of a stream whose ids are in a range.
Within(stream, from, to) == {i \in DOMAIN stream : from <= stream[i].id /\ stream[i].id <= to}

LEMMA XrangeIsPart ==
  ASSUME NEW stream \in Seq(Entry), NEW from \in Nat, NEW to \in Nat,
         Within(stream, from, to) /= {}
  PROVE  \E a, b \in Within(stream, from, to) :
           /\ \A i \in Within(stream, from, to) : a <= i /\ i <= b
           /\ Xrange(stream, from, to) = SubSeq(stream, a, b)
<1> DEFINE W == Within(stream, from, to)
<1>1. W /= {} /\ Xrange(stream, from, to) = SubSeq(stream, Min(W), Max(W))
  BY DEF Xrange, Within
<1>2. W \subseteq 1 .. Len(stream) /\ Len(stream) \in Nat
  BY DEF Within
<1> HIDE DEF W
<1>3. W \subseteq Nat /\ \A i \in W : i <= Len(stream)
  BY <1>2
<1>4. /\ Min(W) \in W /\ \A i \in W : Min(W) <= i
      /\ Max(W) \in W /\ \A i \in W : i <= Max(W)
  BY <1>1, <1>2, <1>3, MinMax
<1>5. \E a, b \in W : (\A i \in W : a <= i /\ i <= b)
                     /\ Xrange(stream, from, to) = SubSeq(stream, a, b)
  BY <1>1, <1>4
<1> QED
  BY <1>5 DEF W

LEMMA XrangeTyped ==
  ASSUME NEW stream \in Seq(Entry), NEW from \in Nat, NEW to \in Nat
  PROVE  Xrange(stream, from, to) \in Seq(Entry)
<1>1. CASE Within(stream, from, to) = {}
  BY <1>1 DEF Xrange, Within
<1>2. CASE Within(stream, from, to) /= {}
  <2>1. PICK a, b \in Within(stream, from, to) : Xrange(stream, from, to) = SubSeq(stream, a, b)
    BY <1>2, XrangeIsPart
  <2>2. a \in 1 .. Len(stream) /\ b \in 1 .. Len(stream)
    BY DEF Within
  <2>3. a \in Int /\ b \in Int /\ \A i \in a .. b : stream[i] \in Entry
    BY <2>2
  <2> QED
    BY <2>1, <2>3, SubSeqProperties
<1> QED
  BY <1>1, <1>2

LEMMA EntryFacts ==
  ASSUME NEW stream \in Seq(Entry)
  PROVE  \A i \in DOMAIN stream : stream[i] \in Entry /\ stream[i].id \in Nat
                                  /\ stream[i].job \in Requests
<1>1. \A i \in DOMAIN stream : stream[i] \in Entry
  OBVIOUS
<1> QED
  BY <1>1 DEF Entry

Increasing(stream) == \A i, j \in DOMAIN stream : i < j => stream[i].id < stream[j].id

\* XRANGE returns the entries from some place on, as long as they are in the
\* range; no entry before this place is in it.
LEMMA XrangeFacts ==
  ASSUME NEW stream \in Seq(Entry), Increasing(stream), NEW from \in Nat, NEW to \in Nat,
         Xrange(stream, from, to) /= <<>>
  PROVE  \E lo \in Nat :
           /\ \A i \in 1 .. lo : i \in DOMAIN stream /\ stream[i].id < from
           /\ \A k \in 1 .. Len(Xrange(stream, from, to)) :
                lo + k \in DOMAIN stream /\ Xrange(stream, from, to)[k] = stream[lo + k]
           /\ \A i \in DOMAIN stream :
                lo + Len(Xrange(stream, from, to)) < i => to < stream[i].id
<1> DEFINE x == Xrange(stream, from, to)
           W == Within(stream, from, to)
           n == Len(stream)
<1>0. n \in Nat /\ DOMAIN stream = 1 .. n /\ \A i \in 1 .. n : stream[i] \in Entry
  OBVIOUS
<1>1. \A i \in 1 .. n : stream[i].id \in Nat
  BY <1>0 DEF Entry
<1>2. PICK a, b \in W : (\A i \in W : a <= i /\ i <= b) /\ x = SubSeq(stream, a, b)
  <2>1. Within(stream, from, to) /= {}
    BY DEF Xrange, Within
  <2> QED
    BY <2>1, XrangeIsPart
<1>3. /\ a \in 1 .. n /\ b \in 1 .. n
      /\ from <= stream[a].id /\ stream[b].id <= to /\ stream[a].id <= to /\ from <= stream[b].id
  BY <1>0, <1>2 DEF Within
<1>4. \A i \in 1 .. n : i < a \/ b < i => ~(from <= stream[i].id /\ stream[i].id <= to)
  <2> SUFFICES ASSUME NEW i \in 1 .. n, i < a \/ b < i, i \in W
               PROVE  FALSE
    BY <1>0 DEF Within
  <2> HIDE DEF W
  <2> QED
    BY <1>0, <1>2, <1>3
<1>10. a <= b /\ a - 1 \in Nat
  BY <1>2, <1>3
<1> HIDE DEF W, n, x
<1>5. ASSUME NEW i \in 1 .. a - 1
      PROVE  i \in DOMAIN stream /\ stream[i].id < from
  <2>1. i \in 1 .. n /\ i < a
    BY <1>0, <1>3
  <2>2. stream[i].id < stream[a].id
    BY <1>0, <1>3, <2>1 DEF Increasing
  <2> QED
    BY <1>0, <1>1, <1>3, <1>4, <2>1, <2>2
<1>6. ASSUME NEW i \in 1 .. n, b < i
      PROVE  to < stream[i].id
  <2>1. stream[b].id < stream[i].id
    BY <1>0, <1>3, <1>6 DEF Increasing
  <2> QED
    BY <1>0, <1>1, <1>3, <1>4, <1>6, <2>1
<1>7. Len(x) = b - a + 1 /\ \A k \in 1 .. b - a + 1 : x[k] = stream[a + k - 1]
  <2>1. a \in Int /\ b \in Int /\ \A i \in a .. b : stream[i] \in Entry
    BY <1>0, <1>3
  <2> QED
    BY <1>2, <1>3, <1>10, <2>1, SubSeqProperties
<1>8. ASSUME NEW k \in 1 .. Len(x)
      PROVE  a - 1 + k \in DOMAIN stream /\ x[k] = stream[a - 1 + k]
  <2>1. k \in 1 .. b - a + 1 /\ a + k - 1 = a - 1 + k /\ a - 1 + k \in 1 .. n
    BY <1>0, <1>3, <1>7
  <2> QED
    BY <1>0, <1>7, <2>1
<1>9. ASSUME NEW i \in DOMAIN stream, a - 1 + Len(x) < i
      PROVE  b < i
  BY <1>0, <1>3, <1>7, <1>9
<1>11. \E lo \in Nat :
         /\ \A i \in 1 .. lo : i \in DOMAIN stream /\ stream[i].id < from
         /\ \A k \in 1 .. Len(x) : lo + k \in DOMAIN stream /\ x[k] = stream[lo + k]
         /\ \A i \in DOMAIN stream : lo + Len(x) < i => to < stream[i].id
  BY <1>0, <1>10, <1>5, <1>6, <1>8, <1>9
<1> QED
  BY <1>11 DEF x

LEMMA AtMostFacts ==
  ASSUME NEW x \in Seq(Entry), NEW n \in Nat
  PROVE  /\ AtMost(n, x) \in Seq(Entry) /\ Len(AtMost(n, x)) <= Len(x)
         /\ \A k \in 1 .. Len(AtMost(n, x)) : AtMost(n, x)[k] = x[k]
         /\ n /= 0 /\ x /= <<>> => AtMost(n, x) /= <<>>
<1> DEFINE m == IF Len(x) < n THEN Len(x) ELSE n
<1>1. m \in Nat /\ m <= Len(x) /\ Len(x) \in Nat /\ (n /= 0 /\ x /= <<>> => m /= 0)
  OBVIOUS
<1>2. AtMost(n, x) = SubSeq(x, 1, m)
  BY DEF AtMost
<1> HIDE DEF m
<1>3. 1 \in Int /\ m \in Int /\ \A i \in 1 .. m : x[i] \in Entry
  BY <1>1
<1>4. /\ SubSeq(x, 1, m) \in Seq(Entry)
      /\ Len(SubSeq(x, 1, m)) = IF 1 <= m THEN m - 1 + 1 ELSE 0
      /\ \A i \in 1 .. m - 1 + 1 : SubSeq(x, 1, m)[i] = x[1 + i - 1]
  BY <1>3, SubSeqProperties
<1>5. Len(SubSeq(x, 1, m)) = m /\ \A i \in 1 .. m : SubSeq(x, 1, m)[i] = x[i]
  BY <1>1, <1>4
<1> QED
  BY <1>1, <1>2, <1>4, <1>5
-----------------------------------------------------------------------------
(***************************************************************************)
(* The streams of Redis.                                                   *)
(***************************************************************************)
Ordered(stream) == Increasing(stream) /\ \A i \in DOMAIN stream : stream[i].id <= tick

StreamsInv == StreamsTypeOK /\ Ordered(scoped) /\ Ordered(full)

\* What is added to the stream of the channel is newer than everything.
StreamsGrow ==
  /\ tick \in Nat /\ tick' \in Nat /\ tick <= tick'
  /\ \A i \in DOMAIN scoped' :
       scoped'[i].id > tick \/ (i \in DOMAIN scoped /\ scoped'[i] = scoped[i])

LEMMA XaddFacts ==
  ASSUME NEW stream \in Seq(Entry), Ordered(stream), NEW r \in Requests, tick \in Nat
  PROVE  /\ Xadd(stream, r) \in Seq(Entry) /\ Increasing(Xadd(stream, r))
         /\ \A i \in DOMAIN Xadd(stream, r) :
              /\ Xadd(stream, r)[i].id <= tick + 1
              /\ Xadd(stream, r)[i].id > tick
                 \/ (i \in DOMAIN stream /\ Xadd(stream, r)[i] = stream[i])
<1> DEFINE e == [id |-> tick + 1, job |-> r]
           x == Append(stream, e)
           n == Len(stream)
<1>1. e \in Entry /\ e.id = tick + 1 /\ Xadd(stream, r) = x
  BY DEF Entry, Xadd
<1> HIDE DEF e
<1>2. /\ x \in Seq(Entry) /\ DOMAIN x = 1 .. n + 1 /\ n \in Nat /\ DOMAIN stream = 1 .. n
      /\ \A i \in 1 .. n : x[i] = stream[i]
      /\ x[n + 1] = e
  BY <1>1
<1>3. \A i \in 1 .. n : stream[i].id \in Nat /\ stream[i].id <= tick
  BY <1>2, EntryFacts DEF Ordered
<1>4. Increasing(stream)
  BY DEF Ordered
<1> HIDE DEF x, n
<1>5. \A i \in 1 .. n + 1 : x[i].id <= tick + 1
         /\ (x[i].id > tick \/ (i \in 1 .. n /\ x[i] = stream[i]))
  BY <1>1, <1>2, <1>3
<1>6. \A i, j \in 1 .. n + 1 : i < j => x[i].id < x[j].id
  <2> SUFFICES ASSUME NEW i \in 1 .. n + 1, NEW j \in 1 .. n + 1, i < j
               PROVE  x[i].id < x[j].id
    OBVIOUS
  <2>1. i \in 1 .. n /\ (j \in 1 .. n \/ j = n + 1)
    BY <1>2
  <2>2. CASE j \in 1 .. n
    BY <1>2, <1>4, <2>1, <2>2 DEF Increasing
  <2>3. CASE j = n + 1
    BY <1>1, <1>2, <1>3, <2>1, <2>3
  <2> QED
    BY <2>1, <2>2, <2>3
<1> QED
  BY <1>1, <1>2, <1>5, <1>6 DEF Increasing

JobValues == [state : JobStates, status : Statuses]

LEMMA StreamsStep ==
  ASSUME StreamsInv,
         \/ UNCHANGED streamVars
         \/ \E r \in Requests :
              \/ SubmitJob(r) \/ UpdateJobFull(r) \/ TimeLimitExceeded(r)
              \/ \E status \in {"done", "error"} : UpdateJobScoped(r, status)
  PROVE  StreamsInv' /\ StreamsGrow
<1>0. /\ tick \in Nat /\ scoped \in Seq(Entry) /\ full \in Seq(Entry)
      /\ job \in [Requests -> JobValues] /\ Ordered(scoped) /\ Ordered(full)
      /\ \A i \in DOMAIN full : full[i].id \in Nat
      /\ \A i \in DOMAIN scoped : scoped[i].id \in Nat
  BY EntryFacts DEF StreamsInv, StreamsTypeOK, JobValues
<1>1. CASE UNCHANGED streamVars
  BY <1>0, <1>1 DEF StreamsInv, StreamsTypeOK, StreamsGrow, streamVars, Ordered, Increasing
<1>2. ASSUME NEW r \in Requests, SubmitJob(r) \/ TimeLimitExceeded(r)
      PROVE  StreamsInv' /\ StreamsGrow
  <2>1. UNCHANGED <<tick, scoped, full>>
    BY <1>2 DEF SubmitJob, TimeLimitExceeded
  <2>2. job' \in [Requests -> JobValues]
    <3>1. PICK s \in JobStates : job' = [job EXCEPT ![r] = [job[r] EXCEPT !.state = s]]
      BY <1>2 DEF SubmitJob, TimeLimitExceeded, JobStates
    <3>2. [job[r] EXCEPT !.state = s] \in JobValues
      BY <1>0 DEF JobValues
    <3> QED
      BY <1>0, <3>1, <3>2
  <2> QED
    BY <1>0, <2>1, <2>2 DEF StreamsInv, StreamsTypeOK, StreamsGrow, Ordered, Increasing, JobValues
<1>3. ASSUME NEW r \in Requests, NEW status \in {"done", "error"}, UpdateJobScoped(r, status)
      PROVE  StreamsInv' /\ StreamsGrow
  <2>1. tick' = tick + 1 /\ scoped' = Xadd(scoped, r) /\ full' = full
        /\ job' = [job EXCEPT ![r] = [state |-> "scoped", status |-> status]]
    BY <1>3 DEF UpdateJobScoped
  <2>2. job' \in [Requests -> JobValues]
    BY <1>0, <2>1 DEF JobValues, JobStates, Statuses
  <2>3. Ordered(full)'
    BY <1>0, <2>1 DEF Ordered, Increasing
  <2>4. scoped' \in Seq(Entry) /\ Ordered(scoped)' /\ StreamsGrow
    BY <1>0, <2>1, XaddFacts DEF Ordered, Increasing, StreamsGrow
  <2> QED
    BY <1>0, <2>1, <2>2, <2>3, <2>4 DEF StreamsInv, StreamsTypeOK, JobValues
<1>4. ASSUME NEW r \in Requests, UpdateJobFull(r)
      PROVE  StreamsInv' /\ StreamsGrow
  <2>1. tick' = tick + 1 /\ full' = Xadd(full, r) /\ scoped' = scoped
        /\ job' = [job EXCEPT ![r] = [job[r] EXCEPT !.state = "published"]]
    BY <1>4 DEF UpdateJobFull
  <2>2. job' \in [Requests -> JobValues]
    <3>1. [job[r] EXCEPT !.state = "published"] \in JobValues
      BY <1>0 DEF JobValues, JobStates
    <3> QED
      BY <1>0, <2>1, <3>1
  <2>3. Ordered(scoped)' /\ StreamsGrow
    BY <1>0, <2>1 DEF Ordered, Increasing, StreamsGrow
  <2>4. full' \in Seq(Entry) /\ Ordered(full)'
    BY <1>0, <2>1, XaddFacts DEF Ordered, Increasing
  <2> QED
    BY <1>0, <2>1, <2>2, <2>3, <2>4 DEF StreamsInv, StreamsTypeOK, JobValues
<1> QED
  BY <1>1, <1>2, <1>3, <1>4

\* A page of a poll leaves out nothing between the last event and its own.
LEMMA ReadEventsFacts ==
  ASSUME StreamsInv, NEW last \in Nat, NEW count \in Nat
  PROVE  /\ ReadEvents(last, count) \in Seq(Entry)
         /\ \A k \in 1 .. Len(ReadEvents(last, count)) :
              /\ \E i \in DOMAIN scoped : ReadEvents(last, count)[k] = scoped[i]
              /\ \A i \in DOMAIN scoped :
                   scoped[i].id <= ReadEvents(last, count)[k].id =>
                     \/ scoped[i].id <= last
                     \/ \E m \in 1 .. Len(ReadEvents(last, count)) :
                          ReadEvents(last, count)[m] = scoped[i]
<1> DEFINE from == IF last = 0 THEN 0 ELSE last + 1
           x == Xrange(scoped, from, tick)
           y == AtMost(count, x)
<1>0. tick \in Nat /\ scoped \in Seq(Entry) /\ Increasing(scoped)
      /\ from \in Nat /\ (\A n \in Nat : n < from => n <= last)
      /\ \A i \in DOMAIN scoped : scoped[i].id \in Nat
  BY EntryFacts DEF StreamsInv, StreamsTypeOK, Ordered
<1>1. ReadEvents(last, count) = y
  BY DEF ReadEvents
<1> HIDE DEF from
<1>2. x \in Seq(Entry)
  BY <1>0, XrangeTyped
<1>3. y \in Seq(Entry) /\ Len(y) <= Len(x) /\ \A k \in 1 .. Len(y) : y[k] = x[k]
  BY <1>2, AtMostFacts
<1>4. ASSUME NEW k \in 1 .. Len(y)
      PROVE  /\ \E i \in DOMAIN scoped : y[k] = scoped[i]
             /\ \A i \in DOMAIN scoped : scoped[i].id <= y[k].id =>
                  scoped[i].id <= last \/ \E m \in 1 .. Len(y) : y[m] = scoped[i]
  <2>1. x /= <<>> /\ Len(x) \in Nat /\ Len(y) \in Nat /\ k \in 1 .. Len(x)
    BY <1>2, <1>3
  <2> HIDE DEF y
  <2> HIDE DEF x
  <2>2. PICK lo \in Nat :
           /\ \A i \in 1 .. lo : i \in DOMAIN scoped /\ scoped[i].id < from
           /\ \A j \in 1 .. Len(x) : lo + j \in DOMAIN scoped /\ x[j] = scoped[lo + j]
           /\ \A i \in DOMAIN scoped : lo + Len(x) < i => tick < scoped[i].id
    <3>1. Xrange(scoped, from, tick) /= <<>>
      BY <2>1 DEF x
    <3> QED
      BY <1>0, <3>1, XrangeFacts DEF x
  <2>3. lo + k \in DOMAIN scoped /\ y[k] = scoped[lo + k]
    BY <1>3, <2>1, <2>2
  <2>4. ASSUME NEW i \in DOMAIN scoped, scoped[i].id <= y[k].id
        PROVE  scoped[i].id <= last \/ \E m \in 1 .. Len(y) : y[m] = scoped[i]
    <3>0. i \in Nat /\ i >= 1
      BY <1>0
    <3>1. CASE i <= lo
      <4>1. i \in 1 .. lo
        BY <3>0, <3>1
      <4> QED
        BY <1>0, <2>2, <4>1
    <3>2. CASE i > lo
      <4>1. i <= lo + k
        BY <1>0, <2>3, <2>4, <3>0, <2>1 DEF Increasing
      <4> DEFINE m == i - lo
      <4>2. m \in 1 .. Len(y) /\ m \in 1 .. Len(x) /\ lo + m = i
        BY <1>3, <2>1, <3>0, <3>2, <4>1
      <4> HIDE DEF m
      <4>3. y[m] = scoped[i]
        BY <1>3, <2>2, <4>2
      <4> QED
        BY <4>2, <4>3
    <3> QED
      BY <3>0, <3>1, <3>2
  <2> QED
    BY <2>3, <2>4
<1> HIDE DEF y
<1> QED
  BY <1>1, <1>3, <1>4
-----------------------------------------------------------------------------
(***************************************************************************)
(* The WebSocket server.                                                   *)
(***************************************************************************)
\* A connection that reaches its browser is open and in both registries.
SocketInv ==
  \A s \in Sockets : alive[s] => ready[s] = "open" /\ s \in sockets /\ s \in channel

ServerInv == ServerTypeOK /\ SocketInv

RangeValues == [start : Nat, end : Nat \cup {-1}]
Firehoses == [last : Nat, reading : BOOLEAN, from : Nat, base : Nat]
ReadyStates == {"connecting", "open", "closed"}

LEMMA ServerTyped ==
  ASSUME ServerInv
  PROVE  /\ firehose \in Firehoses /\ sockets \subseteq Sockets /\ channel \subseteq Sockets
         /\ ready \in [Sockets -> ReadyStates] /\ alive \in [Sockets -> BOOLEAN]
         /\ wire \in [Sockets -> Seq(Entry)] /\ ranges \in Seq(RangeValues)
         /\ firehose.last \in Nat /\ firehose.from \in Nat /\ firehose.base \in Nat
         /\ firehose.reading \in BOOLEAN
BY DEF ServerInv, ServerTypeOK, RangeValues, Firehoses, ReadyStates

LEMMA ServerTypedNext ==
  ASSUME firehose' \in Firehoses, sockets' \subseteq Sockets, channel' \subseteq Sockets,
         ready' \in [Sockets -> ReadyStates], alive' \in [Sockets -> BOOLEAN],
         wire' \in [Sockets -> Seq(Entry)], ranges' \in Seq(RangeValues), SocketInv'
  PROVE  ServerInv'
BY DEF ServerInv, ServerTypeOK, RangeValues, Firehoses, ReadyStates

LEMMA ServerStays ==
  ASSUME ServerInv, UNCHANGED serverVars
  PROVE  ServerInv'
BY DEF ServerInv, ServerTypeOK, SocketInv, serverVars

\* sendToChannel forgets no socket that is registered and open.
LEMMA SendFacts ==
  ASSUME ServerInv, NEW x \in Seq(Entry), SendToChannel(x)
  PROVE  /\ wire' \in [Sockets -> Seq(Entry)] /\ channel' \subseteq Sockets
         /\ \A s \in channel : s \in sockets /\ ready[s] = "open" => s \in channel'
<1>1. wire \in [Sockets -> Seq(Entry)] /\ channel \subseteq Sockets
  BY ServerTyped
<1>2. \A s \in Sockets : wire[s] \in Seq(Entry) /\ wire[s] \o x \in Seq(Entry)
  BY <1>1
<1>3. wire' \in [Sockets -> Seq(Entry)]
  BY <1>1, <1>2 DEF SendToChannel
<1>4. channel' = channel \/ channel' = CleanChannel
  BY DEF SendToChannel
<1> QED
  BY <1>1, <1>3, <1>4 DEF CleanChannel

LEMMA ConnectionInv ==
  ASSUME ServerInv, NEW s \in Sockets, NEW last \in Nat, WsConnection(s, last)
  PROVE  ServerInv'
<1> DEFINE range == [start |-> last + 1, end |-> IF firehose.last = 0 THEN -1 ELSE firehose.last]
<1>1. range \in RangeValues
  BY ServerTyped DEF RangeValues
<1>2. ranges' = ranges \/ ranges' = Append(ranges, range)
  BY DEF WsConnection
<1> HIDE DEF range
<1>3. ranges' \in Seq(RangeValues)
  <2>1. ranges \in Seq(RangeValues)
    BY ServerTyped
  <2> QED
    BY <1>1, <1>2, <2>1, AppendProperties
<1>4. /\ sockets' = sockets \cup {s} /\ channel' = channel \cup {s}
      /\ ready' = [ready EXCEPT ![s] = "open"] /\ alive' = [alive EXCEPT ![s] = TRUE]
      /\ firehose' = firehose /\ wire' = wire
  BY DEF WsConnection
<1>5. ready' \in [Sockets -> ReadyStates] /\ alive' \in [Sockets -> BOOLEAN]
  BY <1>4, ServerTyped DEF ReadyStates
<1>6. SocketInv'
  BY <1>4, ServerTyped DEF ServerInv, SocketInv
<1> QED
  BY <1>3, <1>4, <1>5, <1>6, ServerTyped, ServerTypedNext

LEMMA XrangeReplyInv ==
  ASSUME ServerInv, StreamsInv, XrangeReply
  PROVE  ServerInv'
<1> DEFINE range == Head(ranges)
           end == IF range.end = -1 THEN tick ELSE range.end
           x == Xrange(scoped, range.start, end)
<1>1. range \in RangeValues /\ Tail(ranges) \in Seq(RangeValues)
  <2>1. ranges \in Seq(RangeValues) /\ ranges /= <<>>
    BY ServerTyped DEF XrangeReply
  <2> QED
    BY <2>1, HeadTailProperties
<1>2. SendToChannel(x) /\ ranges' = Tail(ranges) /\ UNCHANGED <<firehose, sockets, ready, alive>>
  BY DEF XrangeReply
<1>3. range.start \in Nat /\ end \in Nat /\ scoped \in Seq(Entry)
  BY <1>1 DEF RangeValues, StreamsInv, StreamsTypeOK
<1> HIDE DEF end, range
<1>4. x \in Seq(Entry)
  BY <1>3, XrangeTyped
<1> HIDE DEF x
<1>5. /\ wire' \in [Sockets -> Seq(Entry)] /\ channel' \subseteq Sockets
      /\ \A s \in channel : s \in sockets /\ ready[s] = "open" => s \in channel'
  BY <1>2, <1>4, SendFacts
<1>6. SocketInv'
  BY <1>2, <1>5 DEF ServerInv, SocketInv
<1> QED
  BY <1>1, <1>2, <1>5, <1>6, ServerTyped, ServerTypedNext

LEMMA LastFacts ==
  ASSUME NEW x \in Seq(Entry)
  PROVE  LastIdOf(x) \in Nat /\ (x /= <<>> => Last(x).id \in Nat)
<1>1. CASE x = <<>>
  BY <1>1 DEF LastIdOf
<1>2. CASE x /= <<>>
  <2>1. Len(x) \in 1 .. Len(x)
    BY <1>2
  <2>2. x[Len(x)] \in Entry
    BY <2>1
  <2> QED
    BY <1>2, <2>2 DEF LastIdOf, Last, Entry
<1> QED
  BY <1>1, <1>2

LEMMA NewEntriesTyped ==
  ASSUME ServerInv, StreamsInv
  PROVE  NewEntries \in Seq(Entry)
<1>1. firehose.from + 1 \in Nat /\ tick \in Nat /\ full \in Seq(Entry) /\ ReadCount \in Nat
  BY ServerTyped, CountsAssumption DEF StreamsInv, StreamsTypeOK, CountsAssumption
<1>2. Xrange(full, firehose.from + 1, tick) \in Seq(Entry)
  BY <1>1, XrangeTyped
<1> QED
  BY <1>1, <1>2, AtMostFacts DEF NewEntries

LEMMA FirehoseInv ==
  ASSUME ServerInv, StreamsInv, Xread \/ XreadReply \/ XreadTimeout
  PROVE  ServerInv'
<1>0. full \in Seq(Entry) /\ LastIdOf(full) \in Nat
  BY LastFacts DEF StreamsInv, StreamsTypeOK
<1>1. CASE Xread
  <2> DEFINE from == IF firehose.last = 0 THEN LastIdOf(full) ELSE firehose.last
             base == IF firehose.last = 0 THEN LastIdOf(full) ELSE firehose.base
  <2>1. from \in Nat /\ base \in Nat
    BY <1>0, ServerTyped
  <2>2. firehose' = [firehose EXCEPT !.reading = TRUE, !.from = from, !.base = base]
    BY <1>1 DEF Xread
  <2> HIDE DEF from, base
  <2>3. firehose' \in Firehoses
    BY <2>1, <2>2, ServerTyped DEF Firehoses
  <2>4. UNCHANGED <<sockets, channel, ready, alive, wire, ranges>>
    BY <1>1 DEF Xread
  <2> QED
    BY <2>3, <2>4, ServerTyped, ServerTypedNext DEF ServerInv, SocketInv
<1>2. CASE XreadReply
  <2>1. NewEntries \in Seq(Entry) /\ NewEntries /= <<>>
    BY <1>2, NewEntriesTyped DEF XreadReply
  <2>2. firehose' \in Firehoses
    BY <1>2, <2>1, LastFacts, ServerTyped DEF XreadReply, Firehoses
  <2>3. /\ wire' \in [Sockets -> Seq(Entry)] /\ channel' \subseteq Sockets
        /\ \A s \in channel : s \in sockets /\ ready[s] = "open" => s \in channel'
    BY <1>2, <2>1, SendFacts DEF XreadReply
  <2>4. UNCHANGED <<sockets, ready, alive, ranges>>
    BY <1>2 DEF XreadReply
  <2>5. SocketInv'
    BY <2>3, <2>4 DEF ServerInv, SocketInv
  <2> QED
    BY <2>2, <2>3, <2>4, <2>5, ServerTyped, ServerTypedNext
<1>3. CASE XreadTimeout
  <2>1. firehose' \in Firehoses /\ UNCHANGED <<sockets, channel, ready, alive, wire, ranges>>
    BY <1>3, ServerTyped DEF XreadTimeout, Firehoses
  <2> QED
    BY <2>1, ServerTyped, ServerTypedNext DEF ServerInv, SocketInv
<1> QED
  BY <1>1, <1>2, <1>3

LEMMA RegistryInv ==
  ASSUME ServerInv, GcChannels \/ \E overdue \in SUBSET Sockets : CheckSockets(overdue)
  PROVE  ServerInv'
<1>1. CASE GcChannels
  <2>1. channel' = CleanChannel /\ UNCHANGED <<firehose, sockets, ready, alive, wire, ranges>>
    BY <1>1 DEF GcChannels
  <2>2. SocketInv' /\ channel' \subseteq Sockets
    BY <2>1, ServerTyped DEF ServerInv, SocketInv, CleanChannel
  <2> QED
    BY <2>1, <2>2, ServerTyped, ServerTypedNext
<1>2. ASSUME NEW overdue \in SUBSET Sockets, CheckSockets(overdue)
      PROVE  ServerInv'
  <2> DEFINE gone == overdue \cup {s \in sockets : ready[s] = "closed"}
  <2>1. /\ overdue \subseteq {s \in sockets : ~alive[s]} /\ sockets' = sockets \ gone
        /\ ready' = [s \in Sockets |-> IF s \in gone THEN "closed" ELSE ready[s]]
        /\ UNCHANGED <<firehose, channel, alive, wire, ranges>>
    BY <1>2 DEF CheckSockets
  <2>2. \A s \in Sockets : alive[s] => s \notin gone
    BY <2>1 DEF ServerInv, SocketInv
  <2> HIDE DEF gone
  <2>3. SocketInv' /\ ready' \in [Sockets -> ReadyStates] /\ sockets' \subseteq Sockets
    BY <2>1, <2>2, ServerTyped DEF ServerInv, SocketInv, ReadyStates
  <2> QED
    BY <2>1, <2>3, ServerTyped, ServerTypedNext
<1> QED
  BY <1>1, <1>2

LEMMA EndsInv ==
  ASSUME ServerInv,
         ServerRestart \/ \E s \in Sockets, noticed \in BOOLEAN : ConnectionLost(s, noticed)
  PROVE  ServerInv'
<1>1. CASE ServerRestart
  <2>1. firehose' \in Firehoses /\ ranges' \in Seq(RangeValues)
    BY <1>1 DEF ServerRestart, NoRead, Firehoses
  <2>2. /\ ready' \in [Sockets -> ReadyStates] /\ alive' \in [Sockets -> BOOLEAN]
        /\ wire' \in [Sockets -> Seq(Entry)] /\ sockets' \subseteq Sockets /\ channel' \subseteq Sockets
    BY <1>1, ServerTyped DEF ServerRestart, ReadyStates
  <2>3. SocketInv'
    BY <1>1 DEF ServerRestart, SocketInv
  <2> QED
    BY <2>1, <2>2, <2>3, ServerTypedNext
<1>2. ASSUME NEW s \in Sockets, NEW noticed \in BOOLEAN, ConnectionLost(s, noticed)
      PROVE  ServerInv'
  <2>1. /\ alive' = [alive EXCEPT ![s] = FALSE] /\ wire' = [wire EXCEPT ![s] = <<>>]
        /\ ready' = [ready EXCEPT ![s] = IF noticed THEN "closed" ELSE ready[s]]
        /\ UNCHANGED <<firehose, sockets, channel, ranges>>
    BY <1>2 DEF ConnectionLost
  <2>2. /\ ready' \in [Sockets -> ReadyStates] /\ alive' \in [Sockets -> BOOLEAN]
        /\ wire' \in [Sockets -> Seq(Entry)]
    BY <2>1, ServerTyped DEF ReadyStates
  <2>3. SocketInv'
    BY <2>1, ServerTyped DEF ServerInv, SocketInv
  <2> QED
    BY <2>1, <2>2, <2>3, ServerTyped, ServerTypedNext
<1> QED
  BY <1>1, <1>2

\* An event is taken off the wire.
LEMMA WireInv ==
  ASSUME ServerInv, NEW s \in Sockets, wire[s] /= <<>>, wire' = [wire EXCEPT ![s] = Tail(@)],
         UNCHANGED <<firehose, sockets, channel, ready, alive, ranges>>
  PROVE  ServerInv' /\ Head(wire[s]) \in Entry
<1>1. wire[s] \in Seq(Entry)
  BY ServerTyped
<1>2. Head(wire[s]) \in Entry /\ Tail(wire[s]) \in Seq(Entry)
  BY <1>1, HeadTailProperties
<1>3. wire' \in [Sockets -> Seq(Entry)]
  BY <1>2, ServerTyped
<1> QED
  BY <1>2, <1>3, ServerTyped, ServerTypedNext DEF ServerInv, SocketInv
-----------------------------------------------------------------------------
(***************************************************************************)
(* The WebSocket of the tab.  Every connection after the first one follows *)
(* a fault, so there are sockets enough.                                   *)
(***************************************************************************)
WsValues == [socket : Nat, asked : Nat, retries : 0 .. MaxWsRetries + 1,
             state : {"off", "connecting", "open", "closed", "givenup"}]

WsInv ==
  /\ transport \in Transports /\ ws \in WsValues /\ faults \in 0 .. MaxFaults
  /\ transport /= "ws" => ws.state = "off"
  /\ ws.state /= "off" => ws.socket >= 1
  /\ ws.state /= "givenup" => ws.retries <= MaxWsRetries
  /\ ws.socket <= faults + 1
  /\ ws.state = "closed" => ws.socket <= faults

LEMMA SocketKnown ==
  ASSUME WsInv, ws.state \in {"connecting", "open"}
  PROVE  ws.socket \in Sockets /\ transport = "ws"
BY FaultsAssumption DEF WsInv, WsValues, FaultsAssumption

LEMMA WsStep ==
  ASSUME WsInv, lastId \in Nat, transport' = transport,
         \/ UNCHANGED ws /\ (NoFault \/ Fault)
         \/ WsOpen /\ NoFault
         \/ WsClose /\ Fault
         \/ WsReconnect /\ NoFault
  PROVE  WsInv'
<1>0. /\ ws \in WsValues /\ ws.socket \in Nat /\ ws.asked \in Nat /\ ws.retries \in 0 .. MaxWsRetries + 1
      /\ MaxWsRetries \in Nat /\ MaxFaults \in Nat /\ faults \in 0 .. MaxFaults
      /\ ws.state \in {"off", "connecting", "open", "closed", "givenup"}
  BY RetriesAssumption, FaultsAssumption DEF WsInv, WsValues, RetriesAssumption, FaultsAssumption
<1>1. faults' \in 0 .. MaxFaults /\ faults <= faults' /\ faults' \in Nat /\ faults \in Nat
      /\ (Fault => faults' = faults + 1)
  BY <1>0 DEF WsOpen, WsClose, WsReconnect, Fault, NoFault
<1>2. CASE UNCHANGED ws
  BY <1>0, <1>1, <1>2 DEF WsInv
<1>3. CASE WsOpen
  <2>1. /\ ws' \in WsValues /\ ws'.state = "open" /\ ws'.retries = 0 /\ ws'.socket = ws.socket
        /\ ws.state = "connecting"
    <3>1. 0 \in 0 .. MaxWsRetries + 1
      BY <1>0
    <3> QED
      BY <1>0, <1>3, <3>1 DEF WsOpen, WsValues
  <2> QED
    BY <1>0, <1>1, <2>1 DEF WsInv
<1>4. CASE WsClose /\ Fault
  <2>1. /\ ws' \in WsValues /\ ws'.state = "closed" /\ ws'.retries = ws.retries
        /\ ws'.socket = ws.socket /\ ws.state \in {"connecting", "open"}
    BY <1>0, <1>4 DEF WsClose, WsValues
  <2> QED
    BY <1>0, <1>1, <1>4, <2>1 DEF WsInv
<1>5. CASE WsReconnect /\ ws.retries < MaxWsRetries
  <2>1. ws' = [socket |-> ws.socket + 1, state |-> "connecting", asked |-> lastId,
               retries |-> ws.retries + 1] /\ ws.state = "closed"
    BY <1>5 DEF WsReconnect
  <2>2. /\ ws' \in WsValues /\ ws'.state = "connecting" /\ ws'.socket = ws.socket + 1
        /\ ws'.retries <= MaxWsRetries
    <3>1. ws.retries + 1 \in 0 .. MaxWsRetries + 1 /\ ws.retries + 1 <= MaxWsRetries
      BY <1>0, <1>5
    <3> QED
      BY <1>0, <2>1, <3>1 DEF WsValues
  <2> QED
    BY <1>0, <1>1, <2>1, <2>2 DEF WsInv
<1>6. CASE WsReconnect /\ ~(ws.retries < MaxWsRetries)
  <2>1. ws' = [ws EXCEPT !.state = "givenup", !.retries = ws.retries + 1] /\ ws.state = "closed"
    BY <1>6 DEF WsReconnect
  <2>2. /\ ws' \in WsValues /\ ws'.state = "givenup" /\ ws'.socket = ws.socket
    <3>1. ws.retries + 1 \in 0 .. MaxWsRetries + 1
      BY <1>0, <2>1 DEF WsInv
    <3> QED
      BY <1>0, <2>1, <3>1 DEF WsValues
  <2> QED
    BY <1>0, <1>1, <2>1, <2>2 DEF WsInv
<1> QED
  BY <1>2, <1>3, <1>4, <1>5, <1>6
-----------------------------------------------------------------------------
(***************************************************************************)
(* The listeners of the tab.                                               *)
(***************************************************************************)
WaitTyped == Waiting \in WaitStates /\ received \subseteq Requests

\* No more is waited for than before.
Fewer ==
  /\ listeners' \cup fetching' \subseteq listeners \cup fetching
  /\ \A r \in Requests : promise'[r] = "pending" => promise[r] = "pending"

\* The tab has processed the events of S, in any order and any number.
ReadBy(S) ==
  /\ lastId' = lastId \/ \E e \in S : lastId' = e.id
  /\ DOMAIN timers' \subseteq DOMAIN timers \cup S
  /\ received' = received \cup {e.job : e \in S}

Heard(S) == WaitTyped' /\ Fewer /\ ReadBy(S)

LEMMA WaitFacts ==
  ASSUME WaitTyped
  PROVE  /\ listeners \subseteq Requests /\ fetching \subseteq Requests /\ givenUp \subseteq Requests
         /\ retries \in [Requests -> 0 .. MaxRetries] /\ timers \in Timers /\ lastId \in Nat
         /\ promise \in [Requests -> Promises] /\ received \subseteq Requests
BY DEF WaitTyped, Waiting, WaitStates

LEMMA WaitTypedNext ==
  ASSUME listeners' \subseteq Requests, fetching' \subseteq Requests, givenUp' \subseteq Requests,
         retries' \in [Requests -> 0 .. MaxRetries], timers' \in Timers, lastId' \in Nat,
         promise' \in [Requests -> Promises], received' \subseteq Requests
  PROVE  WaitTyped'
BY DEF WaitTyped, Waiting, WaitStates

LEMMA HeardNothing ==
  ASSUME WaitTyped, UNCHANGED waitVars
  PROVE  Heard({})
BY WaitFacts, WaitTypedNext DEF waitVars, Heard, Fewer, ReadBy

LEMMA HeardFetch ==
  ASSUME WaitTyped, NEW r \in Requests, NEW ok \in BOOLEAN, FetchReturns(r, ok)
  PROVE  Heard({}) /\ r \in fetching
<1>1. /\ r \in fetching /\ fetching' = fetching \ {r} /\ listeners' = listeners \ {r}
      /\ UNCHANGED <<retries, timers, lastId, received, givenUp>>
  BY DEF FetchReturns
<1>2. promise' \in [Requests -> Promises]
      /\ \A p \in Requests : promise'[p] = "pending" => promise[p] = "pending"
  BY WaitFacts DEF FetchReturns, Promises
<1>3. WaitTyped'
  BY <1>1, <1>2, WaitFacts, WaitTypedNext
<1> QED
  BY <1>1, <1>2, <1>3 DEF Heard, Fewer, ReadBy

LEMMA HeardEvents ==
  ASSUME WaitTyped, NEW w \in WaitStates, NEW events \in Seq(Entry), ProcessEventsFrom(w, events),
         w.listeners = listeners, w.fetching = fetching, w.promise = promise, w.lastId = lastId,
         DOMAIN w.timers \subseteq DOMAIN timers
  PROVE  Heard(Range(events))
<1> DEFINE v == Turns(w, events)[Len(events)]
           S == Range(events)
<1>1. After(w, v, S)
  BY TurnsFacts
<1>2. /\ listeners' = v.listeners /\ retries' = v.retries /\ timers' = v.timers
      /\ lastId' = v.lastId /\ fetching' = v.fetching /\ promise' = v.promise
      /\ givenUp' = v.givenUp /\ received' = received \cup {e.job : e \in S}
  BY DEF ProcessEventsFrom
<1>3. S \subseteq Entry
  BY DEF Range
<1> HIDE DEF v, S
<1>4. /\ listeners' \subseteq Requests /\ fetching' \subseteq Requests /\ givenUp' \subseteq Requests
      /\ retries' \in [Requests -> 0 .. MaxRetries] /\ timers' \in Timers /\ lastId' \in Nat
      /\ promise' \in [Requests -> Promises]
  BY <1>1, <1>2 DEF After, WaitStates
<1>5. received' \subseteq Requests
  BY <1>2, <1>3, WaitFacts DEF Entry
<1>6. WaitTyped'
  BY <1>4, <1>5, WaitTypedNext
<1>7. Heard(S)
  BY <1>1, <1>2, <1>6 DEF After, Heard, Fewer, ReadBy
<1> QED
  BY <1>7 DEF S

LEMMA HeardNow ==
  ASSUME WaitTyped, NEW events \in Seq(Entry), ProcessEvents(events)
  PROVE  Heard(Range(events))
<1>1. Waiting \in WaitStates /\ Waiting.listeners = listeners /\ Waiting.fetching = fetching
      /\ Waiting.promise = promise /\ Waiting.lastId = lastId /\ Waiting.timers = timers
  BY DEF WaitTyped, Waiting
<1> QED
  BY <1>1, HeardEvents DEF ProcessEvents

LEMMA HeardAgain ==
  ASSUME WaitTyped, NEW e \in DOMAIN timers, RetryTimer(e)
  PROVE  Heard({e}) /\ e \in Entry
<1> DEFINE w == [Waiting EXCEPT !.timers = timers (-) SetToBag({e})]
<1>1. e \in Entry
  BY WaitFacts DEF Timers
<1>2. timers (-) SetToBag({e}) \in Timers /\ DOMAIN (timers (-) SetToBag({e})) \subseteq DOMAIN timers
  BY <1>1, TimersShrink, WaitFacts
<1>3. w \in WaitStates /\ w.listeners = listeners /\ w.fetching = fetching
      /\ w.promise = promise /\ w.lastId = lastId /\ w.timers = timers (-) SetToBag({e})
  BY <1>2 DEF WaitTyped, Waiting, WaitStates
<1>4. ProcessEventsFrom(w, <<e>>)
  BY DEF RetryTimer, Waiting
<1>5. <<e>> \in Seq(Entry) /\ Range(<<e>>) = {e}
  BY <1>1 DEF Range
<1> HIDE DEF w
<1> QED
  BY <1>1, <1>2, <1>3, <1>4, <1>5, HeardEvents

LEMMA WaitedFor ==
  ASSUME WaitTyped, NEW r \in Requests, WaitForAsyncData(r)
  PROVE  /\ WaitTyped' /\ listeners' = listeners \cup {r} /\ fetching' = fetching
         /\ \A p \in Requests \ {r} : promise'[p] = promise[p]
         /\ UNCHANGED <<timers, lastId, received>>
<1>1. promise' \in [Requests -> Promises] /\ \A p \in Requests \ {r} : promise'[p] = promise[p]
  BY WaitFacts DEF WaitForAsyncData, Promises
<1> QED
  BY <1>1, WaitFacts, WaitTypedNext DEF WaitForAsyncData
-----------------------------------------------------------------------------
(***************************************************************************)
(* Polling.  The cursor, a timer and a page of events stand for ids up to  *)
(* which the tab has received, or is about to receive, everything.         *)
(***************************************************************************)
PollValues == [phase : {"off", "timer", "sent", "answered"}, last : Nat, events : Seq(Entry)]

UpTo(id) ==
  /\ id <= tick
  /\ \A i \in DOMAIN scoped : scoped[i].id <= id => scoped[i].job \in received

UpToNext(id) ==
  /\ id <= tick'
  /\ \A i \in DOMAIN scoped' : scoped'[i].id <= id => scoped'[i].job \in received'

\* Everything up to an event of the page is received or on the page.
Paged(id) ==
  /\ id <= tick
  /\ \A i \in DOMAIN scoped :
       scoped[i].id <= id => \/ scoped[i].job \in received
                             \/ \E m \in DOMAIN poll.events : scoped[i].job = poll.events[m].job

PollInv ==
  /\ poll \in PollValues
  /\ transport = "polling" =>
       /\ UpTo(lastId)
       /\ \A e \in DOMAIN timers : UpTo(e.id)
       /\ poll.phase \in {"sent", "answered"} => UpTo(poll.last)
       /\ poll.phase = "answered" => \A k \in DOMAIN poll.events : Paged(poll.events[k].id)

LEMMA UpToKept ==
  ASSUME StreamsInv', StreamsGrow, received \subseteq received', NEW id \in Nat, UpTo(id)
  PROVE  UpToNext(id)
<1>1. ASSUME NEW i \in DOMAIN scoped', scoped'[i].id <= id
      PROVE  scoped'[i].job \in received'
  <2>1. CASE scoped'[i].id > tick
    <3>1. scoped'[i].id \in Nat
      BY EntryFacts DEF StreamsInv, StreamsTypeOK
    <3> QED
      BY <1>1, <2>1, <3>1 DEF StreamsGrow, UpTo
  <2>2. CASE i \in DOMAIN scoped /\ scoped'[i] = scoped[i]
    BY <1>1, <2>2 DEF UpTo
  <2> QED
    BY <2>1, <2>2 DEF StreamsGrow
<1>2. id <= tick'
  BY DEF StreamsGrow, UpTo
<1> QED
  BY <1>1, <1>2 DEF UpToNext

LEMMA PollStep ==
  ASSUME StreamsInv, StreamsInv', StreamsGrow, PollInv, WaitTyped, transport' = transport,
         NEW S, ReadBy(S), transport = "polling" => \A e \in S : e \in Entry /\ UpToNext(e.id),
         poll' = poll \/ (poll' \in PollValues /\ poll'.phase \in {"off", "timer"})
  PROVE  PollInv'
<1>0. /\ poll' \in PollValues /\ poll \in PollValues /\ lastId \in Nat
      /\ \A e \in DOMAIN timers : e.id \in Nat
      /\ received \subseteq received'
  BY WaitFacts DEF PollInv, Timers, Entry, ReadBy
<1> SUFFICES ASSUME transport = "polling"
             PROVE  /\ UpToNext(lastId')
                    /\ \A e \in DOMAIN timers' : UpToNext(e.id)
                    /\ poll'.phase \in {"sent", "answered"} => UpToNext(poll'.last)
                    /\ poll'.phase = "answered" => \A k \in DOMAIN poll'.events : Paged(poll.events[k].id)'
  BY <1>0 DEF PollInv, UpToNext, UpTo
<1>1. UpToNext(lastId')
  <2>1. UpToNext(lastId)
    BY <1>0, UpToKept DEF PollInv
  <2> QED
    BY <2>1 DEF ReadBy
<1>2. ASSUME NEW e \in DOMAIN timers'
      PROVE  UpToNext(e.id)
  <2>1. CASE e \in DOMAIN timers
    BY <1>0, <2>1, UpToKept DEF PollInv
  <2>2. CASE e \in S
    BY <2>2
  <2> QED
    BY <2>1, <2>2 DEF ReadBy
<1>3. ASSUME poll'.phase \in {"sent", "answered"}
      PROVE  poll' = poll /\ UpToNext(poll'.last)
  <2>1. poll' = poll /\ poll.last \in Nat
    BY <1>0, <1>3 DEF PollValues
  <2> QED
    BY <1>0, <1>3, <2>1, UpToKept DEF PollInv
<1>4. ASSUME poll'.phase = "answered", NEW k \in DOMAIN poll'.events
      PROVE  Paged(poll.events[k].id)'
  <2>1. poll' = poll /\ k \in DOMAIN poll.events /\ Paged(poll.events[k].id)
    BY <1>3, <1>4 DEF PollInv
  <2>2. poll.events \in Seq(Entry)
    BY <1>0 DEF PollValues
  <2>3. poll.events[k].id \in Nat
    BY <2>1, <2>2, EntryFacts
  <2>4. \A i \in DOMAIN scoped' : scoped'[i].id \in Nat
    BY EntryFacts DEF StreamsInv, StreamsTypeOK
  <2> QED
    BY <1>0, <2>1, <2>3, <2>4 DEF Paged, StreamsGrow
<1> QED
  BY <1>1, <1>2, <1>3, <1>4

LEMMA AskInv ==
  ASSUME StreamsInv, PollInv, WaitTyped, PollAsk,
         UNCHANGED <<streamVars, transport, waitVars>>
  PROVE  PollInv'
<1>1. poll' = [phase |-> "sent", last |-> lastId, events |-> <<>>] /\ lastId \in Nat
  BY WaitFacts DEF PollAsk
<1>2. poll' \in PollValues /\ poll'.phase = "sent" /\ poll'.last = lastId
  BY <1>1 DEF PollValues
<1>3. UNCHANGED <<tick, scoped, lastId, timers, received, transport>>
  BY DEF streamVars, waitVars
<1> QED
  BY <1>2, <1>3 DEF PollInv, UpTo

LEMMA AnswerInv ==
  ASSUME StreamsInv, PollInv, WaitTyped, PollAnswer(PollCount),
         UNCHANGED <<streamVars, transport, waitVars>>
  PROVE  PollInv'
<1> DEFINE x == ReadEvents(poll.last, PollCount)
<1>1. poll \in PollValues /\ poll.last \in Nat /\ poll.phase = "sent" /\ PollCount \in Nat
  BY CountsAssumption DEF PollInv, PollValues, PollAnswer, CountsAssumption
<1>2. poll' = [poll EXCEPT !.phase = "answered", !.events = x]
  BY DEF PollAnswer
<1>3. /\ x \in Seq(Entry) /\ DOMAIN x = 1 .. Len(x)
      /\ \A k \in 1 .. Len(x) :
           /\ \E i \in DOMAIN scoped : x[k] = scoped[i]
           /\ \A i \in DOMAIN scoped : scoped[i].id <= x[k].id =>
                \/ scoped[i].id <= poll.last
                \/ \E m \in 1 .. Len(x) : x[m] = scoped[i]
  <2>1. x \in Seq(Entry)
    BY <1>1, ReadEventsFacts
  <2>2. DOMAIN x = 1 .. Len(x)
    BY <2>1
  <2> QED
    BY <1>1, <2>1, <2>2, ReadEventsFacts
<1> HIDE DEF x
<1>4. poll' \in PollValues /\ poll'.last = poll.last /\ poll'.events = x
  BY <1>1, <1>2, <1>3 DEF PollValues
<1>5. UNCHANGED <<tick, scoped, lastId, timers, received, transport>>
  BY DEF streamVars, waitVars
<1>6. ASSUME transport = "polling", NEW k \in DOMAIN x
      PROVE  Paged(poll.events[k].id)'
  <2>1. UpTo(poll.last)
    BY <1>1, <1>6 DEF PollInv
  <2>2. x[k].id <= tick
    BY <1>3 DEF StreamsInv, Ordered
  <2> QED
    BY <1>3, <1>4, <1>5, <2>1, <2>2 DEF Paged, UpTo
<1> QED
  BY <1>1, <1>4, <1>5, <1>6 DEF PollInv, UpTo

\* A page is received as a whole.
LEMMA PageHeard ==
  ASSUME StreamsInv, PollInv, poll.phase = "answered", transport = "polling",
         UNCHANGED streamVars, ReadBy(Range(poll.events))
  PROVE  \A e \in Range(poll.events) : e \in Entry /\ UpToNext(e.id)
<1>1. poll.events \in Seq(Entry)
  BY DEF PollInv, PollValues
<1>2. UNCHANGED <<tick, scoped>>
  BY DEF streamVars
<1>3. ASSUME NEW k \in DOMAIN poll.events
      PROVE  poll.events[k] \in Entry /\ UpToNext(poll.events[k].id)
  <2>1. poll.events[k] \in Entry
    BY <1>1, EntryFacts
  <2>2. Paged(poll.events[k].id)
    BY DEF PollInv
  <2>3. \A m \in DOMAIN poll.events : poll.events[m].job \in received'
    BY DEF ReadBy, Range
  <2>4. received \subseteq received'
    BY DEF ReadBy
  <2> QED
    BY <1>2, <2>1, <2>2, <2>3, <2>4 DEF Paged, UpToNext
<1> QED
  BY <1>3 DEF Range
-----------------------------------------------------------------------------
(***************************************************************************)
(* The chart.                                                              *)
(***************************************************************************)
ReqValues == [phase : {"new", "posting", "waiting", "succeeded", "failed", "stopped"},
              via : {"none", "200", "202"}]
Charts == [status : {"loading", "success", "failed", "stopped"},
           form : OrNone, controller : OrNone, shown : OrNone]

\* Only runs that are jobs are waited for.
JobsInv ==
  /\ \A r \in Requests :
       /\ req[r].phase \in {"new", "posting", "stopped"} => req[r].via = "none"
       /\ promise[r] = "pending" => req[r].via = "202"
       /\ r \in listeners \cup fetching => req[r].via = "202"

\* The controller is that of the run of the form data, until it is stopped.
FormInv ==
  /\ chart.form = NoRequest =>
       chart.controller = NoRequest /\ \A r \in Requests : req[r].phase = "new"
  /\ chart.form /= NoRequest => req[chart.form].phase /= "new"
  /\ chart.controller /= NoRequest => chart.controller = chart.form
  /\ chart.controller = NoRequest /\ chart.form /= NoRequest => req[chart.form].phase = "stopped"
  /\ chart.status = "stopped" => chart.form /= NoRequest /\ req[chart.form].phase = "stopped"

\* An earlier run without an answer is going to be aborted, before the run of
\* the form data is answered.
EarlierInv ==
  \A r \in Requests :
    r /= chart.form /\ req[r].phase = "posting" =>
      r \in aborting /\ req[chart.form].phase \in {"posting", "stopped"}

ShownInv ==
  chart.form /= NoRequest /\ req[chart.form].phase = "succeeded" =>
    chart.shown = chart.form \/ \E r \in Requests : r /= chart.form /\ req[r].via = "202"

ChartInv == ChartTypeOK /\ JobsInv /\ FormInv /\ EarlierInv /\ ShownInv

LEMMA ChartFacts ==
  ASSUME ChartInv
  PROVE  /\ chart \in Charts /\ req \in [Requests -> ReqValues]
         /\ chart.form \in OrNone /\ chart.controller \in OrNone
         /\ \A r \in Requests : req[r] \in ReqValues
         /\ \A r \in Requests : req[r].phase \in
              {"new", "posting", "waiting", "succeeded", "failed", "stopped"}
         /\ NoRequest \notin Requests
BY NoRequestAssumption DEF ChartInv, ChartTypeOK, Charts, ReqValues, NoRequestAssumption

\* The phase of a run changes.
LEMMA PhaseFacts ==
  ASSUME ChartInv, NEW r \in Requests,
         NEW p \in {"new", "posting", "waiting", "succeeded", "failed", "stopped"},
         req' = [req EXCEPT ![r].phase = p]
  PROVE  /\ req' \in [Requests -> ReqValues]
         /\ req'[r].phase = p /\ req'[r].via = req[r].via
         /\ \A q \in Requests \ {r} : req'[q] = req[q]
<1>1. req' = [req EXCEPT ![r] = [req[r] EXCEPT !.phase = p]]
  OBVIOUS
<1>2. [req[r] EXCEPT !.phase = p] \in ReqValues
  BY ChartFacts DEF ReqValues
<1> QED
  BY <1>1, <1>2, ChartFacts DEF ReqValues

LEMMA ChartStays ==
  ASSUME ChartInv, Fewer, UNCHANGED chartVars
  PROVE  ChartInv'
<1>1. ChartTypeOK' /\ FormInv' /\ EarlierInv' /\ ShownInv'
  BY DEF ChartInv, ChartTypeOK, FormInv, EarlierInv, ShownInv, chartVars
<1>2. JobsInv'
  BY DEF ChartInv, JobsInv, chartVars, Fewer
<1> QED
  BY <1>1, <1>2 DEF ChartInv

LEMMA ExploreInv ==
  ASSUME ChartInv, Fewer, NEW r \in Requests, ExploreJSON(r)
  PROVE  ChartInv'
<1>1. /\ req' \in [Requests -> ReqValues]
      /\ req'[r].phase = "posting" /\ req'[r].via = req[r].via
      /\ \A q \in Requests \ {r} : req'[q] = req[q]
  BY PhaseFacts DEF ExploreJSON
<1>2. /\ chart' \in Charts /\ chart'.form = r /\ chart'.controller = r /\ chart'.status = "loading"
      /\ req[r].phase = "new"
  BY ChartFacts DEF ExploreJSON, ChartUpdateStarted, Charts, OrNone
<1>3. aborting' = aborting \cup ({chart.controller} \ {NoRequest}) /\ reply' = reply
  BY DEF ExploreJSON
<1>4. ChartTypeOK'
  BY <1>1, <1>2, <1>3, ChartFacts DEF ChartInv, ChartTypeOK, Charts, ReqValues, OrNone
<1>5. JobsInv'
  BY <1>1, <1>2 DEF ChartInv, JobsInv, Fewer
<1>6. FormInv' /\ ShownInv'
  BY <1>1, <1>2, ChartFacts DEF FormInv, ShownInv
<1>7. EarlierInv'
  BY <1>1, <1>2, <1>3, ChartFacts DEF ChartInv, FormInv, EarlierInv, OrNone
<1> QED
  BY <1>4, <1>5, <1>6, <1>7 DEF ChartInv

LEMMA AbortInv ==
  ASSUME ChartInv, Fewer, NEW r \in Requests, Abort(r), reply' = reply,
         aborting' = aborting \ {r} \/ (aborting' = aborting /\ req[r].phase = "posting")
  PROVE  ChartInv'
<1>0. aborting' \subseteq Requests
  BY DEF ChartInv, ChartTypeOK
<1>1. CASE req[r].phase /= "posting"
  <2>1. UNCHANGED <<req, chart>> /\ aborting' = aborting \ {r}
    BY <1>1 DEF Abort
  <2>2. ChartTypeOK' /\ FormInv' /\ ShownInv'
    BY <1>0, <2>1 DEF ChartInv, ChartTypeOK, FormInv, ShownInv
  <2>3. EarlierInv' /\ JobsInv'
    BY <1>1, <2>1 DEF ChartInv, EarlierInv, JobsInv, Fewer
  <2> QED
    BY <2>2, <2>3 DEF ChartInv
<1>2. CASE req[r].phase = "posting"
  <2>1. /\ req' \in [Requests -> ReqValues]
        /\ req'[r].phase = "stopped" /\ req'[r].via = req[r].via
        /\ \A q \in Requests \ {r} : req'[q] = req[q]
    BY <1>2, PhaseFacts DEF Abort
  <2>2. chart' = ChartUpdateStopped(r)
    BY <1>2 DEF Abort
  <2>3. chart.form \in Requests
    BY <1>2, ChartFacts DEF ChartInv, FormInv, OrNone
  <2>4. /\ chart' \in Charts /\ chart'.form = chart.form /\ chart'.shown = chart.shown
        /\ \/ chart' = chart /\ r /= chart.form
           \/ /\ chart'.status = "stopped" /\ chart'.controller = NoRequest
              /\ r = chart.form \/ req[chart.form].phase = "stopped"
    <3>1. CASE chart.controller /= NoRequest /\ r /= chart.controller
      BY <2>2, <3>1, ChartFacts DEF ChartInv, FormInv, ChartUpdateStopped
    <3>2. CASE ~(chart.controller /= NoRequest /\ r /= chart.controller)
      <4>1. chart' = [chart EXCEPT !.status = "stopped", !.controller = NoRequest]
        BY <2>2, <3>2 DEF ChartUpdateStopped
      <4>2. /\ chart' \in Charts /\ chart'.form = chart.form /\ chart'.shown = chart.shown
            /\ chart'.status = "stopped" /\ chart'.controller = NoRequest
        BY <4>1, ChartFacts DEF Charts, OrNone
      <4>3. r = chart.form \/ req[chart.form].phase = "stopped"
        BY <2>3, <3>2, ChartFacts DEF ChartInv, FormInv
      <4> QED
        BY <4>2, <4>3
    <3> QED
      BY <3>1, <3>2
  <2>5. ChartTypeOK'
    BY <1>0, <2>1, <2>4 DEF ChartInv, ChartTypeOK, Charts, ReqValues
  <2>6. JobsInv'
    BY <1>2, <2>1 DEF ChartInv, JobsInv, Fewer
  <2>7. FormInv'
    BY <2>1, <2>3, <2>4, ChartFacts DEF ChartInv, FormInv
  <2>8. EarlierInv'
    BY <1>2, <2>1, <2>3, <2>4 DEF ChartInv, EarlierInv
  <2>9. ShownInv'
    BY <2>1, <2>3, <2>4 DEF ChartInv, ShownInv
  <2> QED
    BY <2>5, <2>6, <2>7, <2>8, <2>9 DEF ChartInv
<1> QED
  BY <1>1, <1>2

LEMMA ServeInv ==
  ASSUME ChartInv, Fewer, NEW r \in Requests, NEW answer \in Answers, Serve(r, answer)
  PROVE  ChartInv'
<1>1. reply' = [reply EXCEPT ![r] = answer] /\ UNCHANGED <<chart, req, aborting>>
  BY DEF Serve
<1>2. ChartTypeOK'
  BY <1>1, AnswersAssumption DEF ChartInv, ChartTypeOK, AnswersAssumption
<1>3. JobsInv' /\ FormInv' /\ EarlierInv' /\ ShownInv'
  BY <1>1 DEF ChartInv, JobsInv, FormInv, EarlierInv, ShownInv, Fewer
<1> QED
  BY <1>2, <1>3 DEF ChartInv

\* When the run of the form data is answered, no earlier run is posting.
LEMMA AnsweredLast ==
  ASSUME ChartInv, NEW r \in Requests, Answered(r)
  PROVE  /\ chart.form \in Requests /\ req[r].phase = "posting" /\ req[r].via = "none"
         /\ r = chart.form => \A q \in Requests \ {r} : req[q].phase /= "posting"
         /\ r /= chart.form => req[chart.form].phase \in {"posting", "stopped"}
         /\ reply' = reply /\ aborting' = aborting
<1>1. req[r].phase = "posting" /\ (r = chart.controller => aborting = {})
      /\ reply' = reply /\ aborting' = aborting
  BY DEF Answered
<1>2. chart.form \in Requests
  BY <1>1, ChartFacts DEF ChartInv, FormInv, OrNone
<1>3. r = chart.form => r = chart.controller
  BY <1>1, <1>2, ChartFacts DEF ChartInv, FormInv
<1> QED
  BY <1>1, <1>2, <1>3, ChartFacts DEF ChartInv, EarlierInv, JobsInv

LEMMA AnsweredInv ==
  ASSUME ChartInv, NEW r \in Requests, Answered(r),
         \A q \in Requests \ {r} : promise'[q] = "pending" => promise[q] = "pending",
         IF reply[r] = "202" THEN listeners' \cup fetching' \subseteq listeners \cup fetching \cup {r}
                             ELSE Fewer
  PROVE  ChartInv'
<1>0. /\ chart.form \in Requests /\ req[r].phase = "posting" /\ req[r].via = "none"
      /\ r = chart.form => \A q \in Requests \ {r} : req[q].phase /= "posting"
      /\ r /= chart.form => req[chart.form].phase \in {"posting", "stopped"}
      /\ reply' = reply /\ aborting' = aborting /\ reply[r] \in {"200", "202", "error"}
  BY AnsweredLast DEF Answered, ChartInv, ChartTypeOK
<1>1. CASE reply[r] = "200"
  <2>1. req' = [req EXCEPT ![r] = [phase |-> "succeeded", via |-> "200"]]
        /\ chart' = ChartUpdateSucceeded(chart, r)
    BY <1>1 DEF Answered
  <2>2. /\ req' \in [Requests -> ReqValues] /\ req'[r].phase = "succeeded" /\ req'[r].via = "200"
        /\ \A q \in Requests \ {r} : req'[q] = req[q]
    BY <2>1, ChartFacts DEF ReqValues
  <2>3. /\ chart' \in Charts /\ chart'.form = chart.form /\ chart'.controller = chart.controller
        /\ chart'.status = "success" /\ chart'.shown = r
    BY <2>1, ChartFacts DEF ChartUpdateSucceeded, Charts, OrNone
  <2>4. ChartTypeOK'
    BY <1>0, <2>2, <2>3 DEF ChartInv, ChartTypeOK, Charts, ReqValues
  <2>5. JobsInv'
    BY <1>0, <1>1, <2>2 DEF ChartInv, JobsInv, Fewer
  <2>6. FormInv'
    BY <1>0, <2>2, <2>3, ChartFacts DEF ChartInv, FormInv
  <2>7. EarlierInv' /\ ShownInv'
    BY <1>0, <2>2, <2>3 DEF ChartInv, EarlierInv, ShownInv
  <2> QED
    BY <2>4, <2>5, <2>6, <2>7 DEF ChartInv
<1>2. CASE reply[r] = "202"
  <2>1. req' = [req EXCEPT ![r] = [phase |-> "waiting", via |-> "202"]] /\ chart' = chart
    BY <1>2 DEF Answered
  <2>2. /\ req' \in [Requests -> ReqValues] /\ req'[r].phase = "waiting" /\ req'[r].via = "202"
        /\ \A q \in Requests \ {r} : req'[q] = req[q]
    BY <2>1, ChartFacts DEF ReqValues
  <2>4. ChartTypeOK'
    BY <1>0, <2>1, <2>2 DEF ChartInv, ChartTypeOK, Charts, ReqValues
  <2>5. JobsInv'
    <3>1. \A q \in Requests : q \in listeners' \cup fetching' => req'[q].via = "202"
      BY <1>2, <2>1, <2>2, ChartFacts DEF ChartInv, JobsInv
    <3> QED
      BY <2>2, <3>1 DEF ChartInv, JobsInv
  <2>6. FormInv'
    BY <1>0, <2>1, <2>2, ChartFacts DEF ChartInv, FormInv
  <2>7. EarlierInv' /\ ShownInv'
    BY <1>0, <2>1, <2>2 DEF ChartInv, EarlierInv, ShownInv
  <2> QED
    BY <2>4, <2>5, <2>6, <2>7 DEF ChartInv
<1>3. CASE reply[r] = "error"
  <2>1. req' = [req EXCEPT ![r].phase = "failed"] /\ chart' = ChartUpdateFailed(chart)
    BY <1>3 DEF Answered
  <2>2. /\ req' \in [Requests -> ReqValues] /\ req'[r].phase = "failed" /\ req'[r].via = req[r].via
        /\ \A q \in Requests \ {r} : req'[q] = req[q]
    BY <2>1, PhaseFacts
  <2>3. /\ chart' \in Charts /\ chart'.form = chart.form /\ chart'.controller = chart.controller
        /\ chart'.status = "failed"
    BY <2>1, ChartFacts DEF ChartUpdateFailed, Charts, OrNone
  <2>4. ChartTypeOK'
    BY <1>0, <2>2, <2>3 DEF ChartInv, ChartTypeOK, Charts, ReqValues
  <2>5. JobsInv'
    BY <1>0, <1>3, <2>2 DEF ChartInv, JobsInv, Fewer
  <2>6. FormInv'
    BY <1>0, <2>2, <2>3, ChartFacts DEF ChartInv, FormInv
  <2>7. EarlierInv' /\ ShownInv'
    BY <1>0, <2>2, <2>3 DEF ChartInv, EarlierInv, ShownInv
  <2> QED
    BY <2>4, <2>5, <2>6, <2>7 DEF ChartInv
<1> QED
  BY <1>0, <1>1, <1>2, <1>3

LEMMA RejectedInv ==
  ASSUME ChartInv, Fewer, NEW rs \in SUBSET Requests, Rejected(rs), \A r \in rs : req[r].via = "202"
  PROVE  ChartInv'
<1> DEFINE failed(r) == [req[r] EXCEPT !.phase = "failed"]
<1>1. req' = [r \in Requests |-> IF r \in rs THEN failed(r) ELSE req[r]]
      /\ reply' = reply /\ aborting' = aborting
  BY DEF Rejected
<1>2. \A r \in Requests : failed(r) \in ReqValues /\ failed(r).phase = "failed" /\ failed(r).via = req[r].via
  BY ChartFacts DEF ReqValues
<1> HIDE DEF failed
<1>3. /\ req' \in [Requests -> ReqValues]
      /\ \A r \in Requests : req'[r].via = req[r].via
                             /\ req'[r].phase = IF r \in rs THEN "failed" ELSE req[r].phase
  BY <1>1, <1>2, ChartFacts
<1>4. /\ chart' \in Charts /\ chart'.form = chart.form /\ chart'.controller = chart.controller
      /\ \/ chart' = chart /\ rs = {}
         \/ chart'.status = "failed" /\ rs /= {}
  <2>1. CASE rs = {}
    BY <2>1, ChartFacts DEF Rejected
  <2>2. CASE rs /= {}
    BY <2>2, ChartFacts DEF Rejected, ChartUpdateFailed, Charts, OrNone
  <2> QED
    BY <2>1, <2>2
<1>5. \A r \in rs : req[r].phase \notin {"new", "posting", "stopped"}
  BY DEF ChartInv, JobsInv
<1>6. ChartTypeOK'
  BY <1>1, <1>3, <1>4 DEF ChartInv, ChartTypeOK, Charts, ReqValues
<1>7. JobsInv'
  BY <1>3, ChartFacts DEF ChartInv, JobsInv, Fewer, ChartTypeOK
<1>8. FormInv'
  BY <1>3, <1>4, <1>5, ChartFacts DEF ChartInv, FormInv, OrNone
<1>9. EarlierInv'
  BY <1>1, <1>3, <1>4, <1>5, ChartFacts DEF ChartInv, EarlierInv, FormInv, OrNone
<1>10. ShownInv'
  BY <1>3, <1>4, ChartFacts DEF ChartInv, ShownInv, OrNone
<1> QED
  BY <1>6, <1>7, <1>8, <1>9, <1>10 DEF ChartInv

LEMMA ResolvedInv ==
  ASSUME ChartInv, Fewer, NEW r \in Requests, Resolved(r), req[r].via = "202"
  PROVE  ChartInv'
<1>1. /\ req' \in [Requests -> ReqValues] /\ req'[r].phase = "succeeded" /\ req'[r].via = req[r].via
      /\ \A q \in Requests \ {r} : req'[q] = req[q]
  BY PhaseFacts DEF Resolved
<1>2. /\ chart' \in Charts /\ chart'.form = chart.form /\ chart'.controller = chart.controller
      /\ chart'.status = "success" /\ chart'.shown = r /\ reply' = reply /\ aborting' = aborting
  BY ChartFacts DEF Resolved, ChartUpdateSucceeded, Charts, OrNone
<1>3. req[r].phase \notin {"new", "posting", "stopped"}
  BY DEF ChartInv, JobsInv
<1>4. ChartTypeOK'
  BY <1>1, <1>2 DEF ChartInv, ChartTypeOK, Charts, ReqValues
<1>5. JobsInv'
  BY <1>1, <1>3, ChartFacts DEF ChartInv, JobsInv, Fewer
<1>6. FormInv'
  BY <1>1, <1>2, <1>3, ChartFacts DEF ChartInv, FormInv, OrNone
<1>7. EarlierInv'
  BY <1>1, <1>2, <1>3, ChartFacts DEF ChartInv, EarlierInv, FormInv, OrNone
<1>8. ShownInv'
  BY <1>1, <1>2, ChartFacts DEF ChartInv, ShownInv, OrNone
<1> QED
  BY <1>4, <1>5, <1>6, <1>7, <1>8 DEF ChartInv
-----------------------------------------------------------------------------
(***************************************************************************)
(* The inductive invariant, and one lemma per group of actions.            *)
(***************************************************************************)
IInv == StreamsInv /\ ServerInv /\ WsInv /\ WaitTyped /\ PollInv /\ ChartInv

LEMMA InitInv ==
  ASSUME Init
  PROVE  IInv
<1>1. StreamsInv
  BY DEF Init, StreamsInit, StreamsInv, StreamsTypeOK, Ordered, Increasing, JobStates, Statuses
<1>2. ServerInv
  <2>1. firehose \in Firehoses /\ ranges \in Seq(RangeValues)
    BY DEF Init, ServerInit, NoRead, Firehoses
  <2> QED
    BY <2>1 DEF Init, ServerInit, ServerInv, ServerTypeOK, SocketInv, Firehoses, RangeValues
<1>3. WsInv
  <2>0. MaxWsRetries \in Nat /\ MaxFaults \in Nat /\ 0 \in 0 .. MaxWsRetries + 1 /\ 0 \in 0 .. MaxFaults
    BY RetriesAssumption, FaultsAssumption DEF RetriesAssumption, FaultsAssumption
  <2>1. CASE transport = "ws"
    <3>1. ws = [socket |-> 1, state |-> "connecting", asked |-> 0, retries |-> 0]
      BY <2>1 DEF Init, ClientInit, NoWs
    <3>2. /\ ws \in WsValues /\ ws.state = "connecting" /\ ws.socket = 1 /\ ws.retries = 0
      BY <2>0, <3>1 DEF WsValues
    <3>3. faults = 0 /\ transport \in Transports
      BY DEF Init, ClientInit
    <3> QED
      BY <2>0, <2>1, <3>2, <3>3 DEF WsInv
  <2>2. CASE transport /= "ws"
    BY <2>0, <2>2 DEF Init, ClientInit, NoWs, WsInv, WsValues
  <2> QED
    BY <2>1, <2>2
<1>4. WaitTyped
  <2>1. timers \in Timers
    <3>1. timers \in [{} -> Nat \ {0}]
      BY DEF Init, ClientInit, EmptyBag, SetToBag
    <3> QED
      BY <3>1 DEF Timers
  <2>2. retries \in [Requests -> 0 .. MaxRetries]
    BY RetriesAssumption DEF Init, ClientInit, RetriesAssumption
  <2>3. promise \in [Requests -> Promises]
    BY DEF Init, ClientInit, Promises
  <2> QED
    BY <2>1, <2>2, <2>3 DEF Init, ClientInit, WaitTyped, Waiting, WaitStates
<1>5. PollInv
  <2>1. poll \in PollValues /\ poll.phase \in {"off", "timer"}
    <3>1. \E p \in {"off", "timer"} : poll = [phase |-> p, last |-> 0, events |-> <<>>]
      BY DEF Init, ClientInit, NoPoll
    <3> QED
      BY <3>1 DEF PollValues
  <2>2. UpTo(lastId) /\ DOMAIN timers = {}
    BY DEF Init, ClientInit, StreamsInit, UpTo, EmptyBag, SetToBag
  <2> QED
    BY <2>1, <2>2 DEF PollInv
<1>6. ChartInv
  <2>1. ChartTypeOK
    BY DEF Init, ChartInit, ChartTypeOK, OrNone
  <2>2. JobsInv /\ FormInv /\ EarlierInv /\ ShownInv
    BY DEF Init, ChartInit, ClientInit, JobsInv, FormInv, EarlierInv, ShownInv
  <2> QED
    BY <2>1, <2>2 DEF ChartInv
<1> QED
  BY <1>1, <1>2, <1>3, <1>4, <1>5, <1>6 DEF IInv

\* The tab has nothing to do with the step.
LEMMA ClientStays ==
  ASSUME IInv, StreamsInv', StreamsGrow, NoFault, UNCHANGED clientVars
  PROVE  WsInv' /\ WaitTyped' /\ PollInv' /\ Fewer
<1>1. Heard({})
  BY HeardNothing DEF IInv, clientVars, waitVars
<1>2. WsInv'
  BY WsStep, WaitFacts DEF IInv, clientVars
<1>3. PollInv'
  BY <1>1, PollStep DEF IInv, clientVars, Heard
<1> QED
  BY <1>1, <1>2, <1>3 DEF Heard

\* The tab processes events and does nothing else.
LEMMA TabHears ==
  ASSUME IInv, UNCHANGED <<streamVars, transport, ws>>, NoFault, NEW S, Heard(S),
         transport = "polling" => \A e \in S : e \in Entry /\ UpToNext(e.id),
         poll' = poll \/ (poll' \in PollValues /\ poll'.phase \in {"off", "timer"})
  PROVE  StreamsInv' /\ WsInv' /\ WaitTyped' /\ PollInv' /\ Fewer
<1>1. StreamsInv' /\ StreamsGrow
  BY StreamsStep DEF IInv
<1>2. WsInv'
  BY WsStep, WaitFacts DEF IInv
<1>3. PollInv'
  BY <1>1, PollStep DEF IInv, Heard
<1> QED
  BY <1>1, <1>2, <1>3 DEF Heard

LEMMA ChartHearsInv ==
  ASSUME ChartInv, Fewer, ChartHears
  PROVE  ChartInv'
<1> DEFINE rs == {r \in Requests : promise[r] = "pending" /\ promise'[r] = "rejected"}
<1>1. rs \in SUBSET Requests /\ Rejected(rs)
  BY DEF ChartHears
<1>2. \A r \in rs : req[r].via = "202"
  BY DEF ChartInv, JobsInv
<1> HIDE DEF rs
<1> QED
  BY <1>1, <1>2, RejectedInv

LEMMA ChartOnly ==
  ASSUME IInv, NoFault, UNCHANGED <<streamVars, serverVars, clientVars>>
  PROVE  StreamsInv' /\ ServerInv' /\ WsInv' /\ WaitTyped' /\ PollInv' /\ Fewer
<1>1. StreamsInv' /\ StreamsGrow
  BY StreamsStep DEF IInv
<1>2. ServerInv'
  BY ServerStays DEF IInv
<1> QED
  BY <1>1, <1>2, ClientStays

LEMMA UserInv ==
  ASSUME IInv, Stop \/ \E r \in Requests : RunQuery(r) \/ AbortTimer(r)
  PROVE  IInv'
<1>1. StreamsInv' /\ ServerInv' /\ WsInv' /\ WaitTyped' /\ PollInv' /\ Fewer
  BY ChartOnly DEF Stop, RunQuery, AbortTimer
<1>2. CASE Stop
  <2>1. StopQuery /\ chart.controller \in Requests
    BY <1>2, ChartFacts DEF Stop, StopQuery, IInv, OrNone
  <2>2. ChartInv'
    BY <1>1, <2>1, AbortInv DEF StopQuery, IInv
  <2> QED
    BY <1>1, <2>2 DEF IInv
<1>3. ASSUME NEW r \in Requests, RunQuery(r)
      PROVE  IInv'
  <2>1. ChartInv'
    BY <1>1, <1>3, ExploreInv DEF RunQuery, IInv
  <2> QED
    BY <1>1, <2>1 DEF IInv
<1>4. ASSUME NEW r \in Requests, AbortTimer(r)
      PROVE  IInv'
  <2>1. ChartInv'
    BY <1>1, <1>4, AbortInv DEF AbortTimer, AbortPrevious, IInv
  <2> QED
    BY <1>1, <2>1 DEF IInv
<1> QED
  BY <1>2, <1>3, <1>4

LEMMA ServePostInv ==
  ASSUME IInv, NEW r \in Requests, NEW answer \in Answers, ServePost(r, answer)
  PROVE  IInv'
<1>1. StreamsInv' /\ StreamsGrow
  BY StreamsStep DEF IInv, ServePost
<1>2. ServerInv'
  BY ServerStays DEF IInv, ServePost
<1>3. WsInv' /\ WaitTyped' /\ PollInv' /\ Fewer
  BY <1>1, ClientStays DEF ServePost
<1>4. ChartInv'
  BY <1>3, ServeInv DEF IInv, ServePost
<1> QED
  BY <1>1, <1>2, <1>3, <1>4 DEF IInv

LEMMA PostAnsweredInv ==
  ASSUME IInv, NEW r \in Requests, PostAnswered(r)
  PROVE  IInv'
<1>1. StreamsInv' /\ StreamsGrow
  BY StreamsStep DEF IInv, PostAnswered
<1>2. ServerInv'
  BY ServerStays DEF IInv, PostAnswered
<1>3. WsInv'
  BY WsStep, WaitFacts DEF IInv, PostAnswered
<1>4. CASE reply[r] = "202"
  <2>1. /\ WaitTyped' /\ listeners' = listeners \cup {r} /\ fetching' = fetching
        /\ \A p \in Requests \ {r} : promise'[p] = promise[p]
        /\ UNCHANGED <<timers, lastId, received>>
    BY <1>4, WaitedFor DEF IInv, PostAnswered
  <2>2. ReadBy({})
    BY <2>1 DEF ReadBy
  <2>3. PollInv'
    BY <1>1, <2>2, PollStep DEF IInv, PostAnswered
  <2>4. ChartInv'
    BY <1>4, <2>1, AnsweredInv DEF IInv, PostAnswered
  <2> QED
    BY <1>1, <1>2, <1>3, <2>1, <2>3, <2>4 DEF IInv
<1>5. CASE reply[r] /= "202"
  <2>1. Heard({})
    BY <1>5, HeardNothing DEF IInv, PostAnswered
  <2>2. PollInv'
    BY <1>1, <2>1, PollStep DEF IInv, PostAnswered, Heard
  <2>3. ChartInv'
    BY <1>5, <2>1, AnsweredInv DEF IInv, PostAnswered, Heard, Fewer
  <2> QED
    BY <1>1, <1>2, <1>3, <2>1, <2>2, <2>3 DEF IInv, Heard
<1> QED
  BY <1>4, <1>5

LEMMA WorkersInv ==
  ASSUME IInv,
         \E r \in Requests : \/ \E status \in {"done", "error"} : JobEnds(r, status)
                             \/ JobPublished(r) \/ JobTimesOut(r)
  PROVE  IInv'
<1>1. NoFault /\ UNCHANGED <<serverVars, clientVars, chartVars>>
  BY DEF JobEnds, JobPublished, JobTimesOut
<1>2. StreamsInv' /\ StreamsGrow
  BY StreamsStep DEF IInv, JobEnds, JobPublished, JobTimesOut
<1>3. ServerInv'
  BY <1>1, ServerStays DEF IInv
<1>4. WsInv' /\ WaitTyped' /\ PollInv' /\ Fewer
  BY <1>1, <1>2, ClientStays
<1>5. ChartInv'
  BY <1>1, <1>4, ChartStays DEF IInv
<1> QED
  BY <1>2, <1>3, <1>4, <1>5 DEF IInv

LEMMA ServerAloneInv ==
  ASSUME IInv, \/ ServerReads \/ ServerForwards \/ ServerReadTimesOut \/ ServerCatchesUp
               \/ ServerChecks \/ ServerCleans
  PROVE  IInv'
<1>1. NoFault /\ UNCHANGED <<streamVars, clientVars, chartVars>>
  BY DEF ServerReads, ServerForwards, ServerReadTimesOut, ServerCatchesUp, ServerChecks,
         ServerCleans, ServerAlone
<1>2. StreamsInv' /\ StreamsGrow
  BY <1>1, StreamsStep DEF IInv
<1>3. ServerInv'
  <2>1. \/ Xread \/ XreadReply \/ XreadTimeout \/ XrangeReply \/ GcChannels
        \/ \E overdue \in SUBSET Sockets : CheckSockets(overdue)
    BY DEF ServerReads, ServerForwards, ServerReadTimesOut, ServerCatchesUp, ServerChecks,
           ServerCleans, ServerAlone
  <2> QED
    BY <2>1, FirehoseInv, XrangeReplyInv, RegistryInv DEF IInv
<1>4. WsInv' /\ WaitTyped' /\ PollInv' /\ Fewer
  BY <1>1, <1>2, ClientStays
<1>5. ChartInv'
  BY <1>1, <1>4, ChartStays DEF IInv
<1> QED
  BY <1>2, <1>3, <1>4, <1>5 DEF IInv

\* Where polling goes on: a value without a page.
LEMMA AfterPollFacts == AfterPoll \in PollValues /\ AfterPoll.phase \in {"off", "timer"}
<1>1. \E p \in {"off", "timer"} : AfterPoll = [phase |-> p, last |-> 0, events |-> <<>>]
  BY DEF AfterPoll, NoPoll
<1> QED
  BY <1>1 DEF PollValues

LEMMA SocketsInv ==
  ASSUME IInv, Connect \/ Reconnect \/ Refused \/ Restart \/ \E noticed \in BOOLEAN : Lost(noticed)
  PROVE  IInv'
<1>1. UNCHANGED <<streamVars, chartVars, transport, waitVars>>
  BY DEF Connect, Reconnect, Refused, Restart, Lost
<1>2. StreamsInv' /\ StreamsGrow
  BY <1>1, StreamsStep DEF IInv
<1>3. Heard({})
  BY <1>1, HeardNothing DEF IInv
<1>4. WsInv'
  <2>1. \/ UNCHANGED ws /\ (NoFault \/ Fault)
        \/ WsOpen /\ NoFault
        \/ WsClose /\ Fault
        \/ WsReconnect /\ NoFault
    BY DEF Connect, Reconnect, Refused, Restart, Lost
  <2> QED
    BY <1>1, <2>1, WsStep, WaitFacts DEF IInv
<1>5. PollInv'
  <2>1. poll' = poll \/ (poll' \in PollValues /\ poll'.phase \in {"off", "timer"})
    <3>1. poll' = poll \/ poll' = [phase |-> "timer", last |-> 0, events |-> <<>>]
      BY DEF Connect, Reconnect, Refused, Restart, Lost, WsReconnect, NoPoll
    <3>2. [phase |-> "timer", last |-> 0, events |-> <<>>] \in PollValues
      BY DEF PollValues
    <3> QED
      BY <3>1, <3>2
  <2> QED
    BY <1>1, <1>2, <1>3, <2>1, PollStep DEF IInv, Heard
<1>6. ServerInv'
  <2>1. CASE Connect
    <3>1. ws.socket \in Sockets /\ ws.asked \in Nat
      BY <2>1, SocketKnown DEF IInv, Connect, WsOpen, WsInv, WsValues
    <3> QED
      BY <2>1, <3>1, ConnectionInv DEF IInv, Connect
  <2>2. CASE Reconnect \/ Refused
    BY <2>2, ServerStays DEF IInv, Reconnect, Refused
  <2>3. CASE Restart
    BY <2>3, EndsInv DEF IInv, Restart
  <2>4. ASSUME NEW noticed \in BOOLEAN, Lost(noticed)
        PROVE  ServerInv'
    <3>1. ws.socket \in Sockets
      BY <2>4, SocketKnown DEF IInv, Lost
    <3> QED
      BY <2>4, <3>1, EndsInv DEF IInv, Lost
  <2> QED
    BY <2>1, <2>2, <2>3, <2>4
<1>7. ChartInv'
  BY <1>1, <1>3, ChartStays DEF IInv, Heard
<1> QED
  BY <1>2, <1>3, <1>4, <1>5, <1>6, <1>7 DEF IInv, Heard

LEMMA MessageInv ==
  ASSUME IInv, Message
  PROVE  IInv'
<1> DEFINE s == ws.socket
           e == Head(wire[s])
<1>1. s \in Sockets /\ transport = "ws"
  BY SocketKnown DEF IInv, Message
<1>2. ServerInv' /\ e \in Entry
  BY <1>1, WireInv DEF IInv, Message
<1>3. ProcessEvents(<<e>>)
  BY DEF Message
<1> HIDE DEF e
<1>4. <<e>> \in Seq(Entry)
  BY <1>2
<1>5. Heard(Range(<<e>>))
  BY <1>3, <1>4, HeardNow DEF IInv
<1>6. StreamsInv' /\ WsInv' /\ WaitTyped' /\ PollInv' /\ Fewer
  BY <1>1, <1>5, TabHears DEF Message
<1>7. ChartInv'
  BY <1>6, ChartHearsInv DEF IInv, Message
<1> QED
  BY <1>2, <1>6, <1>7 DEF IInv

LEMMA PollingInv ==
  ASSUME IInv, Ask \/ AskNobody \/ Answer \/ PollError
  PROVE  IInv'
<1>1. UNCHANGED <<streamVars, serverVars, chartVars, transport, ws, waitVars>>
  BY DEF Ask, AskNobody, Answer, PollError, PollIdle, PollFails
<1>2. StreamsInv' /\ StreamsGrow
  BY <1>1, StreamsStep DEF IInv
<1>3. ServerInv'
  BY <1>1, ServerStays DEF IInv
<1>4. Heard({})
  BY <1>1, HeardNothing DEF IInv
<1>5. WsInv'
  BY <1>1, WsStep, WaitFacts DEF IInv, Ask, AskNobody, Answer, PollError
<1>6. PollInv'
  <2>1. CASE Ask
    BY <1>1, <2>1, AskInv DEF IInv, Ask
  <2>2. CASE Answer
    BY <1>1, <2>2, AnswerInv DEF IInv, Answer
  <2>3. CASE AskNobody \/ PollError
    <3>1. poll' \in PollValues /\ poll'.phase \in {"off", "timer"}
      BY <2>3, AfterPollFacts DEF AskNobody, PollError, PollIdle, PollFails
    <3> QED
      BY <1>1, <1>2, <1>4, <3>1, PollStep DEF IInv, Heard
  <2> QED
    BY <2>1, <2>2, <2>3
<1>7. ChartInv'
  BY <1>1, <1>4, ChartStays DEF IInv, Heard
<1> QED
  BY <1>2, <1>3, <1>4, <1>5, <1>6, <1>7 DEF IInv, Heard

LEMMA PageInv ==
  ASSUME IInv, Poll
  PROVE  IInv'
<1>1. /\ poll.phase = "answered" /\ poll' = AfterPoll /\ ProcessEvents(poll.events) /\ ChartHears
      /\ NoFault /\ UNCHANGED <<streamVars, serverVars, transport, ws>>
  BY DEF Poll, PollReturns
<1>2. poll.events \in Seq(Entry)
  BY DEF IInv, PollInv, PollValues
<1>3. Heard(Range(poll.events))
  BY <1>1, <1>2, HeardNow DEF IInv
<1>4. transport = "polling" => \A e \in Range(poll.events) : e \in Entry /\ UpToNext(e.id)
  BY <1>1, <1>3, PageHeard DEF IInv, Heard
<1>5. StreamsInv' /\ WsInv' /\ WaitTyped' /\ PollInv' /\ Fewer
  BY <1>1, <1>3, <1>4, AfterPollFacts, TabHears
<1>6. ServerInv'
  BY <1>1, ServerStays DEF IInv
<1>7. ChartInv'
  BY <1>1, <1>5, ChartHearsInv DEF IInv
<1> QED
  BY <1>5, <1>6, <1>7 DEF IInv

LEMMA RetryInv ==
  ASSUME IInv, NEW e \in DOMAIN timers, Retry(e)
  PROVE  IInv'
<1>1. /\ RetryTimer(e) /\ ChartHears /\ NoFault
      /\ UNCHANGED <<streamVars, serverVars, transport, poll, ws>>
  BY DEF Retry
<1>2. Heard({e}) /\ e \in Entry
  BY <1>1, HeardAgain DEF IInv
<1>3. StreamsInv' /\ StreamsGrow
  BY <1>1, StreamsStep DEF IInv
<1>4. transport = "polling" => UpToNext(e.id)
  <2>1. e.id \in Nat
    BY <1>2 DEF Entry
  <2>2. received \subseteq received'
    BY <1>2 DEF Heard, ReadBy
  <2>3. transport = "polling" => UpTo(e.id)
    BY DEF IInv, PollInv
  <2> QED
    BY <1>3, <2>1, <2>2, <2>3, UpToKept
<1>5. StreamsInv' /\ WsInv' /\ WaitTyped' /\ PollInv' /\ Fewer
  BY <1>1, <1>2, <1>4, TabHears
<1>6. ServerInv'
  BY <1>1, ServerStays DEF IInv
<1>7. ChartInv'
  BY <1>1, <1>5, ChartHearsInv DEF IInv
<1> QED
  BY <1>5, <1>6, <1>7 DEF IInv

LEMMA FetchedInv ==
  ASSUME IInv, NEW r \in Requests, NEW ok \in BOOLEAN, Fetched(r, ok)
  PROVE  IInv'
<1>1. /\ FetchReturns(r, ok) /\ NoFault
      /\ UNCHANGED <<streamVars, serverVars, transport, poll, ws>>
  BY DEF Fetched
<1>2. Heard({}) /\ r \in fetching
  BY <1>1, HeardFetch DEF IInv
<1>3. StreamsInv' /\ WsInv' /\ WaitTyped' /\ PollInv' /\ Fewer
  BY <1>1, <1>2, TabHears
<1>4. ServerInv'
  BY <1>1, ServerStays DEF IInv
<1>5. req[r].via = "202"
  BY <1>2 DEF IInv, ChartInv, JobsInv
<1>6. CASE ok
  <2>1. ChartInv'
    BY <1>3, <1>5, <1>6, ResolvedInv DEF IInv, Fetched
  <2> QED
    BY <1>3, <1>4, <2>1 DEF IInv
<1>7. CASE ~ok
  <2>1. Rejected({r}) /\ {r} \in SUBSET Requests
    BY <1>7 DEF Fetched
  <2>2. ChartInv'
    BY <1>3, <1>5, <2>1, RejectedInv DEF IInv
  <2> QED
    BY <1>3, <1>4, <2>2 DEF IInv
<1> QED
  BY <1>6, <1>7
-----------------------------------------------------------------------------
LEMMA StutterInv ==
  ASSUME IInv, UNCHANGED vars
  PROVE  IInv'
<1>1. NoFault /\ UNCHANGED <<streamVars, serverVars, clientVars, chartVars>>
  BY DEF vars, NoFault
<1>2. StreamsInv' /\ ServerInv' /\ WsInv' /\ WaitTyped' /\ PollInv' /\ Fewer
  BY <1>1, ChartOnly
<1>3. ChartInv'
  BY <1>1, <1>2, ChartStays DEF IInv
<1> QED
  BY <1>2, <1>3 DEF IInv

LEMMA NextInv ==
  ASSUME IInv, [Next]_vars
  PROVE  IInv'
<1>1. CASE UNCHANGED vars
  BY <1>1, StutterInv
<1>2. CASE Next
  <2>1. CASE Stop \/ \E r \in Requests : RunQuery(r) \/ AbortTimer(r)
    BY <2>1, UserInv
  <2>2. CASE \E r \in Requests : PostAnswered(r)
    BY <2>2, PostAnsweredInv
  <2>3. CASE \E r \in Requests, answer \in Answers : ServePost(r, answer)
    BY <2>3, ServePostInv
  <2>4. CASE \E r \in Requests : \/ \E status \in {"done", "error"} : JobEnds(r, status)
                                 \/ JobPublished(r) \/ JobTimesOut(r)
    BY <2>4, WorkersInv
  <2>5. CASE \/ ServerReads \/ ServerForwards \/ ServerReadTimesOut \/ ServerCatchesUp
             \/ ServerChecks \/ ServerCleans
    BY <2>5, ServerAloneInv
  <2>6. CASE \/ Connect \/ Reconnect \/ Refused \/ Restart
             \/ \E noticed \in BOOLEAN : Lost(noticed)
    BY <2>6, SocketsInv
  <2>7. CASE Message
    BY <2>7, MessageInv
  <2>8. CASE Ask \/ AskNobody \/ Answer \/ PollError
    BY <2>8, PollingInv
  <2>9. CASE Poll
    BY <2>9, PageInv
  <2>10. CASE \E e \in DOMAIN timers : Retry(e)
    BY <2>10, RetryInv
  <2>11. CASE \E r \in Requests, ok \in BOOLEAN : Fetched(r, ok)
    BY <2>11, FetchedInv
  <2> QED
    BY <1>2, <2>1, <2>2, <2>3, <2>4, <2>5, <2>6, <2>7, <2>8, <2>9, <2>10, <2>11 DEF Next
<1> QED
  BY <1>1, <1>2

LEMMA Invariance == Spec => []IInv
BY InitInv, NextInv, PTL DEF Spec
-----------------------------------------------------------------------------
\* All variables keep their types: whatever the server answers and however
\* events are retried, processEvents leaves at most MaxRetries retries and a
\* bag of timers, and the client counts no more than MaxWsRetries + 1
\* connection attempts.
THEOREM AsyncTypeCorrect == Spec => []TypeOK
<1>1. IInv => TypeOK
  <2> SUFFICES ASSUME IInv PROVE TypeOK
    OBVIOUS
  <2>1. StreamsTypeOK /\ ServerTypeOK /\ ChartTypeOK /\ faults \in 0 .. MaxFaults
    BY DEF IInv, StreamsInv, ServerInv, ChartInv, WsInv
  <2>2. IsABag(timers) /\ DOMAIN timers \subseteq Entry
    BY WaitFacts DEF IInv, Timers, IsABag
  <2>3. ClientTypeOK
    BY <2>2, WaitFacts DEF IInv, WsInv, WsValues, PollInv, PollValues, Promises, ClientTypeOK
  <2> QED
    BY <2>1, <2>3 DEF TypeOK
<1> QED
  BY <1>1, Invariance, PTL

\* trackClient, checkSockets, cleanChannel and the garbage collection: a
\* connection that still reaches its browser is in both registries.
THEOREM LiveSocketsAreKept == Spec => []LiveSocketsStayRegistered
<1>1. IInv => LiveSocketsStayRegistered
  BY DEF IInv, ServerInv, SocketInv, LiveSocketsStayRegistered
<1> QED
  BY <1>1, Invariance, PTL

\* loadEventsFromApi, processEvents and read_events: the cursor of a tab
\* that polls never stands behind an event it has not processed, whatever
\* the size of a page, the number of jobs and the order of the retries.
THEOREM PollingIsComplete == Spec => []PollingSkipsNoEvent
<1>1. IInv => PollingSkipsNoEvent
  BY DEF IInv, PollInv, UpTo, PollingSkipsNoEvent
<1> QED
  BY <1>1, Invariance, PTL

\* exploreJSON and its AbortControllers: once the run of the current form
\* data has its data, the chart shows them, unless another run is a job.
THEOREM LatestRunIsShown == Spec => []SupersededRunShowsNothing
<1>1. IInv => SupersededRunShowsNothing
  BY DEF IInv, ChartInv, ShownInv, SupersededRunShowsNothing
<1> QED
  BY <1>1, Invariance, PTL

\* CHART_UPDATE_STOPPED: a chart that says it was stopped is one whose
\* current run was stopped.
THEOREM StoppedByItsOwnAbort == Spec => []OnlyOwnAbortStopsChart
<1>1. IInv => OnlyOwnAbortStopsChart
  BY DEF IInv, ChartInv, FormInv, OnlyOwnAbortStopsChart
<1> QED
  BY <1>1, Invariance, PTL
=============================================================================
