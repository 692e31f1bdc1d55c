-------------------------- MODULE ResilienceProofs --------------------------
(***************************************************************************)
(* Proofs about the components of MCResilience: who is let in (the circuit *)
(* breaker, the bulkhead and the request queue, for all limits, every      *)
(* recovery timeout and every finite set of callers and tasks, however     *)
(* their calls end); what must stay in step with what it was made from,    *)
(* and what is chosen by figures; and the components beside one another.   *)
(***************************************************************************)
EXTENDS MCResilience, SequenceTheorems, FiniteSetTheorems, NaturalsInduction,
        WellFoundedInduction, TLAPS

-----------------------------------------------------------------------------
(* The circuit breaker.                                                    *)

IInv == TypeOK /\ ThresholdsHonoured /\ ProbesBounded

\* The part of the invariant that does not count.
Plain == /\ TypeOK /\ ThresholdsHonoured /\ halfOpenCalls <= HalfOpenMaxCalls
         /\ state # "closed" => \A c \in Callers : call[c] # "normal"

LEMMA InitIInv == Init => IInv
<1> SUFFICES ASSUME Init PROVE IInv
  OBVIOUS
<1>1. Plain
  BY BreakerAssumption DEF Init, Plain, TypeOK, ThresholdsHonoured, CallStates, NotOpened
<1>2. Probes = {}
  BY DEF Init, Probes
<1>3. Cardinality(Probes) = 0
  BY <1>2, FS_EmptySet
<1> QED BY <1>1, <1>2, <1>3 DEF IInv, Plain, ProbesBounded, Init

\* Ending a call never adds a probe.
LEMMA FinishedProbes ==
    ASSUME TypeOK, NEW c \in Callers, call' = Finished(c)
    PROVE  Probes' \subseteq Probes
  BY DEF TypeOK, Finished, Probes

\* No call in flight is a probe after a transition.
LEMMA AgedProbes ==
    ASSUME NEW calls, call' = aged(calls)
    PROVE  /\ Probes' = {} /\ Cardinality(Probes') = 0
           /\ call' \in [Callers -> CallStates]
           /\ \A c \in Callers : call'[c] # "normal"
<1>1. Probes' = {}
  BY DEF aged, Probes
<1> QED BY <1>1, FS_EmptySet DEF aged, CallStates

\* A transition to OPEN or CLOSED establishes the invariant outright.
LEMMA TransitionKeeps ==
    ASSUME IInv, NEW calls, failureCount' \in 0..FailureThreshold,
           ToOpen(calls) \/ ToClosed(calls)
    PROVE  IInv'
<1>1. /\ Probes' = {} /\ Cardinality(Probes') = 0
      /\ call' \in [Callers -> CallStates]
      /\ \A c \in Callers : call'[c] # "normal"
  BY AgedProbes DEF ToOpen, ToClosed
<1>2. Plain'
  BY <1>1, BreakerAssumption
     DEF Plain, TypeOK, ThresholdsHonoured, ToOpen, ToClosed, NotOpened
<1>3. halfOpenCalls' = 0
  BY DEF ToOpen, ToClosed
<1> QED BY <1>1, <1>2, <1>3 DEF IInv, Plain, ProbesBounded

\* A step that adds no probe and changes no counter of probes.
LEMMA NoNewProbe ==
    ASSUME IInv, Probes' \subseteq Probes, Plain',
           UNCHANGED <<state, halfOpenCalls>>
    PROVE  IInv'
<1>1. IsFiniteSet(Probes) /\ Cardinality(Probes) \in Nat
  <2>1. IsFiniteSet(Probes)
    BY BreakerAssumption, FS_Subset DEF Probes
  <2> QED BY <2>1, FS_CardinalityType
<1>2. Cardinality(Probes') <= Cardinality(Probes) /\ Cardinality(Probes') \in Nat
  BY <1>1, FS_Subset, FS_CardinalityType
<1>3. halfOpenCalls \in Nat
  BY DEF IInv, TypeOK
<1> QED BY <1>1, <1>2, <1>3 DEF IInv, Plain, ProbesBounded

\* Admitting c as a probe adds it to the probes.
LEMMA NewProbe ==
    ASSUME IInv, NEW c \in Callers, call' = [call EXCEPT ![c] = "probe"]
    PROVE  Cardinality(Probes') <= halfOpenCalls + 1
<1>1. Probes' = Probes \cup {c}
  BY DEF IInv, TypeOK, Probes
<1>2. IsFiniteSet(Probes) /\ Cardinality(Probes) \in Nat
  <2>1. IsFiniteSet(Probes)
    BY BreakerAssumption, FS_Subset DEF Probes
  <2> QED BY <2>1, FS_CardinalityType
<1>3. Cardinality(Probes') = Cardinality(Probes) \/ Cardinality(Probes') = Cardinality(Probes) + 1
  BY <1>1, <1>2, FS_AddElement
<1> QED BY <1>2, <1>3 DEF IInv, TypeOK, ProbesBounded

LEMMA NextIInv == IInv /\ [Next]_vars => IInv'
<1> SUFFICES ASSUME IInv, [Next]_vars PROVE IInv'
  OBVIOUS
<1> USE BreakerAssumption
<1>1. TypeOK /\ Plain
  BY DEF IInv, Plain, ProbesBounded
<1>2. ASSUME NEW c \in Callers, AdmitClosed(c) PROVE IInv'
  <2>1. Probes' \subseteq Probes
    BY <1>1, <1>2 DEF AdmitClosed, Probes, TypeOK
  <2>2. Plain'
    BY <1>1, <1>2 DEF AdmitClosed, Plain, TypeOK, ThresholdsHonoured, CallStates
  <2> QED BY <1>2, <2>1, <2>2, NoNewProbe DEF AdmitClosed
<1>3. ASSUME NEW c \in Callers, AdmitProbe(c) PROVE IInv'
  <2>1. Cardinality(Probes') <= halfOpenCalls'
    BY <1>3, NewProbe DEF AdmitProbe
  <2>2. Plain'
    BY <1>1, <1>3 DEF AdmitProbe, Plain, TypeOK, ThresholdsHonoured, CallStates
  <2> QED BY <1>3, <2>1, <2>2 DEF IInv, Plain, ProbesBounded, AdmitProbe
<1>4. ASSUME NEW c \in Callers, AdmitFirstProbe(c) PROVE IInv'
  <2>1. Probes' = {c}
    BY <1>4 DEF AdmitFirstProbe, aged, Probes
  <2>2. Cardinality(Probes') = 1
    BY <2>1, FS_Singleton
  <2>3. Plain'
    BY <1>1, <1>4 DEF AdmitFirstProbe, aged, Recovering, Plain, TypeOK, ThresholdsHonoured,
                      CallStates, NotOpened
  <2> QED BY <1>4, <2>2, <2>3 DEF IInv, Plain, ProbesBounded, AdmitFirstProbe
<1>5. ASSUME Observe PROVE IInv'
  <2>1. /\ Probes' = {} /\ Cardinality(Probes') = 0
        /\ call' \in [Callers -> CallStates]
        /\ \A c \in Callers : call'[c] # "normal"
    BY <1>5, AgedProbes DEF Observe
  <2>2. Plain'
    BY <1>1, <1>5, <2>1 DEF Observe, Recovering, Plain, TypeOK, ThresholdsHonoured, NotOpened
  <2> QED BY <1>5, <2>1, <2>2 DEF IInv, Plain, ProbesBounded, Observe
<1>6. ASSUME NEW c \in Callers, RecordSuccess(c) PROVE IInv'
  <2>1. CASE ToClosed(Finished(c))
    BY <2>1, TransitionKeeps DEF ToClosed
  <2>2. CASE ~ToClosed(Finished(c))
    <3>1. call' = Finished(c) /\ UNCHANGED <<state, halfOpenCalls>>
      BY <1>6, <2>2 DEF RecordSuccess
    <3>2. Plain'
      BY <1>1, <1>6, <2>2 DEF RecordSuccess, Finished, Plain, TypeOK, ThresholdsHonoured, CallStates
    <3> QED BY <1>1, <3>1, <3>2, FinishedProbes, NoNewProbe
  <2> QED BY <2>1, <2>2
<1>7. ASSUME NEW c \in Callers, RecordFailure(c) PROVE IInv'
  <2>1. failureCount' \in 0..FailureThreshold
    BY <1>1, <1>7 DEF RecordFailure, TypeOK
  <2>2. CASE ToOpen(Finished(c))
    BY <2>1, <2>2, TransitionKeeps
  <2>3. CASE ~ToOpen(Finished(c))
    <3>1. call' = Finished(c) /\ UNCHANGED <<state, halfOpenCalls>>
      BY <1>7, <2>3 DEF RecordFailure
    <3>2. Plain'
      BY <1>1, <1>7, <2>3 DEF RecordFailure, Finished, Plain, TypeOK, ThresholdsHonoured, CallStates
    <3> QED BY <1>1, <3>1, <3>2, FinishedProbes, NoNewProbe
  <2> QED BY <2>2, <2>3
<1>8. ASSUME NEW c \in Callers, EndUncounted(c) PROVE IInv'
  <2>1. Plain'
    BY <1>1, <1>8 DEF EndUncounted, Finished, Plain, TypeOK, ThresholdsHonoured, CallStates
  <2> QED BY <1>1, <1>8, <2>1, FinishedProbes, NoNewProbe DEF EndUncounted
<1>9. ASSUME Reset PROVE IInv'
  BY <1>9, TransitionKeeps DEF Reset, ToClosed
<1>10. ASSUME Tick \/ UNCHANGED vars PROVE IInv'
  <2>1. Plain' /\ Probes' \subseteq Probes
    BY <1>1, <1>10 DEF Tick, vars, Plain, TypeOK, ThresholdsHonoured, NotOpened, Probes
  <2> QED BY <1>10, <2>1, NoNewProbe DEF Tick, vars
<1> QED BY <1>2, <1>3, <1>4, <1>5, <1>6, <1>7, <1>8, <1>9, <1>10 DEF Next, Ask, End

\* The state and the counters have their types.
THEOREM TypeCorrect == Spec => []TypeOK
<1>1. IInv => TypeOK
  BY DEF IInv
<1> QED BY <1>1, InitIInv, NextIInv, PTL DEF Spec

\* No threshold is ever passed without its transition, for all thresholds and
\* whatever late results arrive.
THEOREM ThresholdsCorrect == Spec => []ThresholdsHonoured
<1>1. IInv => ThresholdsHonoured
  BY DEF IInv
<1> QED BY <1>1, InitIInv, NextIInv, PTL DEF Spec

\* A half-open period never has more than half_open_max_calls probes in
\* flight, and no call is admitted while the circuit is open.
THEOREM ProbesCorrect == Spec => []ProbesBounded
<1>1. IInv => ProbesBounded
  BY DEF IInv
<1> QED BY <1>1, InitIInv, NextIInv, PTL DEF Spec

\* An open circuit stays open for the recovery timeout, unless it is reset.
THEOREM OpenCorrect == Spec => OpenHoldsForTimeout
<1>1. TypeOK /\ [Next]_vars =>
        [state = "open" /\ state' # "open" =>
            \/ state' = "half_open" /\ openFor >= RecoveryTimeout
            \/ state' = "closed" /\ Reset]_vars
  BY DEF Next, Ask, End, AdmitClosed, AdmitProbe, AdmitFirstProbe, Observe, Recovering,
         RecordSuccess, RecordFailure, EndUncounted, Reset, ToOpen, ToClosed, Tick, vars
<1>2. IInv => TypeOK
  BY DEF IInv
<1> QED BY <1>1, <1>2, InitIInv, NextIInv, PTL DEF Spec, OpenHoldsForTimeout

-----------------------------------------------------------------------------
(* The bulkhead: its semaphore and the tasks that hold or wait for a slot. *)

\* What leaves a sequence without doubles is no longer in it, and the rest is.
LEMMA RemoveAtFacts ==
    ASSUME NEW S, NEW s \in Seq(S), IsInjective(s), NEW i \in 1..Len(s)
    PROVE  /\ RemoveAt(s, i) \in Seq(S) /\ Len(RemoveAt(s, i)) = Len(s) - 1
           /\ IsInjective(RemoveAt(s, i))
           /\ Range(RemoveAt(s, i)) = Range(s) \ {s[i]}
<1> DEFINE a == SubSeq(s, 1, i - 1)
           b == SubSeq(s, i + 1, Len(s))
           from(k) == IF k < i THEN k ELSE k + 1
<1>0. Len(s) \in Nat /\ i \in Nat /\ DOMAIN s = 1..Len(s)
  OBVIOUS
<1>1. /\ a \in Seq(S) /\ Len(a) = i - 1
      /\ \A k \in 1..(i - 1) : a[k] = s[k]
  BY SubSeqProperties
<1>2. /\ b \in Seq(S) /\ Len(b) = Len(s) - i
      /\ \A k \in 1..(Len(s) - i) : b[k] = s[k + i]
  BY SubSeqProperties
<1> HIDE DEF a, b
<1>3. PICK r : r = a \o b
  OBVIOUS
<1>4. /\ r \in Seq(S) /\ Len(r) = Len(a) + Len(b)
      /\ \A k \in 1..(Len(a) + Len(b)) : r[k] = IF k <= Len(a) THEN a[k] ELSE b[k - Len(a)]
  BY <1>1, <1>2, <1>3, ConcatProperties
<1>5. Len(r) = Len(s) - 1 /\ DOMAIN r = 1..(Len(s) - 1)
  BY <1>0, <1>1, <1>2, <1>4
<1>6. ASSUME NEW k \in 1..(Len(s) - 1) PROVE from(k) \in 1..Len(s) /\ from(k) # i /\ r[k] = s[from(k)]
  <2>1. CASE k < i
    <3>1. k \in 1..(i - 1) /\ k <= Len(a) /\ k \in 1..(Len(a) + Len(b)) /\ k \in 1..Len(s)
      BY <1>0, <1>1, <1>2, <2>1
    <3>2. r[k] = a[k] /\ a[k] = s[k]
      BY <1>1, <1>4, <3>1
    <3> QED BY <1>0, <2>1, <3>1, <3>2
  <2>2. CASE ~(k < i)
    <3>1. k - (i - 1) \in 1..(Len(s) - i) /\ (k - (i - 1)) + i = k + 1 /\ k + 1 \in 1..Len(s)
      BY <1>0, <2>2
    <3>2. b[k - (i - 1)] = s[k + 1]
      BY <1>2, <3>1
    <3>3. r[k] = b[k - (i - 1)]
      <4>1. k \in 1..(Len(a) + Len(b)) /\ ~(k <= Len(a))
        BY <1>0, <1>1, <1>2, <2>2
      <4> QED BY <1>1, <1>4, <4>1
    <3> QED BY <1>0, <2>2, <3>1, <3>2, <3>3
  <2> QED BY <2>1, <2>2
<1>7. \A m \in 1..Len(s) : m # i => \E k \in 1..(Len(s) - 1) : from(k) = m
  <2> TAKE m \in 1..Len(s)
  <2>1. m < i => m \in 1..(Len(s) - 1) /\ from(m) = m
    BY <1>0
  <2>2. m > i => m - 1 \in 1..(Len(s) - 1) /\ from(m - 1) = m
    BY <1>0
  <2> QED BY <1>0, <2>1, <2>2
<1>8. \A k, m \in 1..(Len(s) - 1) : from(k) = from(m) => k = m
  BY <1>0
<1> HIDE DEF from
<1>9. \A m \in 1..Len(s) : s[m] = s[i] => m = i
  BY <1>0 DEF IsInjective
<1>10. IsInjective(r)
  BY <1>0, <1>5, <1>6, <1>8 DEF IsInjective
<1>11. Range(r) = Range(s) \ {s[i]}
  <2>1. \A k \in DOMAIN r : r[k] \in Range(s) \ {s[i]}
    BY <1>0, <1>5, <1>6, <1>9 DEF Range
  <2>2. \A m \in 1..Len(s) : m # i => \E k \in DOMAIN r : r[k] = s[m]
    BY <1>5, <1>6, <1>7
  <2> QED BY <1>0, <2>1, <2>2 DEF Range
<1> QED BY <1>3, <1>4, <1>5, <1>10, <1>11 DEF RemoveAt, a, b

-----------------------------------------------------------------------------
\* The tasks that are woken wait in the queue, and there is a slot for each.
LEMMA WokenFacts ==
    ASSUME NEW q \in Seq(BhTasks), NEW where, NEW n \in Nat
    PROVE  /\ \A u \in Woken(q, where, n) : u \in Range(q) /\ where[u] = "waiting"
           /\ IsFiniteSet(Woken(q, where, n))
           /\ Cardinality(Woken(q, where, n)) \in 0..n
<1> DEFINE upto(i) == {k \in 1..i : where[q[k]] = "waiting"}
           asleep(t) == upto(PlaceOf(t, q))
<1>1. PICK W : W = Woken(q, where, n)
  OBVIOUS
<1>2. \A t \in Range(q) : PlaceOf(t, q) \in 1..Len(q) /\ q[PlaceOf(t, q)] = t
  BY DEF PlaceOf, Range
<1>3. /\ \A t \in W : t \in Range(q) /\ where[t] = "waiting"
      /\ \A t \in W : Cardinality(asleep(t)) <= n
  BY <1>1 DEF Woken
<1>4. ASSUME NEW t \in W
      PROVE  /\ IsFiniteSet(asleep(t)) /\ Cardinality(asleep(t)) \in Nat
             /\ PlaceOf(t, q) \in asleep(t) /\ PlaceOf(t, q) \in Nat
  <2>1. PlaceOf(t, q) \in 1..Len(q) /\ q[PlaceOf(t, q)] = t /\ where[t] = "waiting"
    BY <1>2, <1>3
  <2>2. IsFiniteSet(1..PlaceOf(t, q))
    BY FS_Interval, <2>1
  <2> QED BY <2>1, <2>2, FS_Subset, FS_CardinalityType
<1>5. ASSUME NEW t \in W, NEW u \in W, PlaceOf(t, q) < PlaceOf(u, q)
      PROVE  Cardinality(asleep(t)) # Cardinality(asleep(u))
  <2>1. PICK A, B : A = asleep(t) /\ B = asleep(u)
    OBVIOUS
  <2>2. A \subseteq B /\ PlaceOf(u, q) \in B /\ PlaceOf(u, q) \notin A
    <3>1. PICK i, j : i = PlaceOf(t, q) /\ j = PlaceOf(u, q)
      OBVIOUS
    <3>2. i \in Nat /\ j \in Nat /\ i < j /\ j \in upto(j)
      BY <1>4, <1>5, <3>1
    <3>3. upto(i) \subseteq upto(j) /\ j \notin upto(i)
      BY <3>2
    <3> HIDE DEF upto
    <3> QED BY <2>1, <3>1, <3>2, <3>3
  <2> HIDE DEF asleep
  <2>3. IsFiniteSet(B) /\ Cardinality(A) \in Nat /\ Cardinality(B) \in Nat
    BY <1>4, <2>1
  <2>4. A # B
    BY <2>2
  <2>5. Cardinality(A) < Cardinality(B)
    BY <2>2, <2>3, <2>4, FS_Subset
  <2> QED BY <2>1, <2>3, <2>5
<1> HIDE DEF asleep
<1>6. \A t \in W : Cardinality(asleep(t)) \in 1..n
  <2> TAKE t \in W
  <2>1. Cardinality(asleep(t)) # 0
    BY <1>4, FS_EmptySet
  <2> QED BY <1>3, <1>4, <2>1
<1> DEFINE rank == [t \in W |-> Cardinality(asleep(t))]
<1>7. rank \in Injection(W, 1..n)
  <2>1. rank \in [W -> 1..n]
    BY <1>6
  <2>2. ASSUME NEW t \in W, NEW u \in W, rank[t] = rank[u] PROVE t = u
    <3>1. ~(PlaceOf(t, q) < PlaceOf(u, q)) /\ ~(PlaceOf(u, q) < PlaceOf(t, q))
      BY <1>5, <2>2
    <3>2. PlaceOf(t, q) = PlaceOf(u, q)
      BY <1>4, <3>1
    <3> QED BY <1>2, <1>3, <3>2
  <2> HIDE DEF rank
  <2> QED BY <2>1, <2>2 DEF Injection, IsInjective
<1> HIDE DEF rank
<1>8. IsFiniteSet(1..n) /\ Cardinality(1..n) = n
  BY FS_Interval
<1>9. IsFiniteSet(W) /\ Cardinality(W) <= n
  BY <1>7, <1>8, FS_Injection
<1> QED BY <1>1, <1>3, <1>9, FS_CardinalityType

-----------------------------------------------------------------------------
Held == TasksIn({"granted", "inside"})
Inside == TasksIn({"inside"})
Unserved == TasksIn({"waiting", "granted"})

\* Slots are conserved: every slot is free, given or used, and the tasks that
\* have not got one, or not gone on with it, are the ones that are queued.
SlotsKept ==
    /\ free \in Nat /\ bhActive \in Nat
    /\ free + Cardinality(Held) = MaxConcurrent
    /\ bhActive = Cardinality(Inside)

QueuedWait ==
    /\ waiters \in Seq(BhTasks) /\ IsInjective(waiters)
    /\ Range(waiters) = Unserved
    /\ bhWaiting \in Nat /\ bhWaiting >= Len(waiters)

BulkheadInv ==
    /\ place \in [BhTasks -> Places] /\ patient \in BOOLEAN
    /\ SlotsKept /\ QueuedWait

LEMMA TasksFinite ==
    /\ IsFiniteSet(Held) /\ Cardinality(Held) \in Nat
    /\ IsFiniteSet(Inside) /\ Cardinality(Inside) \in Nat
<1>1. Held \subseteq BhTasks /\ Inside \subseteq BhTasks
  BY DEF TasksIn, Held, Inside
<1> QED BY <1>1, BulkheadAssumption, FS_Subset, FS_CardinalityType

\* A task that joins a set of tasks, or leaves it, changes its size by one.
LEMMA OneMore ==
    ASSUME NEW S, IsFiniteSet(S), NEW t, t \notin S
    PROVE  IsFiniteSet(S \cup {t}) /\ Cardinality(S \cup {t}) = Cardinality(S) + 1
  BY FS_AddElement, FS_CardinalityType

LEMMA OneLess ==
    ASSUME NEW S, IsFiniteSet(S), NEW t \in S
    PROVE  IsFiniteSet(S \ {t}) /\ Cardinality(S \ {t}) = Cardinality(S) - 1
  BY FS_RemoveElement, FS_CardinalityType

LEMMA Together ==
    ASSUME NEW S, NEW T, IsFiniteSet(S), IsFiniteSet(T), S \cap T = {}
    PROVE  IsFiniteSet(S \cup T) /\ Cardinality(S \cup T) = Cardinality(S) + Cardinality(T)
<1>1. Cardinality(S \cap T) = 0
  BY FS_EmptySet
<1> QED BY <1>1, FS_Union, FS_CardinalityType

LEMMA BulkheadStart == BhInit => BulkheadInv
<1> SUFFICES ASSUME BhInit PROVE BulkheadInv
  OBVIOUS
<1>1. Held = {} /\ Inside = {}
      /\ Unserved = {}
  BY DEF TasksIn, Held, Inside, Unserved, BhInit
<1>2. Cardinality({}) = 0
  BY FS_EmptySet
<1>3. waiters \in Seq(BhTasks) /\ IsInjective(waiters) /\ Range(waiters) = {} /\ Len(waiters) = 0
  BY DEF BhInit, IsInjective, Range
<1>4. SlotsKept
  BY <1>1, <1>2, BulkheadAssumption DEF BhInit, SlotsKept
<1>5. QueuedWait
  BY <1>1, <1>3 DEF BhInit, QueuedWait
<1> QED BY <1>4, <1>5 DEF BhInit, BulkheadInv, Places

\* What the wake-up does to the slots, whoever made the n of them free: w are
\* the tasks that are given one, and t goes to place p.
Moved(S, t, p) == IF p = "inside" THEN S \cup {t} ELSE S \ {t}
Wakes(t, p, n, w) ==
    /\ \A u \in w : u \in BhTasks /\ u # t /\ place[u] = "waiting"
    /\ IsFiniteSet(w) /\ Cardinality(w) \in 0..n
    /\ place' = [u \in BhTasks |->
               IF u = t THEN p ELSE IF u \in w THEN "granted" ELSE place[u]]
    /\ free' = n - Cardinality(w)

LEMMA Waking ==
    ASSUME BulkheadInv, NEW t \in BhTasks, NEW p \in {"idle", "inside"}, NEW n \in Nat, NEW w,
           Wakes(t, p, n, w)
    PROVE  /\ place' \in [BhTasks -> Places] /\ free' \in Nat
           /\ Unserved' = Unserved \ {t}
           /\ Inside' = Moved(Inside, t, p)
           /\ free' + Cardinality(Held')
                = n + Cardinality(Moved(Held, t, p))
<1> DEFINE rest == Moved(Held, t, p)
<1>0. /\ place \in [BhTasks -> Places]
      /\ \A u \in w : u \in BhTasks /\ u # t /\ place[u] = "waiting"
      /\ IsFiniteSet(w) /\ Cardinality(w) \in 0..n
      /\ place' = [u \in BhTasks |->
               IF u = t THEN p ELSE IF u \in w THEN "granted" ELSE place[u]]
      /\ free' = n - Cardinality(w)
  BY DEF BulkheadInv, Wakes
<1>1. place' \in [BhTasks -> Places] /\ \A u \in BhTasks : place'[u] =
          IF u = t THEN p ELSE IF u \in w THEN "granted" ELSE place[u]
  BY <1>0 DEF Places
<1>2. Unserved' = Unserved \ {t}
  BY <1>0, <1>1 DEF TasksIn, Held, Inside, Unserved, Moved
<1>3. Inside' = Moved(Inside, t, p)
  BY <1>0, <1>1 DEF TasksIn, Held, Inside, Unserved, Moved
<1>4. Held' = rest \cup w /\ rest \cap w = {}
  BY <1>0, <1>1 DEF TasksIn, Held, Inside, Unserved, Moved
<1>5. IsFiniteSet(Held) /\ IsFiniteSet({t})
  BY TasksFinite, FS_Singleton
<1>6. IsFiniteSet(rest) /\ Cardinality(rest) \in Nat
  <2>1. IsFiniteSet(Held \cup {t}) /\ IsFiniteSet(Held \ {t})
    BY <1>5, FS_Union, FS_Difference
  <2> QED BY <2>1, FS_CardinalityType DEF Moved
<1> HIDE DEF rest
<1>7. Cardinality(Held') = Cardinality(rest) + Cardinality(w)
  BY <1>0, <1>4, <1>6, Together
<1>8. free' \in Nat /\ free' + Cardinality(Held') = n + Cardinality(rest)
  BY <1>0, <1>6, <1>7
<1> QED BY <1>1, <1>2, <1>3, <1>8 DEF rest

LEMMA LeaveKeeps ==
    ASSUME BulkheadInv, NEW t \in BhTasks, place[t] \in {"waiting", "granted"},
           NEW p \in {"idle", "inside"}, NEW n \in Nat, Leave(t, p, n)
    PROVE  /\ place' \in [BhTasks -> Places] /\ free' \in Nat
           /\ waiters' \in Seq(BhTasks) /\ IsInjective(waiters') /\ Len(waiters') = Len(waiters) - 1
           /\ Range(waiters') = Unserved'
           /\ Inside' = Moved(Inside, t, p)
           /\ free' + Cardinality(Held')
                = n + Cardinality(Moved(Held, t, p))
<1>1. PICK i \in 1..Len(waiters) : i = PlaceOf(t, waiters) /\ waiters[i] = t
  <2>1. t \in Range(waiters) /\ waiters \in Seq(BhTasks)
    BY DEF BulkheadInv, QueuedWait, TasksIn, Unserved
  <2> QED BY <2>1 DEF PlaceOf, Range
<1>2. PICK q : q = RemoveAt(waiters, i)
  OBVIOUS
<1>3. q \in Seq(BhTasks) /\ Len(q) = Len(waiters) - 1 /\ IsInjective(q)
      /\ Range(q) = Unserved \ {t}
  BY <1>1, <1>2, RemoveAtFacts DEF BulkheadInv, QueuedWait
<1>4. PICK w : w = Woken(q, [place EXCEPT ![t] = p], n)
  OBVIOUS
<1>5. /\ IsFiniteSet(w) /\ Cardinality(w) \in 0..n
      /\ \A u \in w : u \in Range(q) /\ [place EXCEPT ![t] = p][u] = "waiting"
  BY <1>3, <1>4, WokenFacts
<1>6. \A u \in w : u \in BhTasks /\ u # t /\ place[u] = "waiting"
  BY <1>3, <1>5 DEF TasksIn, BulkheadInv, Unserved
<1>7. /\ waiters' = q
      /\ place' = [u \in BhTasks |->
               IF u = t THEN p ELSE IF u \in w THEN "granted" ELSE place[u]]
      /\ free' = n - Cardinality(w)
  BY <1>1, <1>2, <1>4 DEF Leave
<1>70. Wakes(t, p, n, w)
  BY <1>5, <1>6, <1>7 DEF Wakes
<1>8. /\ place' \in [BhTasks -> Places] /\ free' \in Nat
      /\ Unserved' = Unserved \ {t}
      /\ Inside' = Moved(Inside, t, p)
      /\ free' + Cardinality(Held')
           = n + Cardinality(Moved(Held, t, p))
  BY <1>70, Waking
<1> QED BY <1>3, <1>7, <1>8

LEMMA BulkheadStep ==
    ASSUME BulkheadInv, [BhNext]_bhvars
    PROVE  BulkheadInv'
<1>0. /\ place \in [BhTasks -> Places] /\ patient \in BOOLEAN
      /\ free \in Nat /\ bhActive \in Nat /\ MaxConcurrent \in Nat
      /\ free + Cardinality(Held) = MaxConcurrent /\ bhActive = Cardinality(Inside)
      /\ waiters \in Seq(BhTasks) /\ IsInjective(waiters) /\ Len(waiters) \in Nat
      /\ Range(waiters) = Unserved
      /\ bhWaiting \in Nat /\ bhWaiting >= Len(waiters)
  BY BulkheadAssumption DEF BulkheadInv, SlotsKept, QueuedWait
<1>00. /\ IsFiniteSet(Held) /\ Cardinality(Held) \in Nat
       /\ IsFiniteSet(Inside) /\ Cardinality(Inside) \in Nat
  BY TasksFinite
<1>1. ASSUME NEW t \in BhTasks, AcquireFree(t) PROVE BulkheadInv'
  <2>1. /\ place[t] = "idle" /\ free # 0 /\ waiters = <<>>
        /\ place' = [place EXCEPT ![t] = "inside"] /\ free' = free - 1 /\ bhActive' = bhActive + 1
        /\ UNCHANGED <<waiters, patient, bhWaiting>>
    BY <1>1 DEF AcquireFree, locked
  <2>2. Held' = Held \cup {t} /\ Inside' = Inside \cup {t} /\ t \notin Held /\ t \notin Inside
        /\ Unserved' = Unserved
    BY <1>0, <2>1 DEF TasksIn, Held, Inside, Unserved, Moved
  <2>3. Cardinality(Held') = Cardinality(Held) + 1 /\ Cardinality(Inside') = Cardinality(Inside) + 1
    BY <1>00, <2>2, OneMore
  <2>4. place' \in [BhTasks -> Places]
    BY <1>0, <2>1 DEF Places
  <2>5. free' \in Nat /\ bhActive' \in Nat /\ free' + Cardinality(Held') = MaxConcurrent
        /\ bhActive' = Cardinality(Inside')
    BY <1>0, <1>00, <2>1, <2>3
  <2>6. QueuedWait'
    BY <1>0, <2>1, <2>2 DEF QueuedWait
  <2> QED BY <1>0, <2>1, <2>4, <2>5, <2>6 DEF BulkheadInv, SlotsKept
<1>2. ASSUME NEW t \in BhTasks, AcquireWait(t) PROVE BulkheadInv'
  <2>1. /\ place[t] = "idle" /\ place' = [place EXCEPT ![t] = "waiting"]
        /\ waiters' = Append(waiters, t) /\ bhWaiting' = bhWaiting + 1
        /\ UNCHANGED <<free, patient, bhActive>>
    BY <1>2 DEF AcquireWait
  <2>2. Held' = Held /\ Inside' = Inside /\ t \notin Range(waiters)
        /\ Unserved' = Unserved \cup {t}
    BY <1>0, <2>1 DEF TasksIn, Held, Inside, Unserved, Moved
  <2>3. waiters' \in Seq(BhTasks) /\ Len(waiters') = Len(waiters) + 1
        /\ \A k \in 1..Len(waiters') : waiters'[k] = IF k <= Len(waiters) THEN waiters[k] ELSE t
    BY <1>0, <2>1
  <2>4. IsInjective(waiters')
    BY <1>0, <2>2, <2>3 DEF IsInjective, Range
  <2>5. Range(waiters') = Range(waiters) \cup {t}
    <3>1. DOMAIN waiters' = 1..(Len(waiters) + 1) /\ DOMAIN waiters = 1..Len(waiters)
      BY <1>0, <2>3
    <3>2. \A k \in DOMAIN waiters : k \in DOMAIN waiters' /\ waiters'[k] = waiters[k]
      BY <1>0, <2>3, <3>1
    <3>3. Len(waiters) + 1 \in DOMAIN waiters' /\ waiters'[Len(waiters) + 1] = t
      BY <1>0, <2>3, <3>1
    <3>4. \A k \in DOMAIN waiters' : k \in DOMAIN waiters \/ k = Len(waiters) + 1
      BY <1>0, <3>1, <2>3
    <3> QED BY <3>2, <3>3, <3>4 DEF Range
  <2>6. place' \in [BhTasks -> Places]
    BY <1>0, <2>1 DEF Places
  <2>7. SlotsKept'
    BY <1>0, <2>1, <2>2 DEF SlotsKept
  <2>8. QueuedWait'
    BY <1>0, <2>1, <2>2, <2>3, <2>4, <2>5 DEF QueuedWait
  <2> QED BY <1>0, <2>1, <2>6, <2>7, <2>8 DEF BulkheadInv
<1>3. ASSUME NEW t \in BhTasks, Resume(t) PROVE BulkheadInv'
  <2>1. /\ place[t] = "granted" /\ Leave(t, "inside", free)
        /\ bhWaiting' = bhWaiting - 1 /\ bhActive' = bhActive + 1 /\ patient' = patient
    BY <1>3 DEF Resume
  <2>2. /\ place' \in [BhTasks -> Places] /\ free' \in Nat
        /\ waiters' \in Seq(BhTasks) /\ IsInjective(waiters') /\ Len(waiters') = Len(waiters) - 1
        /\ Range(waiters') = Unserved'
        /\ Inside' = Inside \cup {t}
        /\ free' + Cardinality(Held') = free + Cardinality(Held \cup {t})
    BY <1>0, <2>1, LeaveKeeps DEF Moved
  <2>3. Held \cup {t} = Held /\ t \notin Inside
    BY <2>1 DEF TasksIn, Held, Inside, Unserved, Moved
  <2>4. Cardinality(Inside') = Cardinality(Inside) + 1
    BY <1>00, <2>2, <2>3, OneMore
  <2>5. SlotsKept'
    <3>1. free' + Cardinality(Held') = MaxConcurrent
      BY <1>0, <2>2, <2>3
    <3>2. bhActive' = Cardinality(Inside') /\ bhActive' \in Nat
      BY <1>0, <1>00, <2>1, <2>4
    <3> QED BY <2>2, <3>1, <3>2 DEF SlotsKept
  <2>6. bhWaiting' \in Nat /\ bhWaiting' >= Len(waiters') /\ Len(waiters') \in Nat
    BY <1>0, <2>1, <2>2
  <2> QED BY <1>0, <2>1, <2>2, <2>5, <2>6 DEF BulkheadInv, QueuedWait
<1>4. ASSUME NEW t \in BhTasks, place[t] \in {"waiting", "granted"}, Leave(t, "idle", GivenBack(t)),
             bhWaiting' \in {bhWaiting, bhWaiting - 1}, UNCHANGED <<patient, bhActive>>
      PROVE  BulkheadInv'
  <2>1. GivenBack(t) \in Nat
    BY <1>0 DEF GivenBack
  <2>2. /\ place' \in [BhTasks -> Places] /\ free' \in Nat
        /\ waiters' \in Seq(BhTasks) /\ IsInjective(waiters') /\ Len(waiters') = Len(waiters) - 1
        /\ Range(waiters') = Unserved'
        /\ Inside' = Inside \ {t}
        /\ free' + Cardinality(Held') = GivenBack(t) + Cardinality(Held \ {t})
    BY <1>4, <2>1, LeaveKeeps DEF Moved
  <2>3. Inside \ {t} = Inside
    BY <1>4 DEF TasksIn, Held, Inside, Unserved, Moved
  <2>4. GivenBack(t) + Cardinality(Held \ {t}) = MaxConcurrent
    <3>1. CASE place[t] = "granted"
      <4>1. t \in Held
        BY <3>1 DEF TasksIn, Held, Inside, Unserved, Moved
      <4>2. Cardinality(Held \ {t}) = Cardinality(Held) - 1
        BY <1>00, <4>1, OneLess
      <4> QED BY <1>0, <1>00, <3>1, <4>2 DEF GivenBack
    <3>2. CASE place[t] = "waiting"
      <4>1. Held \ {t} = Held
        BY <3>2 DEF TasksIn, Held, Inside, Unserved, Moved
      <4> QED BY <1>0, <3>2, <4>1 DEF GivenBack
    <3> QED BY <1>4, <3>1, <3>2
  <2>5. SlotsKept'
    BY <1>0, <1>4, <2>2, <2>3, <2>4 DEF SlotsKept
  <2>6. bhWaiting' \in Nat /\ bhWaiting' >= Len(waiters') /\ Len(waiters') \in Nat
    BY <1>0, <1>4, <2>2
  <2> QED BY <1>0, <1>4, <2>2, <2>5, <2>6 DEF BulkheadInv, QueuedWait
<1>5. ASSUME NEW t \in BhTasks, Exit(t) PROVE BulkheadInv'
  <2>1. PICK w : w = Woken(waiters, place, 1)
    OBVIOUS
  <2>2. /\ place[t] = "inside" /\ bhActive' = bhActive - 1 /\ UNCHANGED <<waiters, patient, bhWaiting>>
        /\ place' = [u \in BhTasks |->
                  IF u = t THEN "idle" ELSE IF u \in w THEN "granted" ELSE place[u]]
        /\ free' = free + 1 - Cardinality(w)
    BY <1>5, <2>1 DEF Exit
  <2>3. /\ IsFiniteSet(w) /\ Cardinality(w) \in 0..1
        /\ \A u \in w : u \in Range(waiters) /\ place[u] = "waiting"
    BY <1>0, <2>1, WokenFacts
  <2>4. \A u \in w : u \in BhTasks /\ u # t /\ place[u] = "waiting"
    BY <1>0, <2>2, <2>3 DEF TasksIn, Held, Inside, Unserved, Moved
  <2>5. free + 1 \in Nat /\ Cardinality(w) \in 0..(free + 1)
    BY <1>0, <2>3
  <2>51. Wakes(t, "idle", free + 1, w)
    <3>1. place' = [u \in BhTasks |->
                      IF u = t THEN "idle" ELSE IF u \in w THEN "granted" ELSE place[u]]
      BY <2>2
    <3>2. free' = (free + 1) - Cardinality(w)
      BY <1>0, <2>2, <2>3
    <3>3. IsFiniteSet(w) /\ Cardinality(w) \in 0..(free + 1)
      BY <2>3, <2>5
    <3> QED BY <2>4, <3>1, <3>2, <3>3, Zenon DEF Wakes
  <2>6. /\ place' \in [BhTasks -> Places] /\ free' \in Nat
        /\ Unserved' = Unserved \ {t}
        /\ Inside' = Inside \ {t}
        /\ free' + Cardinality(Held') = free + 1 + Cardinality(Held \ {t})
    BY <2>5, <2>51, Waking DEF Moved
  <2>7. t \in Held /\ t \in Inside /\ t \notin Unserved
    BY <2>2 DEF TasksIn, Held, Inside, Unserved, Moved
  <2>8. Cardinality(Held \ {t}) = Cardinality(Held) - 1 /\ Cardinality(Inside') = Cardinality(Inside) - 1
        /\ Cardinality(Inside') \in Nat
    <3>1. IsFiniteSet(Inside') /\ IsFiniteSet(Inside \ {t})
      BY <1>00, <2>6, <2>7, OneLess
    <3>2. Cardinality(Held \ {t}) = Cardinality(Held) - 1
      BY <1>00, <2>7, OneLess
    <3>3. Cardinality(Inside') = Cardinality(Inside) - 1
      BY <1>00, <2>6, <2>7, OneLess
    <3> QED BY <3>1, <3>2, <3>3, FS_CardinalityType
  <2>9. SlotsKept'
    <3>1. bhActive' = Cardinality(Inside') /\ bhActive' \in Nat
      BY <1>0, <1>00, <2>2, <2>8
    <3>2. free' \in Nat /\ free' + Cardinality(Held') = MaxConcurrent
      BY <1>0, <1>00, <2>6, <2>8
    <3> QED BY <3>1, <3>2 DEF SlotsKept
  <2>10. QueuedWait'
    BY <1>0, <2>2, <2>6, <2>7 DEF QueuedWait
  <2> QED BY <1>0, <2>2, <2>6, <2>9, <2>10 DEF BulkheadInv
<1>6. CASE UNCHANGED bhvars
  BY <1>6 DEF bhvars, BulkheadInv, SlotsKept, QueuedWait, TasksIn, Held, Inside, Unserved
<1>7. ASSUME NEW t \in BhTasks, WaitTimeout(t) \/ WaitCancelled(t) PROVE BulkheadInv'
  BY <1>4, <1>7 DEF WaitTimeout, WaitCancelled
<1> QED BY <1>1, <1>2, <1>3, <1>5, <1>6, <1>7 DEF BhNext

\* The slots and the count of waiting tasks of the bulkhead follow.
LEMMA BulkheadSound == BulkheadInv => BhTypeOK /\ SlotsConserved /\ WaitersCounted
<1> SUFFICES ASSUME BulkheadInv PROVE BhTypeOK /\ SlotsConserved /\ WaitersCounted
  OBVIOUS
<1>1. Cardinality(Held) \in Nat
  BY TasksFinite
<1> QED BY <1>1, BulkheadAssumption
         DEF BulkheadInv, SlotsKept, QueuedWait, BhTypeOK, SlotsConserved, WaitersCounted,
             Held, Inside

-----------------------------------------------------------------------------
(* The request queue: the entries of its heap, and who awaits them.        *)

LEMMA LeastOf ==
    ASSUME NEW T, T \subseteq Nat, T # {}
    PROVE  \E i \in T : \A k \in T : i <= k
<1>1. PICK i \in T : \A k \in T : ~(<<k, i>> \in OpToRel(<, Nat))
  BY WFMin, NatLessThanWellFounded
<1>2. \A k \in T : k < i => <<k, i>> \in OpToRel(<, Nat)
  BY DEF OpToRel
<1>3. \A k \in T : ~(k < i)
  BY <1>1, <1>2
<1> QED BY <1>3

-----------------------------------------------------------------------------
\* x stands before y in the sequence s.
Precedes(s, x, y) == \E k, m \in DOMAIN s : k < m /\ s[k] = x /\ s[m] = y

\* Of two sequences that share nothing, all of the first stands before the second.
LEMMA Joined ==
    ASSUME NEW S, NEW a \in Seq(S), NEW b \in Seq(S)
    PROVE  /\ a \o b \in Seq(S)
           /\ Range(a \o b) = Range(a) \cup Range(b)
           /\ \A x, y : Precedes(a \o b, x, y) <=>
                 \/ Precedes(a, x, y) \/ Precedes(b, x, y)
                 \/ x \in Range(a) /\ y \in Range(b)
           /\ IsInjective(a \o b) <=>
                 IsInjective(a) /\ IsInjective(b) /\ Range(a) \cap Range(b) = {}
<1>1. PICK c : c = a \o b
  OBVIOUS
<1>2. PICK l \in Nat, n \in Nat : l = Len(a) /\ n = Len(b)
  OBVIOUS
<1>3. c \in Seq(S) /\ Len(c) = l + n
      /\ \A k \in 1..(l + n) : c[k] = IF k <= l THEN a[k] ELSE b[k - l]
  BY <1>1, <1>2, ConcatProperties
<1>4. /\ DOMAIN a = 1..l /\ DOMAIN b = 1..n /\ DOMAIN c = 1..(l + n)
      /\ \A k \in 1..l : k \in 1..(l + n) /\ c[k] = a[k]
      /\ \A k \in 1..n : k + l \in 1..(l + n) /\ c[k + l] = b[k]
  <2>1. DOMAIN a = 1..l /\ DOMAIN b = 1..n /\ DOMAIN c = 1..(l + n)
    BY <1>2, <1>3
  <2>2. \A k \in 1..l : k \in 1..(l + n) /\ c[k] = a[k]
    BY <1>3
  <2>3. ASSUME NEW k \in 1..n PROVE k + l \in 1..(l + n) /\ c[k + l] = b[k]
    <3>1. k + l \in 1..(l + n) /\ ~(k + l <= l) /\ (k + l) - l = k
      OBVIOUS
    <3>2. c[k + l] = b[(k + l) - l]
      BY <1>3, <3>1
    <3> QED BY <3>1, <3>2
  <2> QED BY <2>1, <2>2, <2>3
<1>5. \A k \in 1..(l + n) : k \in 1..l \/ (k > l /\ k - l \in 1..n /\ c[k] = b[k - l])
  BY <1>3
<1>6. Range(c) = Range(a) \cup Range(b)
  <2>1. Range(c) \subseteq Range(a) \cup Range(b)
    BY <1>4, <1>5 DEF Range
  <2>2. Range(a) \subseteq Range(c) /\ Range(b) \subseteq Range(c)
    BY <1>4 DEF Range
  <2> QED BY <2>1, <2>2
<1>7. ASSUME NEW x, NEW y, Precedes(c, x, y)
      PROVE  Precedes(a, x, y) \/ Precedes(b, x, y) \/ (x \in Range(a) /\ y \in Range(b))
  <2>1. PICK k \in 1..(l + n), m \in 1..(l + n) : k < m /\ c[k] = x /\ c[m] = y
    BY <1>4, <1>7 DEF Precedes
  <2>2. CASE m \in 1..l
    <3>1. k \in 1..l
      BY <2>1, <2>2
    <3> QED BY <1>4, <2>1, <2>2, <3>1 DEF Precedes
  <2>3. CASE m \notin 1..l
    <3>1. m - l \in 1..n /\ b[m - l] = y
      BY <1>5, <2>1, <2>3
    <3>2. CASE k \in 1..l
      BY <1>4, <2>1, <3>1, <3>2 DEF Range
    <3>3. CASE k \notin 1..l
      <4>1. k - l \in 1..n /\ b[k - l] = x /\ k - l < m - l
        BY <1>5, <2>1, <3>3
      <4> QED BY <1>4, <3>1, <4>1 DEF Precedes
    <3> QED BY <3>2, <3>3
  <2> QED BY <2>2, <2>3
<1>8. ASSUME NEW x, NEW y, Precedes(a, x, y) \/ Precedes(b, x, y) \/ (x \in Range(a) /\ y \in Range(b))
      PROVE  Precedes(c, x, y)
  <2>1. CASE Precedes(a, x, y)
    BY <1>4, <2>1 DEF Precedes
  <2>2. CASE Precedes(b, x, y)
    <3>1. PICK k \in 1..n, m \in 1..n : k < m /\ b[k] = x /\ b[m] = y
      BY <1>4, <2>2 DEF Precedes
    <3>2. k + l < m + l
      BY <3>1
    <3> QED BY <1>4, <3>1, <3>2 DEF Precedes
  <2>3. CASE x \in Range(a) /\ y \in Range(b)
    <3>1. PICK k \in 1..l, m \in 1..n : a[k] = x /\ b[m] = y
      BY <1>4, <2>3 DEF Range
    <3>2. k < m + l
      BY <3>1
    <3> QED BY <1>4, <3>1, <3>2 DEF Precedes
  <2> QED BY <1>8, <2>1, <2>2, <2>3
<1>9. ASSUME IsInjective(c) PROVE IsInjective(a) /\ IsInjective(b) /\ Range(a) \cap Range(b) = {}
  <2>1. \A k, m \in 1..(l + n) : c[k] = c[m] => k = m
    BY <1>4, <1>9 DEF IsInjective
  <2>2. IsInjective(a)
    BY <1>4, <2>1 DEF IsInjective
  <2>3. IsInjective(b)
    <3>1. ASSUME NEW k \in 1..n, NEW m \in 1..n, b[k] = b[m] PROVE k = m
      <4>1. k + l = m + l
        BY <1>4, <2>1, <3>1
      <4> QED BY <4>1
    <3> QED BY <1>4, <3>1 DEF IsInjective
  <2>4. ASSUME NEW k \in 1..l, NEW m \in 1..n, a[k] = b[m] PROVE FALSE
    <3>1. k = m + l
      BY <1>4, <2>1, <2>4
    <3> QED BY <3>1
  <2> QED BY <1>4, <2>2, <2>3, <2>4 DEF Range
<1>10. ASSUME IsInjective(a), IsInjective(b), Range(a) \cap Range(b) = {} PROVE IsInjective(c)
  <2>1. /\ \A k, m \in 1..l : a[k] = a[m] => k = m
        /\ \A k, m \in 1..n : b[k] = b[m] => k = m
        /\ \A k \in 1..l, m \in 1..n : a[k] # b[m]
    <3>1. \A k, m \in 1..l : a[k] = a[m] => k = m
      BY <1>4, <1>10 DEF IsInjective
    <3>2. \A k, m \in 1..n : b[k] = b[m] => k = m
      BY <1>4, <1>10 DEF IsInjective
    <3>3. \A k \in 1..l : a[k] \in Range(a)
      BY <1>4 DEF Range
    <3>4. \A m \in 1..n : b[m] \in Range(b)
      BY <1>4 DEF Range
    <3> QED BY <1>10, <3>1, <3>2, <3>3, <3>4
  <2>2. ASSUME NEW k \in 1..(l + n), NEW m \in 1..(l + n), c[k] = c[m] PROVE k = m
    <3>1. CASE k \in 1..l /\ m \in 1..l
      BY <1>4, <2>1, <2>2, <3>1
    <3>2. CASE k \in 1..l /\ m \notin 1..l
      BY <1>4, <1>5, <2>1, <2>2, <3>2
    <3>3. CASE k \notin 1..l /\ m \in 1..l
      BY <1>4, <1>5, <2>1, <2>2, <3>3
    <3>4. CASE k \notin 1..l /\ m \notin 1..l
      <4>1. k - l \in 1..n /\ m - l \in 1..n /\ c[k] = b[k - l] /\ c[m] = b[m - l]
        BY <1>5, <3>4
      <4>2. k - l = m - l
        BY <2>1, <2>2, <4>1
      <4> QED BY <4>2
    <3> QED BY <3>1, <3>2, <3>3, <3>4
  <2> QED BY <1>4, <2>2 DEF IsInjective
<1> QED BY <1>1, <1>3, <1>6, <1>7, <1>8, <1>9, <1>10

LEMMA OneEntry ==
    ASSUME NEW S, NEW x \in S
    PROVE  /\ <<x>> \in Seq(S) /\ Range(<<x>>) = {x} /\ IsInjective(<<x>>) /\ Len(<<x>>) = 1
           /\ \A y, z : ~Precedes(<<x>>, y, z)
<1>1. <<x>> \in Seq(S) /\ Len(<<x>>) = 1 /\ <<x>>[1] = x /\ DOMAIN <<x>> = 1..1
  OBVIOUS
<1>2. PICK s : s = <<x>>
  OBVIOUS
<1>3. Len(s) = 1 /\ s[1] = x /\ DOMAIN s = {1}
  BY <1>1, <1>2
<1>4. Range(s) = {x} /\ IsInjective(s)
  BY <1>3 DEF Range, IsInjective
<1>5. \A y, z : ~Precedes(s, y, z)
  BY <1>3 DEF Precedes
<1> QED BY <1>1, <1>2, <1>4, <1>5

LEMMA Appended ==
    ASSUME NEW S, NEW s \in Seq(S), NEW x \in S
    PROVE  /\ Append(s, x) \in Seq(S) /\ Len(Append(s, x)) = Len(s) + 1
           /\ Range(Append(s, x)) = Range(s) \cup {x}
           /\ \A y, z : Precedes(Append(s, x), y, z) <=>
                           Precedes(s, y, z) \/ (y \in Range(s) /\ z = x)
           /\ IsInjective(Append(s, x)) <=> IsInjective(s) /\ x \notin Range(s)
<1>1. Append(s, x) = s \o <<x>>
  BY AppendIsConcat
<1>2. PICK o : o = <<x>>
  OBVIOUS
<1>3. o \in Seq(S) /\ Range(o) = {x} /\ IsInjective(o) /\ \A y, z : ~Precedes(o, y, z)
  BY <1>2, OneEntry
<1>4. PICK t : t = s \o o
  OBVIOUS
<1>5. /\ Range(t) = Range(s) \cup Range(o)
      /\ \A y, z : Precedes(t, y, z) <=>
            Precedes(s, y, z) \/ Precedes(o, y, z) \/ (y \in Range(s) /\ z \in Range(o))
      /\ IsInjective(t) <=> IsInjective(s) /\ IsInjective(o) /\ Range(s) \cap Range(o) = {}
  BY <1>3, <1>4, Joined
<1>6. Append(s, x) = t /\ Append(s, x) \in Seq(S) /\ Len(Append(s, x)) = Len(s) + 1
  BY <1>1, <1>2, <1>4, AppendProperties
<1> QED BY <1>3, <1>5, <1>6

-----------------------------------------------------------------------------
\* What drain() adds to its results with the n-th entry.
Step(f, n) ==
    IF n = 0 THEN <<>>
    ELSE IF live(depth[n]) THEN Append(f[n - 1], depth[n])
    ELSE f[n - 1]

\* The recursion defines a function: there is one for every part of the queue.
LEMMA ResultsDefined ==
    ASSUME Len(depth) \in Nat
    PROVE  \A n \in 0..Len(depth) : results[n] = Step(results, n)
<1> DEFINE Upto(m) == \E f : f = [n \in 0..m |-> Step(f, n)]
           Bad == {m \in 0..Len(depth) : ~Upto(m)}
<1>1. \A m \in 0..Len(depth) : Upto(m)
  <2> SUFFICES ASSUME Bad # {} PROVE FALSE
    OBVIOUS
  <2>1. PICK m \in Bad : \A k \in Bad : m <= k
    <3>1. Bad \subseteq Nat
      OBVIOUS
    <3> HIDE DEF Bad
    <3> QED BY <3>1, LeastOf
  <2>2. m # 0
    <3>1. PICK f : f = [n \in 0..0 |-> <<>>]
      OBVIOUS
    <3>2. f = [n \in 0..0 |-> Step(f, n)]
      BY <3>1 DEF Step
    <3> QED BY <2>1, <3>2
  <2>3. m - 1 \in 0..Len(depth) /\ m \in 1..Len(depth) /\ m - 1 \notin Bad
    BY <2>1, <2>2
  <2>4. PICK f : f = [n \in 0..(m - 1) |-> Step(f, n)]
    BY <2>3
  <2>5. PICK g : g = [n \in 0..m |-> IF n = m THEN Step(f, m) ELSE f[n]]
    OBVIOUS
  <2>6. \A n \in 0..(m - 1) : g[n] = f[n]
    BY <2>3, <2>5
  <2>7. ASSUME NEW n \in 0..m PROVE g[n] = Step(g, n)
    <3>1. Step(f, n) = Step(g, n)
      <4>1. CASE n = 0
        BY <4>1 DEF Step
      <4>2. CASE n # 0
        <5>1. f[n - 1] = g[n - 1]
          BY <2>3, <2>6, <4>2
        <5> QED BY <5>1 DEF Step
      <4> QED BY <4>1, <4>2
    <3>2. g[n] = Step(f, n)
      <4>1. CASE n = m
        BY <2>5, <4>1
      <4>2. CASE n # m
        <5>1. n \in 0..(m - 1)
          BY <2>3, <4>2
        <5>2. f[n] = Step(f, n)
          BY <2>4, <5>1
        <5> QED BY <2>6, <5>1, <5>2
      <4> QED BY <4>1, <4>2
    <3> QED BY <3>1, <3>2
  <2>8. g = [n \in 0..m |-> Step(g, n)]
    <3>1. g = [n \in 0..m |-> g[n]]
      BY <2>5
    <3> QED BY <2>7, <3>1
  <2> QED BY <2>1, <2>8
<1>2. PICK f : f = [n \in 0..Len(depth) |-> Step(f, n)]
  BY <1>1
<1>3. results = [n \in 0..Len(depth) |-> Step(results, n)]
  BY <1>2 DEF results, Step
<1> HIDE DEF results
<1> QED BY <1>3

\* r is what drain() returns of the entries it has taken off: those that are
\* live, in their order.
Returned(off, r) ==
    /\ r \in Seq(Queued) /\ IsInjective(r)
    /\ Range(r) = {q \in Range(off) : live(q)}
    /\ \A x, y : Precedes(r, x, y) => Precedes(off, x, y)

LEMMA ResultsReturned ==
    ASSUME depth \in Seq(Queued), IsInjective(depth)
    PROVE  \A n \in 0..Len(depth) : Returned(SubSeq(depth, 1, n), results[n])
<1> DEFINE off(n) == SubSeq(depth, 1, n)
           Bad == {n \in 0..Len(depth) : ~Returned(off(n), results[n])}
<1>0. Len(depth) \in Nat /\ DOMAIN depth = 1..Len(depth)
  OBVIOUS
<1> SUFFICES ASSUME Bad # {} PROVE FALSE
  OBVIOUS
<1>1. PICK n \in Bad : \A k \in Bad : n <= k
  <2>1. Bad \subseteq Nat
    OBVIOUS
  <2> HIDE DEF Bad
  <2> QED BY <2>1, LeastOf
<1>2. CASE n = 0
  <2>1. results[0] = <<>> /\ off(0) = <<>>
    BY <1>0, ResultsDefined, SubSeqEmpty DEF Step
  <2>2. Returned(<<>>, <<>>)
    BY DEF Returned, IsInjective, Range, Precedes
  <2> QED BY <1>1, <1>2, <2>1, <2>2
<1>3. CASE n # 0
  <2>1. n \in 1..Len(depth) /\ n - 1 \in 0..Len(depth) /\ n - 1 \in Nat /\ n - 1 < n
    BY <1>0, <1>1, <1>3
  <2>2. PICK a, r, q : a = off(n - 1) /\ r = results[n - 1] /\ q = depth[n]
    OBVIOUS
  <2>3. Returned(a, r)
    BY <1>1, <2>1, <2>2
  <2>4. q \in Queued /\ a \in Seq(Queued)
    BY <2>1, <2>2, SubSeqProperties
  <2>5. off(n) = Append(a, q)
    BY <1>0, <2>1, <2>2, SubSeqRecursiveSecond
  <2>6. IsInjective(Append(a, q))
    <3>1. /\ off(n) \in Seq(Queued) /\ Len(off(n)) = n
          /\ \A k \in 1..n : off(n)[k] = depth[k]
      BY <1>0, <2>1, SubSeqProperties
    <3>2. \A k \in 1..n : k \in 1..Len(depth)
      BY <1>0, <2>1
    <3>3. \A k, m \in 1..n : off(n)[k] = off(n)[m] => k = m
      BY <3>1, <3>2, <1>0 DEF IsInjective
    <3>4. DOMAIN off(n) = 1..n
      BY <3>1
    <3> QED BY <2>5, <3>3, <3>4 DEF IsInjective
  <2>7. /\ q \notin Range(a) /\ Range(Append(a, q)) = Range(a) \cup {q}
        /\ \A y, z : Precedes(Append(a, q), y, z) <=> Precedes(a, y, z) \/ (y \in Range(a) /\ z = q)
    BY <2>4, <2>6, Appended
  <2>8. results[n] = IF live(q) THEN Append(r, q) ELSE r
    BY <1>0, <1>3, <2>1, <2>2, ResultsDefined DEF Step
  <2> HIDE DEF off, Bad
  <2>9. CASE live(q)
    <3>1. r \in Seq(Queued) /\ Range(r) \subseteq Range(a) /\ IsInjective(r)
      BY <2>3 DEF Returned
    <3>2. /\ Append(r, q) \in Seq(Queued) /\ IsInjective(Append(r, q))
          /\ Range(Append(r, q)) = Range(r) \cup {q}
          /\ \A y, z : Precedes(Append(r, q), y, z) <=> Precedes(r, y, z) \/ (y \in Range(r) /\ z = q)
      BY <2>4, <2>7, <3>1, Appended
    <3>3. Returned(Append(a, q), Append(r, q))
      BY <2>3, <2>7, <2>9, <3>1, <3>2 DEF Returned
    <3>4. Returned(off(n), results[n])
      BY <2>5, <2>8, <2>9, <3>3
    <3> QED BY <1>1, <3>4 DEF Bad
  <2>10. CASE ~live(q)
    <3>1. Returned(Append(a, q), r)
      BY <2>3, <2>7, <2>10 DEF Returned
    <3>2. Returned(off(n), results[n])
      BY <2>5, <2>8, <2>10, <3>1
    <3> QED BY <1>1, <3>2 DEF Bad
  <2> QED BY <2>9, <2>10
<1> QED BY <1>2, <1>3

\* How far drain() looks: to where it has a full batch, or to the end.
LEMMA LookedFacts ==
    ASSUME depth \in Seq(Queued), NEW limit
    PROVE  /\ Looked(limit) \in 0..Len(depth)
           /\ Looked(limit) = Len(depth) \/ Len(results[Looked(limit)]) = limit
<1> DEFINE T == {Len(depth)} \cup {n \in 0..Len(depth) : Len(results[n]) = limit}
<1>1. T \subseteq Nat /\ T # {} /\ T \subseteq 0..Len(depth)
  OBVIOUS
<1>2. \E i \in T : \A k \in T : i <= k
  <2> HIDE DEF T
  <2> QED BY <1>1, LeastOf
<1>3. Looked(limit) \in T
  BY <1>2 DEF Looked, Min
<1> QED BY <1>1, <1>3

-----------------------------------------------------------------------------
\* Of the requests offered, in their order, the ones in e have been drained or
\* are queued; the others have expired or were dropped.
InOrder(t, e, x, d) ==
    /\ t \in Seq(Queued) /\ IsInjective(t)
    /\ e \in Seq(Queued) /\ IsInjective(e)
    /\ \A y, z : Precedes(e, y, z) => Precedes(t, y, z)
    /\ Range(t) = Range(e) \cup x \cup d
    /\ Range(e) \cap (x \cup d) = {} /\ x \cap d = {}

QueueInv ==
    /\ depth \in Seq(Queued) /\ drained \in Seq(Queued) /\ stale \subseteq Queued
    /\ InOrder(taken, drained \o depth, expired, dropped)

LEMMA QueueStart == RqInit => QueueInv
<1> SUFFICES ASSUME RqInit PROVE QueueInv
  OBVIOUS
<1>1. PICK s : s = <<>>
  OBVIOUS
<1>2. s \in Seq(Queued) /\ Range(s) = {} /\ IsInjective(s) /\ s \o s = s
      /\ \A y, z : ~Precedes(s, y, z)
  BY <1>1 DEF Range, IsInjective, Precedes
<1>3. taken = s /\ depth = s /\ drained = s /\ stale = {} /\ expired = {} /\ dropped = {}
  BY <1>1 DEF RqInit
<1> QED BY <1>2, <1>3 DEF QueueInv, InOrder

LEMMA QueueSplits ==
    ASSUME QueueInv
    PROVE  /\ IsInjective(drained) /\ IsInjective(depth) /\ Range(drained) \cap Range(depth) = {}
           /\ Range(drained \o depth) = Range(drained) \cup Range(depth)
  BY Joined DEF QueueInv, InOrder

LEMMA EnqueueKeeps ==
    ASSUME QueueInv, NEW q \in Queued, Enqueue(q)
    PROVE  QueueInv'
<1>1. /\ q \notin Range(taken) /\ taken' = Append(taken, q)
      /\ UNCHANGED <<stale, drained, expired>>
  BY DEF Enqueue
<1>2. PICK t, e : t = taken /\ e = drained \o depth
  OBVIOUS
<1>3. InOrder(t, e, expired, dropped) /\ q \notin Range(t)
  BY <1>1, <1>2 DEF QueueInv
<1>4. /\ Append(t, q) \in Seq(Queued) /\ IsInjective(Append(t, q))
      /\ Range(Append(t, q)) = Range(t) \cup {q}
      /\ \A y, z : Precedes(Append(t, q), y, z) <=> Precedes(t, y, z) \/ (y \in Range(t) /\ z = q)
  BY <1>3, Appended DEF InOrder
<1>5. CASE depth' = Append(depth, q) /\ UNCHANGED dropped
  <2>1. depth' \in Seq(Queued) /\ drained' \in Seq(Queued)
    BY <1>1, <1>5 DEF QueueInv
  <2>2. drained' \o depth' = Append(e, q)
    <3>0. <<q>> \in Seq(Queued)
      BY OneEntry
    <3>1. PICK o : o = <<q>> /\ o \in Seq(Queued)
      BY <3>0
    <3>2. Append(depth, q) = depth \o o /\ Append(e, q) = e \o o
      BY <1>3, <3>1, AppendIsConcat DEF QueueInv, InOrder
    <3>3. drained \o (depth \o o) = (drained \o depth) \o o
      BY <3>1, ConcatAssociative DEF QueueInv
    <3> QED BY <1>1, <1>2, <1>5, <3>2, <3>3
  <2>3. /\ Append(e, q) \in Seq(Queued) /\ Range(Append(e, q)) = Range(e) \cup {q}
        /\ \A y, z : Precedes(Append(e, q), y, z) <=> Precedes(e, y, z) \/ (y \in Range(e) /\ z = q)
        /\ IsInjective(Append(e, q)) <=> IsInjective(e) /\ q \notin Range(e)
    BY <1>3, Appended DEF InOrder
  <2>4. InOrder(Append(t, q), Append(e, q), expired, dropped)
    BY <1>3, <1>4, <2>3 DEF InOrder
  <2>5. InOrder(taken, drained \o depth, expired, dropped)'
    BY <1>1, <1>2, <1>5, <2>2, <2>4
  <2> QED BY <1>1, <2>1, <2>5 DEF QueueInv
<1>6. CASE dropped' = dropped \cup {q} /\ UNCHANGED depth
  <2>1. InOrder(Append(t, q), e, expired, dropped \cup {q})
    BY <1>3, <1>4 DEF InOrder
  <2>2. InOrder(taken, drained \o depth, expired, dropped)'
    BY <1>1, <1>2, <1>6, <2>1
  <2> QED BY <1>1, <1>6, <2>2 DEF QueueInv
<1> QED BY <1>5, <1>6 DEF Enqueue

LEMMA DrainKeeps ==
    ASSUME QueueInv, NEW limit, Drain(limit)
    PROVE  QueueInv'
<1>1. PICK l, off, rest, r : /\ l = Looked(limit) /\ off = SubSeq(depth, 1, l)
                             /\ rest = SubSeq(depth, l + 1, Len(depth)) /\ r = results[l]
  OBVIOUS
<1>2. /\ depth' = rest /\ drained' = drained \o r /\ expired' = expired \cup (Range(off) \cap stale)
      /\ UNCHANGED <<stale, taken, dropped>>
  BY <1>1 DEF Drain
<1>3. depth \in Seq(Queued) /\ drained \in Seq(Queued) /\ IsInjective(depth) /\ IsInjective(drained)
      /\ Range(drained) \cap Range(depth) = {} /\ Range(drained \o depth) = Range(drained) \cup Range(depth)
  BY QueueSplits DEF QueueInv
<1>4. l \in 0..Len(depth) /\ Returned(off, r)
  BY <1>1, <1>3, LookedFacts, ResultsReturned
<1>5. off \in Seq(Queued) /\ rest \in Seq(Queued) /\ off \o rest = depth
  <2>1. Len(depth) \in Nat /\ l \in Nat /\ \A i \in 1..Len(depth) : depth[i] \in Queued
    BY <1>3, <1>4
  <2>2. off \in Seq(Queued) /\ rest \in Seq(Queued)
    BY <1>1, <1>4, <2>1, SubSeqProperties
  <2>3. off \o rest = SubSeq(depth, 1, Len(depth))
    <3>1. 1 \in 1..(Len(depth) + 1) /\ l \in (1 - 1)..Len(depth) /\ Len(depth) \in l..Len(depth)
      BY <1>4, <2>1
    <3> QED BY <1>1, <1>3, <3>1, ConcatAdjacentSubSeq
  <2> QED BY <1>3, <2>2, <2>3, SubSeqFull
<1>6. /\ Range(depth) = Range(off) \cup Range(rest)
      /\ \A x, y : Precedes(depth, x, y) <=>
              (Precedes(off, x, y) \/ Precedes(rest, x, y) \/ (x \in Range(off) /\ y \in Range(rest)))
      /\ IsInjective(off) /\ IsInjective(rest) /\ Range(off) \cap Range(rest) = {}
  BY <1>3, <1>5, Joined
<1>7. /\ r \in Seq(Queued) /\ IsInjective(r) /\ Range(r) = {q \in Range(off) : live(q)}
      /\ \A x, y : Precedes(r, x, y) => Precedes(off, x, y)
  BY <1>4 DEF Returned
<1>8. Range(r) \subseteq Range(off) /\ Range(off) \ Range(r) = Range(off) \cap stale
      /\ Range(r) \cap stale = {}
  BY <1>7 DEF live
<1>9. PICK d, e, e1, dr : d = depth /\ e = drained \o depth /\ dr = drained \o r /\ e1 = dr \o rest
  OBVIOUS
<1>10. /\ dr \in Seq(Queued) /\ Range(dr) = Range(drained) \cup Range(r) /\ IsInjective(dr)
       /\ \A x, y : Precedes(dr, x, y) <=>
              (Precedes(drained, x, y) \/ Precedes(r, x, y) \/ (x \in Range(drained) /\ y \in Range(r)))
  <2>1. Range(drained) \cap Range(r) = {}
    BY <1>3, <1>6, <1>8
  <2> QED BY <1>3, <1>7, <1>9, <2>1, Joined
<1>11. /\ e1 \in Seq(Queued) /\ Range(e1) = Range(dr) \cup Range(rest) /\ IsInjective(e1)
       /\ \A x, y : Precedes(e1, x, y) <=>
              (Precedes(dr, x, y) \/ Precedes(rest, x, y) \/ (x \in Range(dr) /\ y \in Range(rest)))
  <2>1. Range(dr) \cap Range(rest) = {}
    BY <1>3, <1>6, <1>8, <1>10
  <2>2. dr \in Seq(Queued) /\ rest \in Seq(Queued) /\ e1 = dr \o rest
    BY <1>5, <1>9, <1>10
  <2>3. e1 \in Seq(Queued) /\ Range(e1) = Range(dr) \cup Range(rest)
    BY <2>2, Joined
  <2>4. \A x, y : Precedes(e1, x, y) <=>
              (Precedes(dr, x, y) \/ Precedes(rest, x, y) \/ (x \in Range(dr) /\ y \in Range(rest)))
    BY <2>2, Joined
  <2>5. IsInjective(e1)
    BY <1>6, <1>10, <2>1, <2>2, Joined
  <2> QED BY <2>3, <2>4, <2>5
<1>12. \A x, y : Precedes(e, x, y) <=>
              (Precedes(drained, x, y) \/ Precedes(depth, x, y) \/ (x \in Range(drained) /\ y \in Range(depth)))
  BY <1>3, <1>9, Joined
<1>13. ASSUME NEW x, NEW y, Precedes(e1, x, y) PROVE Precedes(e, x, y)
  BY <1>6, <1>7, <1>8, <1>10, <1>11, <1>12, <1>13
<1>14. InOrder(taken, e, expired, dropped) /\ Range(e) = Range(drained) \cup Range(depth)
  BY <1>3, <1>9 DEF QueueInv
<1>15. Range(e1) = Range(e) \ (Range(off) \cap stale) /\ Range(off) \subseteq Range(e)
  BY <1>3, <1>6, <1>8, <1>10, <1>11, <1>14
<1>16. InOrder(taken, e1, expired \cup (Range(off) \cap stale), dropped)
  BY <1>11, <1>13, <1>14, <1>15 DEF InOrder
<1>17. InOrder(taken, drained \o depth, expired, dropped)'
  BY <1>2, <1>9, <1>16
<1> QED BY <1>2, <1>5, <1>9, <1>10, <1>17 DEF QueueInv

LEMMA ClearKeeps ==
    ASSUME QueueInv, Clear
    PROVE  QueueInv'
<1>1. depth' = <<>> /\ dropped' = dropped \cup Range(depth) /\ UNCHANGED <<stale, taken, drained, expired>>
  BY DEF Clear
<1>2. PICK e : e = drained \o depth
  OBVIOUS
<1>3. /\ InOrder(taken, e, expired, dropped) /\ Range(e) = Range(drained) \cup Range(depth)
      /\ IsInjective(drained) /\ Range(drained) \cap Range(depth) = {} /\ drained \in Seq(Queued)
      /\ \A x, y : Precedes(e, x, y) <=>
              (Precedes(drained, x, y) \/ Precedes(depth, x, y) \/ (x \in Range(drained) /\ y \in Range(depth)))
  BY <1>2, QueueSplits, Joined DEF QueueInv
<1>4. InOrder(taken, drained, expired, dropped \cup Range(depth))
  BY <1>3 DEF InOrder
<1>5. drained' \o depth' = drained
  BY <1>1, <1>3, ConcatEmptySeq
<1>6. InOrder(taken, drained \o depth, expired, dropped)'
  BY <1>1, <1>4, <1>5
<1> QED BY <1>1, <1>3, <1>6 DEF QueueInv

LEMMA QueueStep == QueueInv /\ [RqNext]_rqvars => QueueInv'
<1> SUFFICES ASSUME QueueInv, [RqNext]_rqvars PROVE QueueInv'
  OBVIOUS
<1>1. ASSUME NEW q \in Queued, Enqueue(q) PROVE QueueInv'
  BY <1>1, EnqueueKeeps
<1>2. ASSUME NEW q \in Queued, Age(q) PROVE QueueInv'
  BY <1>2 DEF Age, QueueInv
<1>3. CASE DrainBatch
  BY <1>3, DrainKeeps DEF DrainBatch
<1>4. CASE DrainAll
  BY <1>4, DrainKeeps DEF DrainAll
<1>5. CASE Clear
  BY <1>5, ClearKeeps
<1>6. CASE UNCHANGED rqvars
  BY <1>6 DEF rqvars, QueueInv
<1> QED BY <1>1, <1>2, <1>3, <1>4, <1>5, <1>6 DEF RqNext

LEMMA QueueSound == QueueInv => RequestsInOrder /\ RqTypeOK
<1> SUFFICES ASSUME QueueInv PROVE RequestsInOrder /\ RqTypeOK
  OBVIOUS
<1>1. PICK e : e = drained \o depth
  OBVIOUS
<1>2. InOrder(taken, e, expired, dropped)
  BY <1>1 DEF QueueInv
<1>3. ASSUME NEW i \in DOMAIN e, NEW j \in DOMAIN e, i < j
      PROVE  \E k, m \in DOMAIN taken : k < m /\ taken[k] = e[i] /\ taken[m] = e[j]
  <2>1. Precedes(e, e[i], e[j])
    BY <1>3 DEF Precedes
  <2> QED BY <1>2, <2>1 DEF InOrder, Precedes
<1>4. RequestsInOrder
  <2>1. IsInjective(taken) /\ IsInjective(e)
    BY <1>2 DEF InOrder
  <2>2. /\ Range(taken) = Range(e) \cup expired \cup dropped
        /\ Range(e) \cap (expired \cup dropped) = {} /\ expired \cap dropped = {}
    BY <1>2 DEF InOrder
  <2> QED BY <1>1, <1>3, <2>1, <2>2 DEF RequestsInOrder
<1>5. Range(taken) \subseteq Queued
  BY <1>2 DEF InOrder, Range
<1>6. expired \subseteq Queued /\ dropped \subseteq Queued
  BY <1>2, <1>5 DEF InOrder
<1> QED BY <1>2, <1>4, <1>6 DEF InOrder, QueueInv, RqTypeOK

LEMMA BatchIsFull ==
    ASSUME QueueInv, DrainBatch
    PROVE  Len(drained') = Len(drained) + BatchSize \/ depth' = <<>>
<1>1. PICK l, r : l = Looked(BatchSize) /\ r = results[l]
  OBVIOUS
<1>2. depth' = SubSeq(depth, l + 1, Len(depth)) /\ drained' = drained \o r
  BY <1>1 DEF DrainBatch, Drain
<1>3. depth \in Seq(Queued) /\ IsInjective(depth) /\ drained \in Seq(Queued)
  BY QueueSplits DEF QueueInv
<1>4. l \in 0..Len(depth) /\ (l = Len(depth) \/ Len(r) = BatchSize)
  BY <1>1, <1>3, LookedFacts
<1>5. r \in Seq(Queued)
  BY <1>1, <1>3, <1>4, ResultsReturned DEF Returned
<1>6. CASE l = Len(depth)
  BY <1>2, <1>3, <1>6, SubSeqEmpty
<1>7. CASE Len(r) = BatchSize
  BY <1>2, <1>3, <1>5, <1>7, ConcatProperties
<1> QED BY <1>4, <1>6, <1>7

-----------------------------------------------------------------------------
(* The reload of the router under the requests it is serving.              *)

\* Every client belongs to the router that holds it, routers are closed in the
\* order in which they were replaced, and those to come have done nothing yet.
Owned ==
    /\ rr_current \in Routers
    /\ rr_opened \in Seq([router : Routers, open : BOOLEAN])
    /\ \A c \in DOMAIN rr_opened :
          /\ rr_opened[c].router <= rr_current
          /\ rr_opened[c].router = rr_current => rr_opened[c].open
    /\ rr_client \in [Routers -> [RrDeployments -> 0 .. Len(rr_opened)]]
    /\ \A g \in Routers, d \in RrDeployments :
          rr_client[g][d] # 0 => rr_opened[rr_client[g][d]].router = g
    /\ rr_request \in [RrRequests -> 0 .. NoRouter]
    /\ \A r \in RrRequests : rr_request[r] # NoRouter => rr_request[r] <= rr_current
    /\ rr_late \subseteq Routers

\* The cache of each router, and where its closing is.
Cached ==
    /\ rr_cache \in [Routers -> Seq(RrDeployments)]
    /\ \A g \in Routers : IsInjective(rr_cache[g])
    /\ rr_closer \in [Routers -> [at : {"none", "loop", "closing", "raised", "done"},
                                  pos : Nat, size : Nat]]
    /\ \A g \in Routers : /\ rr_closer[g].at = "none" <=> g >= rr_current
                          /\ rr_closer[g].at = "none" => rr_closer[g].pos = 0

\* A client of router g that is open is found through the cache.
Findable(g) ==
    \A c \in OpenOf(g) : \E i \in DOMAIN rr_cache[g] : rr_client[g][rr_cache[g][i]] = c

\* The loop of aclose(), as long as no request uses router g any more: behind
\* it no client is usable, and before it the cache is as it was.
Closing(g) ==
    LET closer == rr_closer[g]
    IN  /\ closer.at \in {"loop", "closing"} =>
             /\ closer.pos <= Len(rr_cache[g])
             /\ closer.pos > 0 => closer.size = Len(rr_cache[g])
             /\ \A i \in 1 .. closer.pos : ~usable(rr_client[g][rr_cache[g][i]])
        /\ closer.at = "closing" => closer.pos > 0
        /\ closer.at # "raised"
        /\ closer.at = "done" => OpenOf(g) = {}

ReloadInv == Owned /\ Cached /\ \A g \in Routers \ rr_late : Findable(g) /\ Closing(g)

LEMMA ReloadStart == RrInit => ReloadInv
<1> SUFFICES ASSUME RrInit PROVE ReloadInv
  OBVIOUS
<1>1. Len(rr_opened) = 0 /\ rr_opened \in Seq([router : Routers, open : BOOLEAN])
      /\ DOMAIN rr_opened = {}
  BY DEF RrInit
<1>2. Owned
  BY <1>1, RrAssumption DEF RrInit, Owned, Routers, NoRouter
<1>3. Cached
  BY RrAssumption DEF RrInit, Cached, Routers, IsInjective
<1>4. \A g \in Routers : OpenOf(g) = {} /\ rr_closer[g].at = "none"
  BY <1>1 DEF RrInit, OpenOf
<1>5. ASSUME NEW g \in Routers PROVE Findable(g) /\ Closing(g)
  <2>1. OpenOf(g) = {} /\ rr_closer[g].at = "none"
    BY <1>4
  <2> QED BY <2>1, Zenon DEF Findable, Closing
<1> QED BY <1>2, <1>3, <1>5 DEF ReloadInv

\* A client that is not 0 is one of those opened.
LEMMA Within ==
    ASSUME NEW T, NEW s \in Seq(T), NEW c \in 0 .. Len(s), c # 0
    PROVE  c \in DOMAIN s
  OBVIOUS

LEMMA ClientOpened ==
    ASSUME ReloadInv, NEW h \in Routers, NEW d \in RrDeployments, rr_client[h][d] # 0
    PROVE  rr_client[h][d] \in DOMAIN rr_opened
<1>1. rr_client[h][d] \in 0 .. Len(rr_opened) /\ rr_opened \in Seq([router : Routers, open : BOOLEAN])
  BY DEF ReloadInv, Owned
<1> QED BY <1>1, Within

\* What matters of router g is what it has in its cache, its clients and closer.
LEMMA Untouched ==
    ASSUME NEW g, Findable(g), Closing(g), OpenOf(g)' = OpenOf(g),
           rr_cache[g] \in Seq(RrDeployments), rr_closer[g].pos \in Nat,
           rr_cache'[g] = rr_cache[g], rr_client'[g] = rr_client[g], rr_closer'[g] = rr_closer[g],
           \A d \in RrDeployments : usable(rr_client[g][d])' => usable(rr_client[g][d])
    PROVE  Findable(g)' /\ Closing(g)'
<1>1. Findable(g)'
  BY DEF Findable
<1>2. ASSUME NEW i \in 1 .. rr_closer[g].pos, rr_closer[g].pos <= Len(rr_cache[g])
      PROVE  usable(rr_client[g][rr_cache[g][i]])' => usable(rr_client[g][rr_cache[g][i]])
  <2>1. rr_cache[g][i] \in RrDeployments
    BY <1>2
  <2> QED BY <2>1 DEF usable
<1>3. Closing(g)'
  BY <1>2 DEF Closing
<1> QED BY <1>1, <1>3

\* A step that opens and closes no client leaves every router what it has.
LEMMA SameClients ==
    ASSUME ReloadInv, UNCHANGED <<rr_cache, rr_client, rr_opened>>,
           NEW g \in Routers \ rr_late, rr_closer'[g] = rr_closer[g]
    PROVE  Findable(g)' /\ Closing(g)'
<1>1. Findable(g) /\ Closing(g)
  BY DEF ReloadInv
<1>2. OpenOf(g)' = OpenOf(g)
  BY DEF OpenOf
<1>3. \A d : usable(rr_client[g][d])' => usable(rr_client[g][d])
  BY DEF usable
<1>4. rr_cache[g] \in Seq(RrDeployments) /\ rr_closer[g].pos \in Nat
  BY DEF ReloadInv, Cached
<1> QED BY <1>1, <1>2, <1>3, <1>4, Untouched

LEMMA RequestsKeep ==
    ASSUME ReloadInv, NEW r \in RrRequests, TakeRouter(r) \/ RequestEnds(r)
    PROVE  ReloadInv'
<1>1. /\ UNCHANGED <<rr_current, rr_cache, rr_client, rr_opened, rr_closer, rr_late>>
      /\ rr_request' \in {[rr_request EXCEPT ![r] = rr_current], [rr_request EXCEPT ![r] = NoRouter]}
  BY DEF TakeRouter, RequestEnds
<1>2. rr_current \in 0..NoRouter /\ NoRouter \in 0..NoRouter
  BY RrAssumption DEF ReloadInv, Owned, Routers, NoRouter
<1>3. Owned'
  <2>1. rr_request' \in [RrRequests -> 0 .. NoRouter]
    BY <1>1, <1>2 DEF ReloadInv, Owned
  <2>2. \A q \in RrRequests : rr_request'[q] # NoRouter => rr_request'[q] <= rr_current
    <3>1. rr_current <= rr_current
      BY <1>2, RrAssumption DEF NoRouter
    <3> QED BY <1>1, <3>1 DEF ReloadInv, Owned
  <2>3. UNCHANGED <<rr_current, rr_client, rr_opened, rr_late>>
    BY <1>1
  <2> QED BY <2>1, <2>2, <2>3 DEF ReloadInv, Owned
<1>4. Cached'
  BY <1>1 DEF ReloadInv, Cached
<1>5. \A g \in Routers \ rr_late : Findable(g)' /\ Closing(g)'
  BY <1>1, SameClients
<1> QED BY <1>1, <1>3, <1>4, <1>5 DEF ReloadInv

LEMMA RebuildKeeps ==
    ASSUME ReloadInv, rebuild_router
    PROVE  ReloadInv'
<1>1. /\ rr_current < MaxReloads /\ rr_current' = rr_current + 1
      /\ rr_closer' = [rr_closer EXCEPT ![rr_current].at = "loop"]
      /\ UNCHANGED <<rr_cache, rr_client, rr_opened, rr_request, rr_late>>
  BY DEF rebuild_router
<1>2. rr_current \in Nat /\ MaxReloads \in Nat /\ rr_current \in Routers /\ rr_current' \in Routers
  BY <1>1, RrAssumption DEF ReloadInv, Owned, Routers
<1>3. Owned'
  <2>1. \A c \in DOMAIN rr_opened : rr_opened[c].router \in Routers
    <3> TAKE c \in DOMAIN rr_opened
    <3>1. rr_opened \in Seq([router : Routers, open : BOOLEAN]) /\ c \in 1..Len(rr_opened)
      BY DEF ReloadInv, Owned
    <3>2. rr_opened[c] \in [router : Routers, open : BOOLEAN]
      BY <3>1, ElementOfSeq
    <3> QED BY <3>2
  <2>2. \A c \in DOMAIN rr_opened : rr_opened[c].router <= rr_current' /\ rr_opened[c].router # rr_current'
    BY <1>1, <1>2, <2>1 DEF ReloadInv, Owned, Routers
  <2>3. \A r \in RrRequests : rr_request[r] # NoRouter => rr_request[r] <= rr_current'
    BY <1>1, <1>2, RrAssumption DEF ReloadInv, Owned, Routers, NoRouter
  <2> QED BY <1>1, <1>2, <2>2, <2>3 DEF ReloadInv, Owned
<1>4. PICK g0 \in Routers : g0 = rr_current
  BY <1>2
<1>5. /\ \A g \in Routers : g # g0 => rr_closer'[g] = rr_closer[g]
      /\ rr_closer'[g0] = [rr_closer[g0] EXCEPT !.at = "loop"]
      /\ rr_closer' \in [Routers -> [at : {"none", "loop", "closing", "raised", "done"},
                                     pos : Nat, size : Nat]]
  BY <1>1, <1>4 DEF ReloadInv, Cached
<1>6. Cached'
  <2>1. \A g \in Routers : rr_closer'[g].at = "none" <=> g >= rr_current'
    <3> TAKE g \in Routers
    <3>1. g \in Nat
      BY DEF Routers
    <3>2. CASE g = g0
      BY <1>1, <1>2, <1>4, <1>5, <3>1, <3>2, SMTT(20) DEF ReloadInv, Cached
    <3>3. CASE g # g0
      BY <1>1, <1>2, <1>4, <1>5, <3>1, <3>3, SMTT(20) DEF ReloadInv, Cached
    <3> QED BY <3>2, <3>3
  <2> QED BY <1>1, <1>5, <2>1 DEF ReloadInv, Cached
<1>7. \A g \in Routers \ rr_late : Findable(g)' /\ Closing(g)'
  <2> TAKE g \in Routers \ rr_late
  <2>1. CASE g # g0
    BY <1>1, <1>5, <2>1, SameClients
  <2>2. CASE g = g0
    <3>1. Findable(g) /\ rr_closer[g].at = "none"
      BY <1>2, <1>4, <2>2 DEF ReloadInv, Cached
    <3>2. OpenOf(g)' = OpenOf(g)
      BY <1>1 DEF OpenOf
    <3>3. Findable(g)'
      BY <1>1, <3>1, <3>2 DEF Findable
    <3>4. Closing(g)'
      <4>1. rr_closer'[g].at = "loop" /\ rr_closer'[g].pos = 0 /\ rr_cache'[g] = rr_cache[g]
            /\ Len(rr_cache[g]) \in Nat
        BY <1>1, <1>4, <1>5, <2>2, <3>1 DEF ReloadInv, Cached
      <4> QED BY <4>1 DEF Closing
    <3> QED BY <3>3, <3>4
  <2> QED BY <2>1, <2>2
<1> QED BY <1>1, <1>3, <1>6, <1>7 DEF ReloadInv

-----------------------------------------------------------------------------

LEMMA CallKeeps ==
    ASSUME ReloadInv, NEW r \in RrRequests, NEW d \in RrDeployments, CallProvider(r, d)
    PROVE  ReloadInv'
<1>1. PICK g \in Routers : g = rr_request[r] /\ g <= rr_current
  <2>1. rr_request[r] \in 0..NoRouter /\ rr_request[r] # NoRouter /\ rr_request[r] <= rr_current
    BY DEF CallProvider, ReloadInv, Owned
  <2> QED BY <2>1, RrAssumption DEF Routers, NoRouter
<1>2. /\ rr_cache' = [rr_cache EXCEPT ![g] = IF d \in Range(@) THEN @ ELSE Append(@, d)]
      /\ rr_late' = IF rr_closer[g].at = "none" THEN rr_late ELSE rr_late \cup {g}
      /\ UNCHANGED <<rr_current, rr_closer, rr_request>>
  BY <1>1 DEF CallProvider
<1>3. \/ usable(rr_client[g][d]) /\ UNCHANGED <<rr_client, rr_opened>>
      \/ /\ ~usable(rr_client[g][d])
         /\ rr_opened' = Append(rr_opened, [router |-> g, open |-> TRUE])
         /\ rr_client' = [rr_client EXCEPT ![g][d] = Len(rr_opened) + 1]
  BY <1>1 DEF CallProvider
<1>4. PICK n \in Nat : n = Len(rr_opened) /\ DOMAIN rr_opened = 1..n
  BY DEF ReloadInv, Owned
<1>5. /\ rr_client \in [Routers -> [RrDeployments -> 0 .. n]]
      /\ rr_opened \in Seq([router : Routers, open : BOOLEAN])
      /\ rr_cache \in [Routers -> Seq(RrDeployments)]
      /\ \A h \in Routers : IsInjective(rr_cache[h])
  BY <1>4 DEF ReloadInv, Owned, Cached
<1>6. \* The clients there were are as they were.
      /\ rr_opened' \in Seq([router : Routers, open : BOOLEAN])
      /\ \A c \in 1..n : c \in DOMAIN rr_opened' /\ rr_opened'[c] = rr_opened[c]
      /\ \A c \in DOMAIN rr_opened' : c \in 1..n \/ (/\ c = n + 1 /\ rr_opened'[c].router = g
                                                     /\ rr_opened'[c].open
                                                     /\ rr_client'[g][d] = c /\ c # 0)
      /\ Len(rr_opened') \in {n, n + 1}
  <2>1. CASE UNCHANGED <<rr_client, rr_opened>>
    BY <1>4, <1>5, <2>1
  <2>2. CASE /\ rr_opened' = Append(rr_opened, [router |-> g, open |-> TRUE])
             /\ rr_client' = [rr_client EXCEPT ![g][d] = Len(rr_opened) + 1]
    <3>1. PICK e \in [router : Routers, open : BOOLEAN] : e.router = g /\ e.open /\ e = [router |-> g, open |-> TRUE]
      OBVIOUS
    <3>2. /\ rr_opened' \in Seq([router : Routers, open : BOOLEAN]) /\ Len(rr_opened') = n + 1
          /\ \A c \in 1..n : rr_opened'[c] = rr_opened[c]
          /\ rr_opened'[n + 1] = e
      BY <1>4, <1>5, <2>2, <3>1, AppendProperties
    <3>3. DOMAIN rr_opened' = 1..(n + 1)
      BY <3>2
    <3>4. rr_client'[g][d] = n + 1
      BY <1>4, <1>5, <2>2
    <3> QED BY <3>1, <3>2, <3>3, <3>4
  <2> QED BY <1>3, <2>1, <2>2
<1>7. /\ rr_client' \in [Routers -> [RrDeployments -> 0 .. Len(rr_opened')]]
      /\ \A h \in Routers, f \in RrDeployments :
            rr_client'[h][f] = rr_client[h][f] \/ (h = g /\ f = d /\ ~usable(rr_client[g][d]) /\ rr_client'[h][f] = n + 1
                                                   /\ n + 1 \in DOMAIN rr_opened')
      /\ \A h \in Routers : h # g => rr_client'[h] = rr_client[h]
  <2>1. CASE UNCHANGED <<rr_client, rr_opened>>
    BY <1>4, <1>5, <2>1
  <2>2. CASE /\ ~usable(rr_client[g][d])
             /\ rr_opened' = Append(rr_opened, [router |-> g, open |-> TRUE])
             /\ rr_client' = [rr_client EXCEPT ![g][d] = Len(rr_opened) + 1]
    <3>1. Len(rr_opened') = n + 1 /\ DOMAIN rr_opened' = 1..(n + 1)
      BY <1>4, <1>6, <2>2, AppendProperties
    <3>2. rr_client' \in [Routers -> [RrDeployments -> 0 .. (n + 1)]]
      BY <1>4, <1>5, <2>2
    <3> QED BY <1>4, <1>5, <2>2, <3>1, <3>2
  <2> QED BY <1>3, <2>1, <2>2
<1>8. Owned'
  <2>1. ASSUME NEW c \in DOMAIN rr_opened'
        PROVE  /\ rr_opened'[c].router <= rr_current
               /\ rr_opened'[c].router = rr_current => rr_opened'[c].open
    BY <1>1, <1>4, <1>6, <2>1 DEF ReloadInv, Owned
  <2>2. ASSUME NEW h \in Routers, NEW f \in RrDeployments, rr_client'[h][f] # 0
        PROVE  rr_opened'[rr_client'[h][f]].router = h
    <3>1. CASE rr_client'[h][f] = rr_client[h][f]
      <4>1. PICK c \in 1..n : c = rr_client[h][f]
        BY <1>5, <2>2, <3>1
      <4>2. rr_opened[c].router = h
        BY <2>2, <3>1, <4>1 DEF ReloadInv, Owned
      <4>3. rr_opened'[c] = rr_opened[c]
        BY <1>6
      <4> QED BY <3>1, <4>1, <4>2, <4>3
    <3>2. CASE h = g /\ rr_client'[h][f] = n + 1 /\ n + 1 \in DOMAIN rr_opened'
      BY <1>4, <1>6, <3>2
    <3> QED BY <1>7, <3>1, <3>2
  <2>3. rr_late' \subseteq Routers
    BY <1>2 DEF ReloadInv, Owned
  <2> QED BY <1>2, <1>6, <1>7, <2>1, <2>2, <2>3 DEF ReloadInv, Owned
<1>9. /\ rr_cache' \in [Routers -> Seq(RrDeployments)] /\ \A h \in Routers : IsInjective(rr_cache'[h])
      /\ \A h \in Routers : h # g => rr_cache'[h] = rr_cache[h]
      /\ d \in Range(rr_cache'[g])
      /\ \A i \in DOMAIN rr_cache[g] : i \in DOMAIN rr_cache'[g] /\ rr_cache'[g][i] = rr_cache[g][i]
  <2>1. PICK q \in Seq(RrDeployments) : q = rr_cache[g] /\ IsInjective(q)
    BY <1>5
  <2>2. PICK q1 : q1 = IF d \in Range(q) THEN q ELSE Append(q, d)
    OBVIOUS
  <2>3. /\ q1 \in Seq(RrDeployments) /\ IsInjective(q1) /\ d \in Range(q1)
        /\ \A i \in DOMAIN q : i \in DOMAIN q1 /\ q1[i] = q[i]
    <3>1. CASE d \in Range(q)
      BY <2>1, <2>2, <3>1
    <3>2. CASE d \notin Range(q)
      <4>1. /\ q1 = Append(q, d) /\ Len(q) \in Nat /\ q1 \in Seq(RrDeployments) /\ Len(q1) = Len(q) + 1
            /\ q1[Len(q) + 1] = d /\ \A i \in 1..Len(q) : q1[i] = q[i]
        BY <2>1, <2>2, <3>2, AppendProperties
      <4>2. DOMAIN q = 1..Len(q) /\ DOMAIN q1 = 1..(Len(q) + 1)
        BY <4>1, <2>1
      <4>3. IsInjective(q1)
        BY <2>1, <3>2, <4>1, <4>2 DEF IsInjective, Range
      <4>4. d \in Range(q1)
        BY <4>1, <4>2 DEF Range
      <4> QED BY <4>1, <4>2, <4>3, <4>4
    <3> QED BY <3>1, <3>2
  <2>4. rr_cache' = [rr_cache EXCEPT ![g] = q1]
    BY <1>2, <2>1, <2>2
  <2> QED BY <1>5, <2>1, <2>3, <2>4
<1>10. Cached'
  BY <1>2, <1>9 DEF ReloadInv, Cached
<1>11. ASSUME NEW h \in Routers, h \notin rr_late', h # g PROVE Findable(h)' /\ Closing(h)'
  <2>1. Findable(h) /\ Closing(h) /\ rr_cache[h] \in Seq(RrDeployments) /\ rr_closer[h].pos \in Nat
    BY <1>2, <1>11 DEF ReloadInv, Cached
  <2>2. OpenOf(h)' = OpenOf(h)
    BY <1>4, <1>6, <1>11 DEF OpenOf
  <2>3. \A f \in RrDeployments : usable(rr_client[h][f])' => usable(rr_client[h][f])
    <3> TAKE f \in RrDeployments
    <3>1. rr_client'[h][f] = rr_client[h][f] /\ rr_client[h][f] \in 0..n
      BY <1>5, <1>7, <1>11
    <3>2. rr_client[h][f] # 0 => rr_opened'[rr_client[h][f]] = rr_opened[rr_client[h][f]]
      BY <1>6, <3>1
    <3> QED BY <3>1, <3>2 DEF usable
  <2> QED BY <1>2, <1>7, <1>9, <1>11, <2>1, <2>2, <2>3, Untouched
<1>12. ASSUME g \notin rr_late' PROVE Findable(g)' /\ Closing(g)'
  <2>1. rr_closer[g].at = "none" /\ Findable(g) /\ rr_closer' = rr_closer
    BY <1>2, <1>12 DEF ReloadInv
  <2>2. Closing(g)'
    BY <2>1 DEF Closing
  <2>3. ASSUME NEW c \in OpenOf(g)' PROVE \E i \in DOMAIN rr_cache'[g] : rr_client'[g][rr_cache'[g][i]] = c
    <3>1. c \in DOMAIN rr_opened'
      BY <2>3 DEF OpenOf
    <3>2. CASE c \in 1..n
      <4>1. c \in OpenOf(g) /\ c # 0
        BY <1>4, <1>6, <2>3, <3>2 DEF OpenOf
      <4>2. PICK i \in DOMAIN rr_cache[g] : rr_client[g][rr_cache[g][i]] = c
        BY <2>1, <4>1 DEF Findable
      <4>3. rr_cache[g][i] \in RrDeployments
        BY <1>5
      <4>4. usable(rr_client[g][rr_cache[g][i]])
        BY <4>1, <4>2 DEF OpenOf, usable
      <4>5. rr_client'[g][rr_cache[g][i]] = c
        BY <1>7, <4>2, <4>3, <4>4
      <4> QED BY <1>9, <4>5
    <3>3. CASE rr_client'[g][d] = c
      BY <1>9, <3>3 DEF Range
    <3> QED BY <1>6, <3>1, <3>2, <3>3
  <2> QED BY <2>2, <2>3 DEF Findable
<1> QED BY <1>8, <1>10, <1>11, <1>12 DEF ReloadInv

\* A step of the closing of router g: it leaves the other routers alone, may
\* close clients of g, and forgets clients or the cache of g.
LEMMA CloserKeeps ==
    ASSUME ReloadInv, NEW g \in Routers, g < rr_current,
           UNCHANGED <<rr_current, rr_request, rr_late>>,
           rr_opened' \in Seq([router : Routers, open : BOOLEAN]),
           Len(rr_opened') = Len(rr_opened),
           \A c \in DOMAIN rr_opened :
             /\ rr_opened'[c].router = rr_opened[c].router
             /\ rr_opened[c].router # g => rr_opened'[c] = rr_opened[c],
           rr_client' \in [Routers -> [RrDeployments -> 0 .. Len(rr_opened)]],
           \A h \in Routers : h # g => rr_client'[h] = rr_client[h],
           \A d \in RrDeployments : rr_client'[g][d] \in {0, rr_client[g][d]},
           rr_cache' \in [Routers -> Seq(RrDeployments)],
           \A h \in Routers : h # g => rr_cache'[h] = rr_cache[h],
           IsInjective(rr_cache'[g]),
           rr_closer' \in [Routers -> [at : {"none", "loop", "closing", "raised", "done"},
                                       pos : Nat, size : Nat]],
           rr_closer'[g].at # "none",
           \A h \in Routers : h # g => rr_closer'[h] = rr_closer[h],
           g \notin rr_late => Findable(g)' /\ Closing(g)'
    PROVE  ReloadInv'
<1>1. rr_current \in Nat /\ g \in Nat
  BY DEF ReloadInv, Owned, Routers
<1>2. DOMAIN rr_opened' = DOMAIN rr_opened
  BY DEF ReloadInv, Owned
<1>3. ASSUME NEW c \in DOMAIN rr_opened
      PROVE  /\ rr_opened'[c].router <= rr_current
             /\ rr_opened'[c].router = rr_current => rr_opened'[c].open
  <2>1. rr_opened[c].router <= rr_current /\ (rr_opened[c].router = rr_current => rr_opened[c].open)
    BY <1>3 DEF ReloadInv, Owned
  <2>2. g # rr_current
    BY <1>1
  <2> QED BY <1>3, <2>1, <2>2
<1>4. ASSUME NEW h \in Routers, NEW d \in RrDeployments, rr_client'[h][d] # 0
      PROVE  rr_opened'[rr_client'[h][d]].router = h
  <2>1. rr_client'[h][d] = rr_client[h][d]
    BY <1>4
  <2>2. PICK c \in DOMAIN rr_opened : c = rr_client[h][d]
    <3>1. rr_client[h][d] # 0
      BY <1>4, <2>1
    <3>2. rr_client[h][d] \in DOMAIN rr_opened
      BY <3>1, ClientOpened
    <3> QED BY <3>2
  <2>3. rr_opened[c].router = h
    BY <1>4, <2>1, <2>2 DEF ReloadInv, Owned
  <2> QED BY <2>1, <2>2, <2>3
<1>5. Owned'
  BY <1>2, <1>3, <1>4 DEF ReloadInv, Owned
<1>6. Cached'
  <2>1. ASSUME NEW h \in Routers
        PROVE  /\ IsInjective(rr_cache'[h])
               /\ rr_closer'[h].at = "none" <=> h >= rr_current
               /\ rr_closer'[h].at = "none" => rr_closer'[h].pos = 0
    <3>1. CASE h = g
      BY <1>1, <3>1
    <3>2. CASE h # g
      BY <3>2 DEF ReloadInv, Cached
    <3> QED BY <3>1, <3>2
  <2> QED BY <2>1 DEF ReloadInv, Cached
<1>7. ASSUME NEW h \in Routers, h \notin rr_late, h # g PROVE Findable(h)' /\ Closing(h)'
  <2>1. Findable(h) /\ Closing(h) /\ rr_cache[h] \in Seq(RrDeployments) /\ rr_closer[h].pos \in Nat
    BY <1>7 DEF ReloadInv, Cached
  <2>2. OpenOf(h)' = OpenOf(h)
    <3>1. \A c \in DOMAIN rr_opened :
             (rr_opened'[c].router = h /\ rr_opened'[c].open)
               <=> (rr_opened[c].router = h /\ rr_opened[c].open)
      BY <1>7
    <3> QED BY <1>2, <3>1 DEF OpenOf
  <2>3. ASSUME NEW d \in RrDeployments, usable(rr_client[h][d])' PROVE usable(rr_client[h][d])
    <3>1. rr_client'[h][d] = rr_client[h][d]
      BY <1>7
    <3>2. rr_client[h][d] # 0 /\ rr_opened'[rr_client[h][d]].open
      BY <2>3, <3>1 DEF usable
    <3>3. rr_client[h][d] \in DOMAIN rr_opened
      BY <3>2, ClientOpened
    <3>4. PICK c \in DOMAIN rr_opened : c = rr_client[h][d]
      BY <3>3
    <3>5. rr_opened[c].router = h
      BY <3>2, <3>4 DEF ReloadInv, Owned
    <3>6. rr_opened'[c] = rr_opened[c]
      BY <1>7, <3>5
    <3> QED BY <3>2, <3>4, <3>6 DEF usable
  <2> QED BY <1>7, <2>1, <2>2, <2>3, Untouched
<1> QED BY <1>5, <1>6, <1>7 DEF ReloadInv

LEMMA ProviderKeeps ==
    ASSUME ReloadInv, NEW g \in Routers, ProviderClosed(g)
    PROVE  ReloadInv'
<1>1. /\ rr_closer[g].at = "closing"
      /\ rr_closer' = [rr_closer EXCEPT ![g].at = "loop"]
      /\ rr_client' = [rr_client EXCEPT ![g][rr_cache[g][rr_closer[g].pos]] = 0]
      /\ UNCHANGED <<rr_current, rr_cache, rr_opened, rr_request, rr_late>>
  BY DEF ProviderClosed
<1>2. g < rr_current
  <2>1. ~(g >= rr_current)
    BY <1>1 DEF ReloadInv, Cached
  <2>2. g \in Nat /\ rr_current \in Nat
    BY DEF ReloadInv, Owned, Routers
  <2> QED BY <2>1, <2>2
<1>3. /\ rr_client' \in [Routers -> [RrDeployments -> 0 .. Len(rr_opened)]]
      /\ \A h \in Routers : h # g => rr_client'[h] = rr_client[h]
      /\ \A d \in RrDeployments : rr_client'[g][d] =
            IF d = rr_cache[g][rr_closer[g].pos] THEN 0 ELSE rr_client[g][d]
  <2>1. 0 \in 0 .. Len(rr_opened)
    BY DEF ReloadInv, Owned
  <2>2. rr_client \in [Routers -> [RrDeployments -> 0 .. Len(rr_opened)]]
    BY DEF ReloadInv, Owned
  <2> QED BY <1>1, <2>1, <2>2
<1>4. /\ rr_closer' \in [Routers -> [at : {"none", "loop", "closing", "raised", "done"},
                                     pos : Nat, size : Nat]]
      /\ \A h \in Routers : h # g => rr_closer'[h] = rr_closer[h]
      /\ rr_closer'[g].at = "loop" /\ rr_closer'[g].pos = rr_closer[g].pos
      /\ rr_closer'[g].size = rr_closer[g].size
  BY <1>1 DEF ReloadInv, Cached
<1>5. ASSUME g \notin rr_late PROVE Findable(g)' /\ Closing(g)'
  <2>1. /\ Findable(g) /\ rr_closer[g].pos \in 1 .. Len(rr_cache[g])
        /\ rr_closer[g].size = Len(rr_cache[g])
        /\ \A i \in 1 .. rr_closer[g].pos : ~usable(rr_client[g][rr_cache[g][i]])
    <3>1. Findable(g) /\ Closing(g) /\ rr_closer[g].pos \in Nat /\ Len(rr_cache[g]) \in Nat
      BY <1>5 DEF ReloadInv, Cached
    <3> QED BY <1>1, <3>1 DEF Closing
  <2>2. \A i \in 1 .. rr_closer[g].pos : rr_cache[g][i] \in RrDeployments
    BY <2>1 DEF ReloadInv, Cached
  <2>3. Closing(g)'
    <3>1. \A i \in 1 .. rr_closer[g].pos : ~usable(rr_client[g][rr_cache[g][i]])'
      BY <1>1, <1>3, <2>1, <2>2 DEF usable
    <3> QED BY <1>1, <1>4, <2>1, <3>1 DEF Closing
  <2>4. ASSUME NEW c \in OpenOf(g)' PROVE \E i \in DOMAIN rr_cache'[g] : rr_client'[g][rr_cache'[g][i]] = c
    <3>1. c \in OpenOf(g) /\ c # 0
      BY <1>1, <2>4 DEF OpenOf, ReloadInv, Owned
    <3>2. PICK i \in DOMAIN rr_cache[g] : rr_client[g][rr_cache[g][i]] = c
      BY <2>1, <3>1 DEF Findable
    <3>3. usable(c)
      BY <3>1 DEF OpenOf, usable
    <3>4. rr_cache[g][i] # rr_cache[g][rr_closer[g].pos]
      BY <2>1, <3>2, <3>3
    <3>5. rr_cache[g][i] \in RrDeployments
      BY <3>2 DEF ReloadInv, Cached
    <3>6. rr_client'[g][rr_cache[g][i]] = c
      BY <1>3, <3>2, <3>4, <3>5
    <3> QED BY <1>1, <3>2, <3>6
  <2> QED BY <2>3, <2>4 DEF Findable
<1>6. rr_opened \in Seq([router : Routers, open : BOOLEAN]) /\ rr_cache \in [Routers -> Seq(RrDeployments)]
      /\ IsInjective(rr_cache[g])
  BY DEF ReloadInv, Owned, Cached
<1> QED BY <1>1, <1>2, <1>3, <1>4, <1>5, <1>6, CloserKeeps

LEMMA NextKeeps ==
    ASSUME ReloadInv, NEW g \in Routers, NextProvider(g)
    PROVE  ReloadInv'
<1>1. PICK k \in Nat, q \in Seq(RrDeployments), n \in Nat :
         /\ k = rr_closer[g].pos /\ q = rr_cache[g] /\ rr_closer[g].at = "loop"
         /\ n = IF k = 0 THEN Len(q) ELSE rr_closer[g].size
  <2>1. rr_closer[g].pos \in Nat /\ rr_cache[g] \in Seq(RrDeployments) /\ rr_closer[g].size \in Nat
        /\ Len(rr_cache[g]) \in Nat
    BY DEF ReloadInv, Cached
  <2> QED BY <2>1 DEF NextProvider
<1>2. UNCHANGED <<rr_current, rr_client, rr_request, rr_late>>
  BY DEF NextProvider
<1>3. PICK a \in {"loop", "closing", "raised", "done"} :
         /\ rr_closer' = [rr_closer EXCEPT ![g] = [at |-> a, pos |-> k + 1, size |-> n]]
         /\ \/ a = "raised" /\ n # Len(q) /\ UNCHANGED <<rr_cache, rr_opened>>
            \/ a = "done" /\ n = Len(q) /\ k = n /\ rr_cache' = [rr_cache EXCEPT ![g] = <<>>]
               /\ UNCHANGED rr_opened
            \/ /\ a = "closing" /\ n = Len(q) /\ k < n /\ UNCHANGED rr_cache
               /\ usable(rr_client[g][q[k + 1]])
               /\ rr_opened' = [rr_opened EXCEPT ![rr_client[g][q[k + 1]]].open = FALSE]
            \/ /\ a = "loop" /\ n = Len(q) /\ k < n /\ UNCHANGED <<rr_cache, rr_opened>>
               /\ ~usable(rr_client[g][q[k + 1]])
  BY <1>1 DEF NextProvider
<1>4. g < rr_current
  <2>1. ~(g >= rr_current)
    BY <1>1 DEF ReloadInv, Cached
  <2>2. g \in Nat /\ rr_current \in Nat
    BY DEF ReloadInv, Owned, Routers
  <2> QED BY <2>1, <2>2
<1>5. /\ rr_closer' \in [Routers -> [at : {"none", "loop", "closing", "raised", "done"},
                                     pos : Nat, size : Nat]]
      /\ \A h \in Routers : h # g => rr_closer'[h] = rr_closer[h]
      /\ rr_closer'[g] = [at |-> a, pos |-> k + 1, size |-> n]
  BY <1>3 DEF ReloadInv, Cached
<1>6. /\ rr_cache' \in [Routers -> Seq(RrDeployments)] /\ IsInjective(rr_cache'[g])
      /\ \A h \in Routers : h # g => rr_cache'[h] = rr_cache[h]
  <2>1. rr_cache \in [Routers -> Seq(RrDeployments)] /\ IsInjective(rr_cache[g])
    BY DEF ReloadInv, Cached
  <2>2. IsInjective(<<>>) /\ <<>> \in Seq(RrDeployments)
    BY DEF IsInjective
  <2> QED BY <1>3, <2>1, <2>2
<1>7. /\ rr_opened' \in Seq([router : Routers, open : BOOLEAN])
      /\ Len(rr_opened') = Len(rr_opened)
      /\ \A c \in DOMAIN rr_opened :
           /\ rr_opened'[c].router = rr_opened[c].router
           /\ rr_opened[c].router # g => rr_opened'[c] = rr_opened[c]
           /\ rr_opened'[c].open => rr_opened[c].open
  <2>1. rr_opened \in Seq([router : Routers, open : BOOLEAN]) /\ DOMAIN rr_opened = 1 .. Len(rr_opened)
    BY DEF ReloadInv, Owned
  <2>2. CASE UNCHANGED rr_opened
    BY <2>1, <2>2
  <2>3. CASE /\ k < Len(q) /\ usable(rr_client[g][q[k + 1]])
             /\ rr_opened' = [rr_opened EXCEPT ![rr_client[g][q[k + 1]]].open = FALSE]
    <3>1. q[k + 1] \in RrDeployments
      <4>1. k + 1 \in 1 .. Len(q)
        <5>1. Len(q) \in Nat /\ k \in Nat /\ k < Len(q)
          BY <2>3
        <5> QED BY <5>1
      <4> QED BY <1>1, <4>1, ElementOfSeq
    <3>2. PICK c \in DOMAIN rr_opened : c = rr_client[g][q[k + 1]]
      <4>1. rr_client[g][q[k + 1]] # 0
        BY <2>3 DEF usable
      <4>2. rr_client[g][q[k + 1]] \in DOMAIN rr_opened
        BY <3>1, <4>1, ClientOpened
      <4> QED BY <4>2
    <3>3. rr_opened[c].router = g /\ rr_opened[c].open
      BY <2>3, <3>1, <3>2 DEF usable, ReloadInv, Owned
    <3>4. rr_opened' = [rr_opened EXCEPT ![c].open = FALSE]
      BY <2>3, <3>2
    <3>5. rr_opened[c] \in [router : Routers, open : BOOLEAN]
      BY <2>1, ElementOfSeq
    <3>6. PICK e \in [router : Routers, open : BOOLEAN] :
             e = [rr_opened[c] EXCEPT !.open = FALSE] /\ e.router = g /\ e.open = FALSE
      <4>1. [rr_opened[c] EXCEPT !.open = FALSE] \in [router : Routers, open : BOOLEAN]
        BY <3>5
      <4>2. /\ [rr_opened[c] EXCEPT !.open = FALSE].router = g
            /\ [rr_opened[c] EXCEPT !.open = FALSE].open = FALSE
        BY <3>3, <3>5
      <4> QED BY <4>1, <4>2
    <3>7. rr_opened' = [rr_opened EXCEPT ![c] = e]
      BY <3>4, <3>6
    <3>8. rr_opened' \in Seq([router : Routers, open : BOOLEAN]) /\ Len(rr_opened') = Len(rr_opened)
      BY <2>1, <3>7
    <3>9. \A x \in DOMAIN rr_opened : rr_opened'[x] = IF x = c THEN e ELSE rr_opened[x]
      BY <2>1, <3>7
    <3> QED BY <3>3, <3>6, <3>8, <3>9
  <2> QED BY <1>3, <2>2, <2>3
<1>8. \A d \in RrDeployments : usable(rr_client[g][d])' => usable(rr_client[g][d])
  <2> TAKE d \in RrDeployments
  <2>1. rr_client[g][d] # 0 => rr_client[g][d] \in DOMAIN rr_opened
    BY DEF ReloadInv, Owned
  <2> QED BY <1>2, <1>7, <2>1 DEF usable
<1>9. ASSUME g \notin rr_late PROVE Findable(g)' /\ Closing(g)'
  <2>1. /\ Findable(g) /\ n = Len(q) /\ Len(q) \in Nat /\ k <= Len(q)
        /\ \A i \in 1 .. k : ~usable(rr_client[g][q[i]])
    BY <1>1, <1>9 DEF ReloadInv, Closing
  <2>2. \A i \in 1 .. Len(q) : q[i] \in RrDeployments
    BY <1>1
  <2>3. DOMAIN rr_opened' = DOMAIN rr_opened /\ DOMAIN q = 1 .. Len(q)
    BY <1>1, <1>7 DEF ReloadInv, Owned
  <2>4. OpenOf(g)' \subseteq OpenOf(g)
    BY <1>7, <2>3 DEF OpenOf
  <2>5. CASE a = "done"
    <3>1. k = Len(q) /\ UNCHANGED rr_opened
      BY <1>3, <2>5
    <3>2. ASSUME NEW c \in OpenOf(g) PROVE FALSE
      <4>1. PICK i \in DOMAIN q : rr_client[g][q[i]] = c
        BY <1>1, <2>1, <3>2 DEF Findable
      <4>2. usable(c)
        BY <3>2 DEF OpenOf, usable, ReloadInv, Owned
      <4> QED BY <2>1, <2>3, <3>1, <4>1, <4>2
    <3>3. OpenOf(g)' = {}
      BY <2>4, <3>2
    <3> QED BY <1>5, <2>5, <3>3 DEF Findable, Closing
  <2>6. CASE a \in {"closing", "loop"}
    <3>1. k < Len(q) /\ UNCHANGED rr_cache
      BY <1>3, <2>6
    <3>2. \A i \in 1 .. k : ~usable(rr_client[g][q[i]])'
      BY <1>1, <1>8, <2>1, <2>2, <3>1
    <3>3. ~usable(rr_client[g][q[k + 1]])'
      <4>1. CASE UNCHANGED rr_opened /\ ~usable(rr_client[g][q[k + 1]])
        BY <1>2, <4>1 DEF usable
      <4>2. CASE /\ usable(rr_client[g][q[k + 1]])
                 /\ rr_opened' = [rr_opened EXCEPT ![rr_client[g][q[k + 1]]].open = FALSE]
        <5>1. PICK c \in DOMAIN rr_opened : c = rr_client[g][q[k + 1]]
          <6>1. rr_client[g][q[k + 1]] \in 0 .. Len(rr_opened) /\ rr_client[g][q[k + 1]] # 0
            BY <2>2, <3>1, <4>2 DEF usable, ReloadInv, Owned
          <6> QED BY <6>1 DEF ReloadInv, Owned
        <5>2. rr_opened[c] \in [router : Routers, open : BOOLEAN]
          <6>1. rr_opened \in Seq([router : Routers, open : BOOLEAN]) /\ c \in 1 .. Len(rr_opened)
            BY <5>1 DEF ReloadInv, Owned
          <6> QED BY <6>1, ElementOfSeq
        <5>3. rr_opened'[c].open = FALSE
          BY <4>2, <5>1, <5>2
        <5> QED BY <1>2, <5>1, <5>3 DEF usable
      <4> QED BY <1>3, <2>6, <4>1, <4>2
    <3>4. \A i \in 1 .. (k + 1) : ~usable(rr_client[g][q[i]])'
      <4> TAKE i \in 1 .. (k + 1)
      <4>1. i \in 1 .. k \/ i = k + 1
        BY <1>1
      <4> QED BY <3>2, <3>3, <4>1
    <3>5. Closing(g)'
      <4>1. k + 1 <= Len(q) /\ k + 1 > 0
        BY <1>1, <2>1, <3>1
      <4> QED BY <1>1, <1>5, <2>1, <2>6, <3>1, <3>4, <4>1 DEF Closing
    <3>6. Findable(g)'
      BY <1>1, <1>2, <2>1, <2>4, <3>1 DEF Findable
    <3> QED BY <3>5, <3>6
  <2> QED BY <1>3, <2>1, <2>5, <2>6
<1>10. /\ \A d \in RrDeployments : rr_client'[g][d] \in {0, rr_client[g][d]}
       /\ rr_client' \in [Routers -> [RrDeployments -> 0 .. Len(rr_opened)]]
       /\ \A h \in Routers : h # g => rr_client'[h] = rr_client[h]
       /\ rr_closer'[g].at # "none"
  BY <1>2, <1>5 DEF ReloadInv, Owned
<1> QED BY <1>2, <1>4, <1>5, <1>6, <1>7, <1>9, <1>10, CloserKeeps

-----------------------------------------------------------------------------

LEMMA ReloadStep == ReloadInv /\ [RrNext]_rrvars => ReloadInv'
<1> SUFFICES ASSUME ReloadInv, [RrNext]_rrvars PROVE ReloadInv'
  OBVIOUS
<1>1. CASE UNCHANGED rrvars
  BY <1>1 DEF rrvars, ReloadInv, Owned, Cached, Findable, Closing, OpenOf, usable
<1>2. ASSUME NEW r \in RrRequests, TakeRouter(r) \/ RequestEnds(r) \/ \E d \in RrDeployments : CallProvider(r, d)
      PROVE  ReloadInv'
  BY <1>2, RequestsKeep, CallKeeps
<1>3. CASE rebuild_router
  BY <1>3, RebuildKeeps
<1>4. ASSUME NEW g \in Routers, NextProvider(g) \/ ProviderClosed(g) PROVE ReloadInv'
  BY <1>4, NextKeeps, ProviderKeeps
<1> QED BY <1>1, <1>2, <1>3, <1>4 DEF RrNext

LEMMA ReloadSound == ReloadInv => CurrentUndisturbed /\ ReleasedUnlessUsed /\ RrTypeOK
<1> SUFFICES ASSUME ReloadInv PROVE CurrentUndisturbed /\ ReleasedUnlessUsed /\ RrTypeOK
  OBVIOUS
<1>1. CurrentUndisturbed
  BY DEF ReloadInv, Owned, CurrentUndisturbed
<1>2. ReleasedUnlessUsed
  BY DEF ReloadInv, Closing, ReleasedUnlessUsed
<1>3. RrTypeOK
  BY DEF ReloadInv, Owned, Cached, RrTypeOK
<1> QED BY <1>1, <1>2, <1>3

-----------------------------------------------------------------------------
(* The watcher of the configuration file, and the stored configuration.    *)

Hashes == Versions \cup {-1}
ReloadStates == [at : {"sleep", "hashed", "loaded", "applying"}, hash : Hashes, config : Hashes]

\* The two reloads do not overlap, and what the hash stands for is applied or
\* on its way, as long as no race has been met.
Raceless ==
    /\ cw_hash <= cw_file
    /\ cw_watch.at = "hashed" => cw_watch.hash <= cw_file
    /\ cw_manual.at = "loaded" => cw_watch.at = "sleep" /\ cw_manual.config = cw_file /\ loads(cw_file)
    /\ cw_manual.at = "applying" =>
         cw_watch.at \in {"sleep", "hashed"} /\ cw_hash = cw_manual.config
    /\ cw_watch.at = "applying" =>
         cw_manual.at = "sleep" /\ cw_hash <= cw_watch.config /\ cw_watch.config <= cw_file
    /\ (cw_watch.at # "applying" /\ cw_manual.at = "sleep" /\ cw_hash = cw_file /\ good(cw_file))
         => cw_applied = cw_file

WatchInv ==
    /\ cw_file \in Versions /\ cw_applied \in Versions /\ cw_hash \in Hashes
    /\ cw_watch \in ReloadStates /\ cw_manual \in ReloadStates
    /\ \A t \in {cw_watch, cw_manual} : t.at = "applying" => t.config \in Versions
    /\ cw_manual.at # "hashed" /\ cw_watch.at # "loaded"
    /\ cw_manual.at = "loaded" => cw_manual.config \in Versions
    /\ ~cw_raced => Raceless

LEMMA WatchStart == CwInit => WatchInv
<1>1. 0 \in Versions /\ _file_hash(0) \in {0, -1} /\ Asleep = [at |-> "sleep", hash |-> -1, config |-> -1]
  BY CwAssumption DEF Versions, _file_hash, Asleep, At
<1> QED BY <1>1 DEF CwInit, WatchInv, Raceless, Hashes, ReloadStates

LEMMA WatchStep == WatchInv /\ [CwNext]_cwvars => WatchInv'
<1> SUFFICES ASSUME WatchInv, [CwNext]_cwvars PROVE WatchInv'
  OBVIOUS
<1>1. /\ Versions \subseteq Int /\ LastVersion \in Nat /\ cw_file \in Int /\ cw_hash \in Int
      /\ Hashes \subseteq Int /\ cw_file >= 0
      /\ \A v \in Versions : _file_hash(v) \in Hashes /\ _file_hash(v) <= v
                             /\ (loads(v) => _file_hash(v) = v)
  BY CwAssumption DEF WatchInv, Versions, Hashes, _file_hash, loads
<1>2. Asleep \in ReloadStates /\ Asleep.at = "sleep"
  BY DEF Asleep, At, ReloadStates, Hashes
<1>3. CASE UNCHANGED cwvars
  BY <1>3 DEF cwvars, WatchInv, Raceless
<1>4. CASE Edit
  <2>1. cw_file' \in Versions /\ cw_file' = cw_file + 1
    BY <1>1, <1>4 DEF Edit, WatchInv, Versions
  <2>2. ASSUME ~cw_raced' PROVE Raceless'
    <3>1. Raceless /\ cw_manual.at # "loaded" /\ UNCHANGED <<cw_hash, cw_applied, cw_watch, cw_manual>>
      BY <1>4, <2>2 DEF Edit, WatchInv
    <3>2. cw_watch.hash \in Int /\ cw_watch.config \in Int
      BY <1>1 DEF WatchInv, ReloadStates
    <3> QED BY <1>1, <2>1, <3>1, <3>2 DEF Raceless
  <2> QED BY <1>4, <2>1, <2>2 DEF Edit, WatchInv
<1>5. CASE Poll
  <2>1. /\ UNCHANGED <<cw_file, cw_hash, cw_applied, cw_manual, cw_raced>>
        /\ cw_watch.at = "sleep" /\ cw_manual.at # "loaded"
    BY <1>5 DEF Poll
  <2>2. \/ cw_watch' = Asleep
        \/ /\ cw_watch' \in ReloadStates /\ cw_watch'.at = "hashed"
           /\ cw_watch'.hash <= cw_file
    BY <1>1, <1>5 DEF Poll, At, ReloadStates, WatchInv, Hashes
  <2>3. ~cw_raced => Raceless'
    BY <1>2, <2>1, <2>2 DEF WatchInv, Raceless
  <2> QED BY <1>2, <2>1, <2>2, <2>3 DEF WatchInv
<1>6. CASE Load
  <2>1. /\ UNCHANGED <<cw_file, cw_applied, cw_manual>> /\ cw_watch.at = "hashed"
        /\ ~cw_raced' => ~cw_raced /\ cw_manual.at # "applying"
    BY <1>6 DEF Load
  <2>2. CASE loads(cw_file)
    <3>1. /\ cw_hash' = cw_watch.hash /\ cw_watch' \in ReloadStates /\ cw_watch'.at = "applying"
          /\ cw_watch'.config = cw_file
      BY <1>6, <2>2 DEF Load, At, ReloadStates, Hashes, WatchInv
    <3>2. cw_watch.hash \in Hashes /\ cw_watch.hash \in Int
      BY <1>1 DEF WatchInv, ReloadStates
    <3>3. ASSUME ~cw_raced' PROVE Raceless'
      <4>1. Raceless /\ cw_manual.at \in {"sleep", "hashed", "loaded", "applying"} /\ cw_manual.at # "hashed"
        BY <2>1, <3>3 DEF WatchInv, ReloadStates
      <4>2. cw_manual.at = "sleep" /\ cw_watch.hash <= cw_file
        BY <2>1, <3>3, <4>1 DEF Raceless
      <4> QED BY <1>1, <2>1, <3>1, <3>2, <4>2 DEF Raceless
    <3> QED BY <2>1, <3>1, <3>2, <3>3 DEF WatchInv
  <2>3. CASE ~loads(cw_file)
    <3>1. cw_watch' = Asleep /\ UNCHANGED cw_hash
      BY <1>6, <2>3 DEF Load
    <3>2. ~cw_raced' => Raceless'
      BY <1>2, <2>1, <3>1 DEF WatchInv, Raceless
    <3> QED BY <1>2, <2>1, <3>1, <3>2 DEF WatchInv
  <2> QED BY <2>2, <2>3
<1>7. CASE Apply
  <2>1. /\ UNCHANGED <<cw_file, cw_hash, cw_manual, cw_raced>> /\ cw_watch.at = "applying"
        /\ cw_applied' = IF cw_watch.config \in Refused THEN cw_applied ELSE cw_watch.config
        /\ cw_watch' = Asleep
    BY <1>7 DEF Apply
  <2>2. cw_watch.config \in Versions /\ cw_watch.config \in Int
    BY <1>1, <2>1 DEF WatchInv
  <2>3. ~cw_raced => Raceless'
    BY <1>1, <1>2, <2>1, <2>2 DEF WatchInv, Raceless, good
  <2> QED BY <1>2, <2>1, <2>2, <2>3 DEF WatchInv
<1>8. CASE ManualLoad
  <2>1. /\ UNCHANGED <<cw_file, cw_hash, cw_applied, cw_watch>> /\ loads(cw_file)
        /\ cw_manual.at = "sleep" /\ cw_watch.at # "hashed"
        /\ ~cw_raced' => ~cw_raced /\ cw_watch.at # "applying"
    BY <1>8 DEF ManualLoad
  <2>2. cw_manual' \in ReloadStates /\ cw_manual'.at = "loaded" /\ cw_manual'.config = cw_file
    BY <1>8 DEF ManualLoad, At, ReloadStates, Hashes, WatchInv
  <2>3. ~cw_raced' => Raceless'
    <3>1. cw_watch.at \in {"sleep", "hashed", "loaded", "applying"}
      BY DEF WatchInv, ReloadStates
    <3> QED BY <2>1, <2>2, <3>1 DEF WatchInv, Raceless
  <2> QED BY <2>1, <2>2, <2>3 DEF WatchInv
<1>9. CASE ManualHash
  <2>1. /\ UNCHANGED <<cw_file, cw_applied, cw_watch, cw_raced>> /\ cw_manual.at = "loaded"
        /\ cw_hash' = _file_hash(cw_file)
    BY <1>9 DEF ManualHash
  <2>2. /\ cw_manual' \in ReloadStates /\ cw_manual'.at = "applying"
        /\ cw_manual'.config = cw_manual.config
    BY <1>9 DEF ManualHash, At, ReloadStates, Hashes, WatchInv
  <2>3. cw_hash' \in Hashes
    BY <1>1, <2>1 DEF WatchInv
  <2>4. ~cw_raced => Raceless'
    BY <1>1, <2>1, <2>2 DEF WatchInv, Raceless
  <2> QED BY <2>1, <2>2, <2>3, <2>4 DEF WatchInv
<1>10. CASE ManualApply
  <2>1. /\ UNCHANGED <<cw_file, cw_hash, cw_watch, cw_raced>> /\ cw_manual.at = "applying"
        /\ cw_applied' = IF cw_manual.config \in Refused THEN cw_applied ELSE cw_manual.config
        /\ cw_manual' = Asleep
    BY <1>10 DEF ManualApply
  <2>2. cw_manual.config \in Versions
    BY <2>1 DEF WatchInv
  <2>3. ~cw_raced => Raceless'
    BY <1>1, <1>2, <2>1, <2>2 DEF WatchInv, Raceless, good
  <2> QED BY <1>2, <2>1, <2>2, <2>3 DEF WatchInv
<1> QED BY <1>3, <1>4, <1>5, <1>6, <1>7, <1>8, <1>9, <1>10 DEF CwNext

LEMMA WatchSound == WatchInv => HashIsApplied /\ CwTypeOK
  BY DEF WatchInv, Raceless, HashIsApplied, CwTypeOK, Asleep, At, ReloadStates, Hashes

-----------------------------------------------------------------------------
\* A setting that has been written is in the file, or somebody else's write is
\* under way or has been, with what was read before.
ConfigInv ==
    /\ file \in Contents \cup {BadFile}
    /\ configs \in Seq(Contents) /\ Len(configs) > 0
    /\ routed.from = Len(configs) /\ routed.models \subseteq CsModels
    /\ update \in [Updates -> [at : {"new", "read", "truncate", "write", "done", "failed"},
                               raw : Contents]]
    /\ ~edited => \A u \in Updates : update[u].at = "done" =>
         \/ FieldOf[u] \in file.set
         \/ \E w \in Updates \ {u} :
              \/ update[w].at = "write"
              \/ update[w].at = "done" /\ FieldOf[u] \notin update[w].raw.set

LEMMA ConfigStart == CsInit => ConfigInv
<1> SUFFICES ASSUME CsInit PROVE ConfigInv
  OBVIOUS
<1>1. file \in Contents /\ Empty \in Contents
  BY DEF CsInit, Contents, Empty
<1>2. configs \in Seq(Contents) /\ Len(configs) = 1
  BY <1>1 DEF CsInit
<1>3. routed.from = 1 /\ routed.models \subseteq CsModels
  BY DEF CsInit, build_router
<1>4. update \in [Updates -> [at : {"new", "read", "truncate", "write", "done", "failed"}, raw : Contents]]
      /\ \A u \in Updates : update[u].at = "new"
  BY <1>1 DEF CsInit
<1> QED BY <1>1, <1>2, <1>3, <1>4 DEF ConfigInv

\* A change of the configuration in use.
LEMMA ChangedLive ==
    ASSUME ConfigInv, NEW c \in Contents, configs' = [configs EXCEPT ![Current] = c]
    PROVE  configs' \in Seq(Contents) /\ Len(configs') = Len(configs)
  BY DEF ConfigInv, Current

LEMMA ConfigStep == ConfigInv /\ [CsNext]_csvars => ConfigInv'
<1> SUFFICES ASSUME ConfigInv, [CsNext]_csvars PROVE ConfigInv'
  OBVIOUS
<1>1. configs[Current] \in Contents
  <2>1. configs \in Seq(Contents) /\ Current \in 1 .. Len(configs)
    BY DEF ConfigInv, Current
  <2> QED BY <2>1 DEF Current
<1>2. CASE UNCHANGED csvars
  BY <1>2 DEF csvars, ConfigInv
<1>3. ASSUME NEW content \in Edits, EditFile(content) PROVE ConfigInv'
  BY <1>3, EditsAssumption DEF EditFile, ConfigInv
<1>4. ASSUME NEW n \in 2 .. MaxLoads, Reload(n) PROVE ConfigInv'
  <2>1. /\ file \in Contents /\ n = Len(configs) + 1 /\ configs' = Append(configs, file)
        /\ routed' = build_router(n, file) /\ UNCHANGED <<file, update, edited>>
    BY <1>4 DEF Reload, ConfigInv, Current
  <2>2. configs' \in Seq(Contents) /\ Len(configs') = Len(configs) + 1 /\ Len(configs') > 0
    BY <2>1 DEF ConfigInv
  <2>3. routed'.from = n /\ routed'.models \subseteq CsModels
    BY <2>1 DEF build_router, Contents
  <2> QED BY <2>1, <2>2, <2>3 DEF ConfigInv
<1>5. ASSUME NEW u \in Updates, UpdateLive(u) PROVE ConfigInv'
  <2>1. /\ configs' = [configs EXCEPT ![Current].set = @ \cup {FieldOf[u]}]
        /\ update[u].at = "new" /\ update' = [update EXCEPT ![u].at = "read"]
        /\ UNCHANGED <<file, routed, edited>>
    BY <1>5 DEF UpdateLive
  <2>2. [configs[Current] EXCEPT !.set = @ \cup {FieldOf[u]}] \in Contents
    BY <1>1, CsAssumption DEF Contents
  <2>3. configs' \in Seq(Contents) /\ Len(configs') = Len(configs)
    BY <2>1, <2>2, ChangedLive
  <2>4. /\ update' \in [Updates -> [at : {"new", "read", "truncate", "write", "done", "failed"},
                                    raw : Contents]]
        /\ \A w \in Updates : w # u => update'[w] = update[w]
        /\ update'[u].at = "read"
    BY <2>1 DEF ConfigInv
  <2> QED BY <2>1, <2>3, <2>4 DEF ConfigInv
<1>6. ASSUME NEW u \in Updates, UpdateRead(u) PROVE ConfigInv'
  <2>1. /\ update[u].at = "read" /\ UNCHANGED <<file, configs, routed, edited>>
        /\ \/ update' = [update EXCEPT ![u] = [at |-> "failed", raw |-> Empty]]
           \/ file \in Contents /\ update' = [update EXCEPT ![u] = [at |-> "truncate", raw |-> file]]
    BY <1>6 DEF UpdateRead, ConfigInv
  <2>2. Empty \in Contents
    BY DEF Empty, Contents
  <2>3. /\ update' \in [Updates -> [at : {"new", "read", "truncate", "write", "done", "failed"},
                                    raw : Contents]]
        /\ \A w \in Updates : w # u => update'[w] = update[w]
        /\ update'[u].at \in {"failed", "truncate"}
    BY <2>1, <2>2 DEF ConfigInv
  <2> QED BY <2>1, <2>3 DEF ConfigInv
<1>7. ASSUME NEW u \in Updates, UpdateTruncate(u) PROVE ConfigInv'
  <2>1. /\ update[u].at = "truncate" /\ file' = Empty /\ Empty \in Contents
        /\ update' = [update EXCEPT ![u].at = "write"]
        /\ UNCHANGED <<configs, routed, edited>>
    BY <1>7 DEF UpdateTruncate, Empty, Contents
  <2>2. /\ update' \in [Updates -> [at : {"new", "read", "truncate", "write", "done", "failed"},
                                    raw : Contents]]
        /\ \A w \in Updates : w # u => update'[w] = update[w]
        /\ update'[u].at = "write"
    BY <2>1 DEF ConfigInv
  <2>3. \A w \in Updates : update'[w].at = "done" => u \in Updates \ {w}
    BY <2>2
  <2> QED BY <2>1, <2>2, <2>3 DEF ConfigInv
<1>8. ASSUME NEW u \in Updates, UpdateWrite(u) PROVE ConfigInv'
  <2>1. /\ update[u].at = "write" /\ file' = [update[u].raw EXCEPT !.set = @ \cup {FieldOf[u]}]
        /\ update' = [update EXCEPT ![u].at = "done"]
        /\ UNCHANGED <<configs, routed, edited>>
    BY <1>8 DEF UpdateWrite
  <2>2. update[u].raw \in Contents /\ FieldOf[u] \in Fields
    BY CsAssumption DEF ConfigInv
  <2>3. file' \in Contents /\ file'.set = update[u].raw.set \cup {FieldOf[u]}
    BY <2>1, <2>2 DEF Contents
  <2>4. /\ update' \in [Updates -> [at : {"new", "read", "truncate", "write", "done", "failed"},
                                    raw : Contents]]
        /\ \A w \in Updates : w # u => update'[w] = update[w]
        /\ update'[u].at = "done" /\ update'[u].raw = update[u].raw
    BY <2>1 DEF ConfigInv
  <2>5. \A w \in Updates : update'[w].at = "done" =>
           \/ FieldOf[w] \in file'.set
           \/ \E x \in Updates \ {w} : update'[x].at = "done" /\ FieldOf[w] \notin update'[x].raw.set
    <3> TAKE w \in Updates
    <3>1. CASE w = u
      BY <2>3, <3>1
    <3>2. CASE w # u
      BY <2>3, <2>4, <3>2
    <3> QED BY <3>1, <3>2
  <2> QED BY <2>1, <2>3, <2>4, <2>5 DEF ConfigInv
<1>9. ASSUME NEW m \in CsModels, AddModel(m) \/ DeleteModel(m) PROVE ConfigInv'
  <2>1. /\ UNCHANGED <<file, routed, update, edited>>
        /\ \/ configs' = [configs EXCEPT ![Current].models = @ \cup {m}]
           \/ configs' = [configs EXCEPT ![Current].models = @ \ {m}]
    BY <1>9 DEF AddModel, DeleteModel
  <2>2. /\ [configs[Current] EXCEPT !.models = @ \cup {m}] \in Contents
        /\ [configs[Current] EXCEPT !.models = @ \ {m}] \in Contents
    BY <1>1 DEF Contents
  <2>3. configs' \in Seq(Contents) /\ Len(configs') = Len(configs)
    BY <2>1, <2>2, ChangedLive
  <2> QED BY <2>1, <2>3 DEF ConfigInv
<1> QED BY <1>2, <1>3, <1>4, <1>5, <1>6, <1>7, <1>8, <1>9 DEF CsNext

LEMMA ConfigSound == ConfigInv => RouterFromConfig /\ LostOnlyToOverlap /\ CsTypeOK
<1> SUFFICES ASSUME ConfigInv PROVE RouterFromConfig /\ LostOnlyToOverlap /\ CsTypeOK
  OBVIOUS
<1>1. configs \in Seq(Contents) /\ DOMAIN configs = 1 .. Len(configs) /\ Len(configs) \in Nat
  BY DEF ConfigInv
<1>2. CsTypeOK
  BY <1>1 DEF ConfigInv, CsTypeOK
<1>3. RouterFromConfig /\ LostOnlyToOverlap
  BY DEF ConfigInv, RouterFromConfig, LostOnlyToOverlap, Current
<1> QED BY <1>2, <1>3

-----------------------------------------------------------------------------
(* The keys of JWTs.                                                       *)

Kids == 1 .. LastKid
Verifications == [at : {"idle", "fetching", "answered"}, token : Bearers \cup {0},
                  keys : SUBSET Kids, due : 0 .. RefreshInterval]

\* The claims of a token are cached for no longer than the rest of cache_ttl
\* after its exp.
JwtInv ==
    /\ published \subseteq Kids /\ published # {} /\ jwks \subseteq Kids
    /\ kid \in [Bearers -> Kids \cup {0}]
    /\ left \in [Bearers -> -1 .. Life] /\ past \in [Bearers -> Nat]
    /\ cached \in [Bearers -> -1 .. CacheTtl] /\ wait \in 0 .. RefreshInterval
    /\ verify \in [Verifiers -> Verifications]
    /\ \A v \in Verifiers : verify[v].at # "idle" => verify[v].token \in Bearers
    /\ accepted \subseteq Bearers
    /\ \A t \in Bearers : /\ left[t] >= 0 => past[t] = 0
                          /\ cached[t] >= 0 => past[t] + cached[t] <= CacheTtl
                          /\ t \in accepted => left[t] >= 0 \/ cached[t] >= 0

LEMMA NewestIn ==
    ASSUME NEW S \in SUBSET Kids, S # {}
    PROVE  Newest(S) \in S
<1>1. PICK T : T = {LastKid - k : k \in S}
  OBVIOUS
<1>2. LastKid \in Nat /\ \A k \in S : k \in Nat /\ LastKid - k \in Nat
  BY JwtAssumption DEF Kids
<1>3. T \subseteq Nat /\ T # {}
  BY <1>1, <1>2
<1>4. PICK i \in T : \A j \in T : i <= j
  BY <1>3, LeastOf
<1>5. PICK k \in S : i = LastKid - k
  BY <1>1
<1>6. ASSUME NEW j \in S PROVE j <= k
  <2>1. LastKid - j \in T
    BY <1>1
  <2>2. i <= LastKid - j
    BY <1>4, <2>1
  <2>3. j \in Nat /\ k \in Nat
    BY <1>2
  <2> QED BY <1>2, <1>5, <2>2, <2>3
<1> QED BY <1>6, Zenon DEF Newest

LEMMA TokensStart == JwtInit => JwtInv
<1> SUFFICES ASSUME JwtInit PROVE JwtInv
  OBVIOUS
<1>1. Idle \in Verifications /\ Idle.at = "idle"
  BY JwtAssumption DEF Idle, Verifications
<1>2. {1} \subseteq Kids
  BY JwtAssumption DEF Kids
<1> QED BY <1>1, <1>2, JwtAssumption DEF JwtInit, JwtInv

\* An expired token is refused, and the claims of another are as good as new.
LEMMA DecodeKeeps ==
    ASSUME JwtInv, NEW v, NEW t \in Bearers, Decode(v, t), UNCHANGED <<published, kid, left, past>>,
           jwks' \subseteq Kids, wait' \in 0 .. RefreshInterval, verify' \in [Verifiers -> Verifications],
           \A w \in Verifiers : verify'[w].at # "idle" => verify'[w].token \in Bearers
    PROVE  JwtInv'
<1>1. CASE left[t] >= 0
  <2>1. cached' = [cached EXCEPT ![t] = CacheTtl] /\ accepted' = accepted \cup {t} /\ past[t] = 0
    BY <1>1 DEF Decode, JwtInv
  <2>2. CacheTtl \in -1 .. CacheTtl /\ 0 + CacheTtl <= CacheTtl /\ 0 <= CacheTtl
    BY JwtAssumption
  <2>3. cached' \in [Bearers -> -1 .. CacheTtl]
        /\ \A u \in Bearers : cached'[u] = IF u = t THEN CacheTtl ELSE cached[u]
    BY <2>1, <2>2 DEF JwtInv
  <2>4. \A u \in Bearers : /\ cached'[u] >= 0 => past[u] + cached'[u] <= CacheTtl
                           /\ u \in accepted' => left[u] >= 0 \/ cached'[u] >= 0
    BY <1>1, <2>1, <2>2, <2>3 DEF JwtInv
  <2> QED BY <2>1, <2>3, <2>4 DEF JwtInv
<1>2. CASE ~(left[t] >= 0)
  BY <1>2 DEF Decode, JwtInv
<1> QED BY <1>1, <1>2

LEMMA TickKeeps == JwtInv /\ JwtTick => JwtInv'
<1> SUFFICES ASSUME JwtInv, JwtTick PROVE JwtInv'
  OBVIOUS
<1>1. /\ accepted' = {} /\ UNCHANGED <<published, kid, jwks>>
      /\ left' = [t \in Bearers |-> IF kid[t] # 0 /\ left[t] >= 0 THEN left[t] - 1 ELSE left[t]]
      /\ past' = [t \in Bearers |-> IF left[t] < 1 /\ past[t] <= CacheTtl /\ kid[t] # 0
                                    THEN past[t] + 1 ELSE past[t]]
      /\ cached' = [t \in Bearers |-> IF cached[t] >= 0 THEN cached[t] - 1 ELSE cached[t]]
      /\ wait' = IF wait > 0 THEN wait - 1 ELSE 0
      /\ verify' = [v \in Verifiers |-> [verify[v] EXCEPT !.due = IF @ > 0 THEN @ - 1 ELSE 0]]
  BY DEF JwtTick
<1>2. ASSUME NEW t \in Bearers
      PROVE  /\ left'[t] \in -1 .. Life /\ past'[t] \in Nat /\ cached'[t] \in -1 .. CacheTtl
             /\ left'[t] >= 0 => past'[t] = 0
             /\ cached'[t] >= 0 => past'[t] + cached'[t] <= CacheTtl
  <2>1. /\ left[t] \in -1 .. Life /\ past[t] \in Nat /\ cached[t] \in -1 .. CacheTtl
        /\ left[t] >= 0 => past[t] = 0
        /\ cached[t] >= 0 => past[t] + cached[t] <= CacheTtl
    BY DEF JwtInv
  <2>2. /\ left'[t] = IF kid[t] # 0 /\ left[t] >= 0 THEN left[t] - 1 ELSE left[t]
        /\ past'[t] = IF left[t] < 1 /\ past[t] <= CacheTtl /\ kid[t] # 0 THEN past[t] + 1 ELSE past[t]
        /\ cached'[t] = IF cached[t] >= 0 THEN cached[t] - 1 ELSE cached[t]
    BY <1>1
  <2> QED BY <2>1, <2>2, JwtAssumption
<1>3. wait' \in 0 .. RefreshInterval
  BY <1>1, JwtAssumption DEF JwtInv
<1>4. ASSUME NEW v \in Verifiers
      PROVE  verify'[v] \in Verifications /\ verify'[v].at = verify[v].at /\ verify'[v].token = verify[v].token
  <2>1. verify[v] \in Verifications /\ verify[v].due \in 0 .. RefreshInterval
    BY DEF JwtInv, Verifications
  <2>2. PICK n \in 0 .. RefreshInterval : n = IF verify[v].due > 0 THEN verify[v].due - 1 ELSE 0
    BY <2>1, JwtAssumption
  <2>3. verify'[v] = [verify[v] EXCEPT !.due = n]
    BY <1>1, <2>2
  <2> QED BY <2>1, <2>3 DEF Verifications
<1> QED BY <1>1, <1>2, <1>3, <1>4 DEF JwtInv

LEMMA TokensStep == JwtInv /\ [JwtNext]_jwtvars => JwtInv'
<1> SUFFICES ASSUME JwtInv, [JwtNext]_jwtvars PROVE JwtInv'
  OBVIOUS
<1>1. Idle \in Verifications /\ Idle.at = "idle"
  BY JwtAssumption DEF Idle, Verifications
<1>2. ASSUME NEW v \in Verifiers, verify' = [verify EXCEPT ![v] = Idle]
      PROVE  /\ verify' \in [Verifiers -> Verifications]
             /\ \A w \in Verifiers : verify'[w].at # "idle" => verify'[w].token \in Bearers
  BY <1>1, <1>2 DEF JwtInv
<1>3. Newest(published) \in published
  BY NewestIn DEF JwtInv
<1>4. CASE UNCHANGED jwtvars
  BY <1>4 DEF jwtvars, JwtInv
<1>5. ASSUME NEW t \in Bearers, Issue(t) PROVE JwtInv'
  BY <1>3, <1>5 DEF Issue, JwtInv
<1>6. CASE AddKid
  <2>1. Newest(published) + 1 \in Kids
    <3>1. Newest(published) \in Kids /\ Newest(published) < LastKid
      BY <1>3, <1>6 DEF AddKid, JwtInv
    <3> QED BY <3>1, JwtAssumption DEF Kids
  <2> QED BY <1>6, <2>1 DEF AddKid, JwtInv
<1>7. CASE RetireKid
  BY <1>3, <1>7 DEF RetireKid, JwtInv
<1>8. ASSUME NEW v \in Verifiers, NEW t \in Bearers, CacheHit(v, t) PROVE JwtInv'
  BY <1>8 DEF CacheHit, JwtInv
<1>9. ASSUME NEW v \in Verifiers, NEW t \in Bearers, KnownKey(v, t) PROVE JwtInv'
  <2>1. Decode(v, t) /\ UNCHANGED <<published, kid, left, past, jwks, wait, verify>>
    BY <1>9 DEF KnownKey
  <2> QED BY <2>1, DecodeKeeps DEF JwtInv
<1>10. ASSUME NEW v \in Verifiers, NEW t \in Bearers, UnknownKey(v, t) PROVE JwtInv'
  <2>1. /\ UNCHANGED <<published, kid, left, past, jwks, wait, cached>> /\ accepted' \subseteq accepted
        /\ UNCHANGED verify \/ verify' = [verify EXCEPT ![v] = Fetching(t)]
    BY <1>10 DEF UnknownKey
  <2>2. Fetching(t) \in Verifications /\ Fetching(t).token = t
    BY JwtAssumption DEF Fetching, Verifications
  <2> QED BY <2>1, <2>2 DEF JwtInv
<1>11. ASSUME NEW v \in Verifiers, Answer(v) PROVE JwtInv'
  <2>1. /\ UNCHANGED <<published, kid, left, past, jwks, wait, cached, accepted>>
        /\ verify' = [verify EXCEPT ![v].at = "answered", ![v].keys = published]
        /\ verify[v].at = "fetching"
    BY <1>11 DEF Answer
  <2>2. verify' \in [Verifiers -> Verifications]
        /\ \A w \in Verifiers : verify'[w].token = verify[w].token /\ (w # v => verify'[w] = verify[w])
    <3>1. verify \in [Verifiers -> Verifications] /\ published \in SUBSET Kids
      BY DEF JwtInv
    <3>2. \A w \in Verifiers : w # v => verify'[w] = verify[w]
      BY <2>1, <3>1
    <3>3. verify'[v].token = verify[v].token /\ verify'[v] \in Verifications
      BY <2>1, <3>1 DEF Verifications
    <3>4. verify' = [w \in Verifiers |-> verify'[w]]
      BY <2>1, <3>1
    <3> QED BY <3>1, <3>2, <3>3, <3>4
  <2> QED BY <2>1, <2>2 DEF JwtInv
<1>12. ASSUME NEW v \in Verifiers, FetchFails(v) PROVE JwtInv'
  <2>1. /\ UNCHANGED <<published, kid, left, past, jwks, wait, cached>> /\ accepted' \subseteq accepted
        /\ verify' = [verify EXCEPT ![v] = Idle]
    BY <1>12 DEF FetchFails
  <2> QED BY <1>2, <2>1 DEF JwtInv
<1>13. ASSUME NEW v \in Verifiers, Refreshed(v) PROVE JwtInv'
  <2>1. PICK t \in Bearers : t = verify[v].token
    BY <1>13 DEF Refreshed, JwtInv
  <2>2. /\ verify' = [verify EXCEPT ![v] = Idle] /\ UNCHANGED <<published, kid, left, past>>
        /\ jwks' \subseteq Kids /\ wait' \in 0 .. RefreshInterval
    BY <1>13 DEF Refreshed, JwtInv, Verifications
  <2>3. Decode(v, t) \/ (accepted' = accepted \ {t} /\ UNCHANGED cached)
    BY <1>13, <2>1 DEF Refreshed
  <2>4. CASE Decode(v, t)
    BY <1>2, <2>2, <2>4, DecodeKeeps
  <2>5. CASE accepted' = accepted \ {t} /\ UNCHANGED cached
    BY <1>2, <2>2, <2>5 DEF JwtInv
  <2> QED BY <2>3, <2>4, <2>5
<1>14. CASE JwtTick
  BY <1>14, TickKeeps
<1> QED BY <1>4, <1>5, <1>6, <1>7, <1>8, <1>9, <1>10, <1>11, <1>12, <1>13, <1>14 DEF JwtNext, Verify

LEMMA TokensSound == JwtInv => ExpiredOnlyFromCache /\ JwtTypeOK
  BY DEF JwtInv, ExpiredOnlyFromCache, JwtTypeOK, Kids

-----------------------------------------------------------------------------
(* The level of degradation, and the choice of a region.                   *)

LEMMA ProductGrows ==
    ASSUME NEW a \in Nat, NEW x \in Nat, NEW y \in Nat, x <= y
    PROVE  x * a <= y * a
<1>1. PICK d \in Nat : y = x + d
  BY y - x \in Nat
<1>2. d * a \in Nat /\ y * a = x * a + d * a
  BY <1>1
<1> QED BY <1>2

-----------------------------------------------------------------------------
\* The level is the one measured, until somebody sets it by hand.
DegradationInv ==
    /\ globalLevel \in Levels /\ providerLevel \in [Providers -> Levels]
    /\ measured # NoMeasure => \E n \in Nat, u \in Nat : /\ measured = <<n, u>>
                                                         /\ globalLevel = level_for(n, u)

LEMMA LevelKnown == \A n, u : level_for(n, u) \in Levels
  BY DEF level_for, Levels, Normal, Degraded, Limited, Emergency

LEMMA DegradationStart == DgInit => DegradationInv
  BY DEF DgInit, DegradationInv, Levels, Normal

LEMMA DegradationStep == DegradationInv /\ [DgNext]_dgvars => DegradationInv'
<1> SUFFICES ASSUME DegradationInv, [DgNext]_dgvars PROVE DegradationInv'
  OBVIOUS
<1>1. ASSUME NEW n \in 1..5, NEW u \in 0..5, AutoEscalate(n, u) PROVE DegradationInv'
  <2>1. globalLevel' = level_for(n, u) /\ measured' = <<n, u>> /\ UNCHANGED providerLevel
    BY <1>1 DEF AutoEscalate
  <2>2. n \in Nat /\ u \in Nat
    OBVIOUS
  <2>3. \E a \in Nat, b \in Nat : measured' = <<a, b>> /\ globalLevel' = level_for(a, b)
    BY <2>1, <2>2
  <2> QED BY <2>1, <2>3, LevelKnown DEF DegradationInv
<1>2. ASSUME NEW l \in Levels, SetGlobalLevel(l) PROVE DegradationInv'
  BY <1>2 DEF SetGlobalLevel, DegradationInv
<1>3. ASSUME NEW l \in Levels, NEW p \in Providers, SetProviderLevel(p, l) PROVE DegradationInv'
  BY <1>3 DEF SetProviderLevel, DegradationInv
<1>4. CASE UNCHANGED dgvars
  BY <1>4 DEF dgvars, DegradationInv
<1> QED BY <1>1, <1>2, <1>3, <1>4 DEF DgNext

\* The level as a number is the number of thresholds that are reached.
LEMMA Reached ==
    ASSUME NEW n \in Nat, NEW u \in Nat
    PROVE  /\ level_for(n, u) = Cardinality({l \in 1..3 : u * 100 >= Thresholds[l] * n})
           /\ level_for(n, u) = Emergency <=> u * 100 >= Thresholds[3] * n
           /\ level_for(n, u) \in {Degraded, Limited}
                <=> u * 100 >= Thresholds[1] * n /\ ~(u * 100 >= Thresholds[3] * n)
           /\ level_for(n, u) = Limited
                <=> u * 100 >= Thresholds[2] * n /\ ~(u * 100 >= Thresholds[3] * n)
<1> DEFINE R == {l \in 1..3 : u * 100 >= Thresholds[l] * n}
<1>1. PICK a \in Nat, b \in Nat, c \in Nat, m \in Nat :
         /\ a = Thresholds[1] * n /\ b = Thresholds[2] * n /\ c = Thresholds[3] * n
         /\ m = u * 100 /\ a <= b /\ b <= c
  <2>1. /\ Thresholds[1] \in Nat /\ Thresholds[2] \in Nat /\ Thresholds[3] \in Nat
        /\ Thresholds[1] <= Thresholds[2] /\ Thresholds[2] <= Thresholds[3]
    BY DegradationAssumption
  <2>2. Thresholds[1] * n <= Thresholds[2] * n /\ Thresholds[2] * n <= Thresholds[3] * n
    BY <2>1, ProductGrows
  <2>3. Thresholds[1] * n \in Nat /\ Thresholds[2] * n \in Nat /\ Thresholds[3] * n \in Nat /\ u * 100 \in Nat
    BY <2>1
  <2> QED BY <2>2, <2>3
<1>2. level_for(n, u) = IF m >= c THEN 3 ELSE IF m >= b THEN 2 ELSE IF m >= a THEN 1 ELSE 0
  BY <1>1 DEF level_for, Normal, Degraded, Limited, Emergency
<1>3. R = {l \in 1..3 : (l = 1 /\ m >= a) \/ (l = 2 /\ m >= b) \/ (l = 3 /\ m >= c)}
  BY <1>1
<1>8. Cardinality(1..1) = 1 /\ Cardinality(1..2) = 2 /\ Cardinality(1..3) = 3
  <2>1. \A k \in 1..3 : Cardinality(1..k) = k
    <3> TAKE k \in 1..3
    <3>1. Cardinality(1..k) = IF 1 > k THEN 0 ELSE k - 1 + 1
      BY FS_Interval
    <3> QED BY <3>1
  <2> QED BY <2>1
<1>4. Cardinality(R) = level_for(n, u)
  <2>1. CASE m >= c
    <3>1. R = 1..3
      BY <1>1, <1>3, <2>1
    <3> QED BY <1>2, <2>1, <3>1, <1>8
  <2>2. CASE m >= b /\ ~(m >= c)
    <3>1. R = 1..2
      BY <1>1, <1>3, <2>2
    <3> QED BY <1>2, <2>2, <3>1, <1>8
  <2>3. CASE m >= a /\ ~(m >= b)
    <3>1. R = 1..1 /\ ~(m >= c)
      BY <1>1, <1>3, <2>3
    <3> QED BY <1>2, <2>3, <3>1, <1>8
  <2>4. CASE ~(m >= a)
    <3>1. R = {} /\ ~(m >= c) /\ ~(m >= b)
      BY <1>1, <1>3, <2>4
    <3> QED BY <1>2, <2>4, <3>1, FS_EmptySet
  <2> QED BY <2>1, <2>2, <2>3, <2>4
<1> HIDE DEF R
<1>5. level_for(n, u) = 3 <=> m >= c
  BY <1>2
<1>6. (level_for(n, u) = 1 \/ level_for(n, u) = 2) <=> m >= a /\ ~(m >= c)
  BY <1>1, <1>2
<1>7. level_for(n, u) = 2 <=> m >= b /\ ~(m >= c)
  BY <1>1, <1>2
<1> QED BY <1>1, <1>4, <1>5, <1>6, <1>7 DEF R, Degraded, Limited, Emergency

LEMMA DegradationSound == DegradationInv => EscalationExact
<1> SUFFICES ASSUME DegradationInv, measured # NoMeasure
             PROVE  /\ globalLevel = Cardinality({l \in 1..3 : measured[2] * 100 >= Thresholds[l] * measured[1]})
                    /\ \A p \in Providers :
                         should_reject(p) <=> \/ measured[2] * 100 >= Thresholds[3] * measured[1]
                                              \/ providerLevel[p] = Emergency
                    /\ (/\ measured[2] * 100 >= Thresholds[1] * measured[1]
                        /\ ~(measured[2] * 100 >= Thresholds[3] * measured[1])) => \A p \in Providers : should_queue(p)
                    /\ is_streaming_allowed <=> (\/ ~(measured[2] * 100 >= Thresholds[2] * measured[1])
                                                 \/ measured[2] * 100 >= Thresholds[3] * measured[1])
  BY DEF EscalationExact
<1>1. PICK n \in Nat, u \in Nat : measured = <<n, u>> /\ globalLevel = level_for(n, u)
  BY DEF DegradationInv
<1>2. measured[1] = n /\ measured[2] = u
  BY <1>1
<1> QED BY <1>1, <1>2, Reached DEF should_reject, rejects, should_queue, queues, is_streaming_allowed, streams

-----------------------------------------------------------------------------
DeploymentType == [region : Regions, weight : Nat, healthy : BOOLEAN]

Foremost(i) == \A j \in 1 .. (i - 1) : deployments[j].region # deployments[i].region

\* The first deployment of a region is healthy unless the region is marked, the
\* others always are, and a region that is marked has a deployment.
RegionsInv ==
    /\ deployments \in Seq(DeploymentType)
    /\ \A i \in DOMAIN deployments :
          deployments[i].healthy <=> ~Foremost(i) \/ deployments[i].region \notin marked
    /\ \A r \in marked : \E i \in DOMAIN deployments : deployments[i].region = r

LEMMA RegionsStart == RgInit => RegionsInv
  BY DEF RgInit, RegionsInv

LEMMA RegionsStep == RegionsInv /\ [RgNext]_rgvars => RegionsInv'
<1> SUFFICES ASSUME RegionsInv, [RgNext]_rgvars PROVE RegionsInv'
  OBVIOUS
<1>0. /\ deployments \in Seq(DeploymentType) /\ Len(deployments) \in Nat
      /\ DOMAIN deployments = 1 .. Len(deployments)
      /\ \A i \in DOMAIN deployments : deployments[i] \in DeploymentType
  BY DEF RegionsInv
<1>1. CASE UNCHANGED rgvars
  BY <1>1 DEF rgvars, RegionsInv, Foremost
<1>2. ASSUME NEW r \in Regions, NEW w \in Weights, AddProviderRegion(r, w) PROVE RegionsInv'
  <2>1. PICK d \in DeploymentType, n \in Nat :
           /\ d.region = r /\ d.healthy = TRUE /\ n = Len(deployments)
           /\ deployments' = Append(deployments, d) /\ UNCHANGED marked
    <3>1. w \in Nat
      BY RegionAssumption
    <3>2. [region |-> r, weight |-> w, healthy |-> TRUE] \in DeploymentType
      BY <3>1 DEF DeploymentType
    <3> QED BY <1>0, <1>2, <3>2 DEF AddProviderRegion
  <2>2. /\ deployments' \in Seq(DeploymentType) /\ Len(deployments') = n + 1
        /\ \A i \in 1 .. n : deployments'[i] = deployments[i]
        /\ deployments'[n + 1] = d
    BY <1>0, <2>1, AppendProperties
  <2>3. DOMAIN deployments' = 1 .. n + 1 /\ DOMAIN deployments = 1 .. n
    BY <1>0, <2>1, <2>2
  <2>4. \A i \in 1 .. n : Foremost(i)' <=> Foremost(i)
    <3> TAKE i \in 1 .. n
    <3>1. \A j \in 1 .. (i - 1) : j \in 1 .. n
      BY <2>1
    <3> QED BY <2>1, <2>2, <2>3, <3>1 DEF Foremost
  <2>5. ASSUME NEW i \in DOMAIN deployments'
        PROVE  deployments'[i].healthy <=> ~Foremost(i)' \/ deployments'[i].region \notin marked
    <3>1. CASE i \in 1 .. n
      BY <2>2, <2>3, <2>4, <3>1 DEF RegionsInv
    <3>2. CASE i = n + 1
      <4>1. Foremost(i)' => r \notin marked
        <5>1. ASSUME r \in marked, Foremost(i)' PROVE FALSE
          <6>1. PICK j \in DOMAIN deployments : deployments[j].region = r
            BY <5>1 DEF RegionsInv
          <6>2. j \in 1 .. (i - 1) /\ deployments'[j].region = r
            BY <2>1, <2>2, <2>3, <3>2, <6>1
          <6>3. deployments'[i].region = r
            BY <2>1, <2>2, <3>2
          <6> QED BY <5>1, <6>2, <6>3 DEF Foremost
        <5> QED BY <5>1
      <4> QED BY <2>1, <2>2, <3>2, <4>1
    <3> QED BY <2>1, <2>3, <3>1, <3>2
  <2>6. \A q \in marked : \E i \in DOMAIN deployments' : deployments'[i].region = q
    <3> TAKE q \in marked
    <3>1. PICK i \in 1 .. n : deployments[i].region = q
      BY <2>3 DEF RegionsInv
    <3>2. i \in DOMAIN deployments'
      BY <2>1, <2>3
    <3> QED BY <2>2, <3>1, <3>2
  <2> QED BY <2>1, <2>2, <2>5, <2>6 DEF RegionsInv
<1>3. ASSUME NEW r \in Regions, NEW up \in BOOLEAN, SetHealth(r, up) PROVE RegionsInv'
  <2>1. /\ FirstOf(r) # {}
        /\ deployments' = [i \in DOMAIN deployments |->
               IF i \in FirstOf(r) THEN [deployments[i] EXCEPT !.healthy = up] ELSE deployments[i]]
        /\ marked' = IF up THEN marked \ {r} ELSE marked \cup {r}
    BY <1>3 DEF SetHealth
  <2>2. DOMAIN deployments' = DOMAIN deployments
        /\ \A i \in DOMAIN deployments :
             /\ deployments'[i] \in DeploymentType
             /\ deployments'[i].region = deployments[i].region
             /\ deployments'[i].healthy = IF i \in FirstOf(r) THEN up ELSE deployments[i].healthy
    BY <1>0, <2>1 DEF DeploymentType
  <2>3. deployments' \in Seq(DeploymentType)
    <3>1. deployments' = [i \in 1 .. Len(deployments) |-> deployments'[i]]
      BY <1>0, <2>1
    <3> QED BY <1>0, <2>2, <3>1
  <2>4. \A i \in DOMAIN deployments : Foremost(i)' <=> Foremost(i)
    <3> TAKE i \in DOMAIN deployments
    <3>1. \A j \in 1 .. (i - 1) : j \in DOMAIN deployments
      BY <1>0
    <3> QED BY <2>2, <3>1 DEF Foremost
  <2>7. \A i : i \in FirstOf(r) <=> i \in DOMAIN deployments /\ deployments[i].region = r /\ Foremost(i)
    BY DEF FirstOf, Foremost
  <2>5. ASSUME NEW i \in DOMAIN deployments
        PROVE  deployments'[i].healthy <=> ~Foremost(i) \/ deployments[i].region \notin marked'
    <3>1. CASE i \in FirstOf(r)
      <4>1. deployments[i].region = r /\ deployments'[i].healthy = up
        BY <2>2, <2>7, <3>1
      <4>2. up <=> r \notin marked'
        BY <2>1
      <4> QED BY <2>7, <3>1, <4>1, <4>2
    <3>2. CASE i \notin FirstOf(r)
      <4>1. deployments'[i].healthy = deployments[i].healthy
        BY <2>2, <3>2
      <4>2. Foremost(i) => deployments[i].region # r
        BY <2>7, <3>2
      <4>3. \A q : q # r => (q \in marked' <=> q \in marked)
        BY <2>1
      <4> QED BY <4>1, <4>2, <4>3 DEF RegionsInv
    <3> QED BY <3>1, <3>2
  <2>6. \A q \in marked' : \E i \in DOMAIN deployments' : deployments'[i].region = q
    <3> TAKE q \in marked'
    <3>1. q \in marked \/ q = r
      BY <2>1
    <3>2. \E i \in DOMAIN deployments : deployments[i].region = r
      BY <2>1, <2>7
    <3> QED BY <2>2, <3>1, <3>2 DEF RegionsInv
  <2> QED BY <2>2, <2>3, <2>4, <2>5, <2>6 DEF RegionsInv
<1> QED BY <1>1, <1>2, <1>3 DEF RgNext

-----------------------------------------------------------------------------

LEMMA DistanceNat == \A r, s : distance(r, s) \in Nat
<1>1. Far \in Nat
  BY SMT DEF Far
<1>2. \A x \in Configured \X Configured : Distance[x] \in 0 .. (Far - 1)
  BY RegionAssumption
<1>3. \A r, s : r \in Configured /\ s \in Configured => Distance[<<r, s>>] \in Nat
  <2> TAKE r, s
  <2>1. r \in Configured /\ s \in Configured => <<r, s>> \in Configured \X Configured
    OBVIOUS
  <2> QED BY <1>2, <2>1
<1> QED BY <1>1, <1>3 DEF distance

LEMMA WeightNat ==
    RegionsInv => /\ DOMAIN deployments = 1 .. Len(deployments) /\ Len(deployments) \in Nat
                  /\ \A i \in DOMAIN deployments : deployments[i].weight \in Nat
<1> SUFFICES ASSUME RegionsInv
             PROVE  /\ DOMAIN deployments = 1 .. Len(deployments) /\ Len(deployments) \in Nat
                    /\ \A i \in DOMAIN deployments : deployments[i].weight \in Nat
  OBVIOUS
<1>1. deployments \in Seq(DeploymentType)
  BY DEF RegionsInv
<1>2. DOMAIN deployments = 1 .. Len(deployments) /\ Len(deployments) \in Nat
      /\ \A i \in DOMAIN deployments : deployments[i] \in DeploymentType
  BY <1>1
<1> QED BY <1>2 DEF DeploymentType

\* Of the candidates there is a heaviest.
LEMMA HeaviestOf ==
    ASSUME RegionsInv, NEW C \in SUBSET (DOMAIN deployments), C # {}
    PROVE  \E i \in C : \A j \in C : deployments[i].weight >= deployments[j].weight
<1> DEFINE Bad(n) == n \in Nat /\ \E S \in SUBSET C : S # {} /\ Cardinality(S) = n
                                  /\ \A i \in S : \E j \in S : ~(deployments[i].weight >= deployments[j].weight)
           Sizes == {n \in Nat : Bad(n)}
<1>0. /\ DOMAIN deployments = 1 .. Len(deployments) /\ Len(deployments) \in Nat
      /\ \A i \in DOMAIN deployments : deployments[i].weight \in Nat
  BY WeightNat
<1>1. IsFiniteSet(C)
  <2>1. IsFiniteSet(1 .. Len(deployments))
    BY <1>0, FS_Interval
  <2> QED BY <1>0, <2>1, FS_Subset
<1>2. SUFFICES ASSUME \A i \in C : \E j \in C : ~(deployments[i].weight >= deployments[j].weight)
               PROVE  FALSE
  OBVIOUS
<1>3. Cardinality(C) \in Sizes
  BY <1>1, <1>2, FS_CardinalityType
<1>4. PICK n \in Sizes : \A m \in Sizes : n <= m
  <2>1. Sizes \subseteq Nat
    OBVIOUS
  <2> HIDE DEF Sizes
  <2> QED BY <1>3, <2>1, LeastOf
<1>5. PICK S \in SUBSET C : S # {} /\ Cardinality(S) = n
                            /\ \A i \in S : \E j \in S : ~(deployments[i].weight >= deployments[j].weight)
  BY <1>4
<1>6. PICK x \in S : TRUE
  BY <1>5
<1>7. IsFiniteSet(S \ {x}) /\ Cardinality(S \ {x}) = n - 1 /\ n - 1 \in Nat
  <2>1. IsFiniteSet(S) /\ n \in Nat
    BY <1>1, <1>4, FS_Subset
  <2>2. IsFiniteSet(S \ {x}) /\ Cardinality(S \ {x}) = Cardinality(S) - 1
    BY <1>6, <2>1, FS_RemoveElement
  <2> QED BY <1>5, <2>1, <2>2, FS_CardinalityType
<1>8. n - 1 \notin Sizes
  BY <1>4, <1>7
<1>9. S \ {x} = {} \/ \E m \in S \ {x} : \A k \in S \ {x} : deployments[m].weight >= deployments[k].weight
  BY <1>7, <1>8
<1>10. CASE S \ {x} = {}
  BY <1>0, <1>5, <1>6, <1>10
<1>11. ASSUME NEW m \in S \ {x}, \A k \in S \ {x} : deployments[m].weight >= deployments[k].weight
       PROVE  FALSE
  <2>1. deployments[m].weight \in Nat /\ deployments[x].weight \in Nat
    BY <1>0, <1>5, <1>6
  <2>2. CASE deployments[m].weight >= deployments[x].weight
    BY <1>5, <1>11, <2>2
  <2>3. CASE deployments[x].weight > deployments[m].weight
    <3>1. \A k \in S : deployments[k].weight \in Nat
      BY <1>0, <1>5
    <3>2. \A k \in S : deployments[x].weight >= deployments[k].weight
      BY <1>11, <2>1, <2>3, <3>1
    <3> QED BY <1>5, <1>6, <3>2
  <2> QED BY <2>1, <2>2, <2>3
<1> QED BY <1>9, <1>10, <1>11

\* There is a first among the candidates, whichever order applies.
LEMMA FirstExists ==
    ASSUME RegionsInv, NEW client, NEW C \in SUBSET (DOMAIN deployments), C # {}
    PROVE  /\ first(client, C) \in C
           /\ \A j \in C \ {first(client, C)} :
                IF client \in Configured THEN before_in_rank(client, first(client, C), j)
                ELSE heavier(first(client, C), j)
<1>0. /\ DOMAIN deployments = 1 .. Len(deployments) /\ Len(deployments) \in Nat
      /\ \A i \in DOMAIN deployments : deployments[i].weight \in Nat
  BY WeightNat
<1>1. ASSUME NEW D \in SUBSET C, D # {}
      PROVE  \E i \in D : \A j \in D \ {i} : /\ deployments[i].weight > deployments[j].weight
                                                \/ (deployments[i].weight = deployments[j].weight /\ i < j)
  <2>1. PICK h \in D : \A j \in D : deployments[h].weight >= deployments[j].weight
    BY <1>1, HeaviestOf
  <2>2. PICK i \in {k \in D : deployments[k].weight = deployments[h].weight} :
           \A k \in {k \in D : deployments[k].weight = deployments[h].weight} : i <= k
    <3>1. {k \in D : deployments[k].weight = deployments[h].weight} \subseteq Nat
      BY <1>0
    <3> QED BY <2>1, <3>1, LeastOf
  <2>3. ASSUME NEW j \in D \ {i}
        PROVE  deployments[i].weight > deployments[j].weight
               \/ (deployments[i].weight = deployments[j].weight /\ i < j)
    <3>1. i \in Nat /\ j \in Nat /\ i # j /\ deployments[i].weight \in Nat /\ deployments[j].weight \in Nat
      BY <1>0
    <3>2. CASE deployments[j].weight = deployments[h].weight
      BY <2>2, <3>1, <3>2
    <3>3. CASE deployments[j].weight # deployments[h].weight
      BY <2>1, <2>2, <3>1, <3>3
    <3> QED BY <3>2, <3>3
  <2> QED BY <2>3
<1>2. CASE client \notin Configured
  <2>1. \E i \in C : \A j \in C \ {i} : heavier(i, j)
    BY <1>1 DEF heavier
  <2>2. first(client, C) = CHOOSE i \in C : \A j \in C \ {i} : heavier(i, j)
    BY <1>2 DEF first
  <2>3. first(client, C) \in C /\ \A j \in C \ {first(client, C)} : heavier(first(client, C), j)
    BY <2>1, <2>2, Zenon
  <2> QED BY <1>2, <2>3
<1>3. CASE client \in Configured
  <2> DEFINE far(i) == distance(client, deployments[i].region)
             near == {far(i) : i \in C}
  <2>1. \A i : far(i) \in Nat
    BY DistanceNat
  <2>2. PICK m \in near : \A k \in near : m <= k
    <3>1. near \subseteq Nat /\ near # {}
      BY <2>1
    <3> HIDE DEF near
    <3> QED BY <3>1, LeastOf
  <2>3. PICK i \in {k \in C : far(k) = m} : \A j \in {k \in C : far(k) = m} \ {i} :
           deployments[i].weight > deployments[j].weight
           \/ (deployments[i].weight = deployments[j].weight /\ i < j)
    <3>1. {k \in C : far(k) = m} \in SUBSET C /\ {k \in C : far(k) = m} # {}
      BY <2>2
    <3> HIDE DEF far, near
    <3> QED BY <1>1, <3>1
  <2>4. \A j \in C \ {i} : before_in_rank(client, i, j)
    <3> TAKE j \in C \ {i}
    <3>1. far(i) = m /\ m <= far(j) /\ far(j) \in Nat /\ m \in Nat
      BY <2>1, <2>2, <2>3
    <3>2. CASE far(j) = m
      BY <2>3, <3>1, <3>2 DEF before_in_rank
    <3>3. CASE far(j) # m
      BY <3>1, <3>3 DEF before_in_rank
    <3> QED BY <3>2, <3>3
  <2>5. \E k \in C : \A j \in C \ {k} : before_in_rank(client, k, j)
    BY <2>3, <2>4
  <2>6. first(client, C) = CHOOSE k \in C : \A j \in C \ {k} : before_in_rank(client, k, j)
    BY <1>3 DEF first
  <2>7. first(client, C) \in C /\ \A j \in C \ {first(client, C)} : before_in_rank(client, first(client, C), j)
    BY <2>5, <2>6, Zenon
  <2> QED BY <1>3, <2>7
<1> QED BY <1>2, <1>3

\* Nothing among the candidates is nearer than the first, or as near and heavier.
LEMMA FirstNearest ==
    ASSUME RegionsInv, NEW client \in Configured, NEW C \in SUBSET (DOMAIN deployments),
           NEW s, s = first(client, C), s # 0, NEW j \in C
    PROVE  /\ s \in C
           /\ distance(client, deployments[s].region) <= distance(client, deployments[j].region)
           /\ deployments[s].region = deployments[j].region => deployments[s].weight >= deployments[j].weight
<1>1. s \in C /\ (j # s => before_in_rank(client, s, j))
  BY FirstExists
<1>2. /\ distance(client, deployments[s].region) \in Nat /\ distance(client, deployments[j].region) \in Nat
      /\ deployments[s].weight \in Nat /\ deployments[j].weight \in Nat
  BY <1>1, DistanceNat, WeightNat
<1> QED BY <1>1, <1>2 DEF before_in_rank

LEMMA FirstZero ==
    ASSUME RegionsInv, NEW client, NEW C \in SUBSET (DOMAIN deployments)
    PROVE  first(client, C) = 0 <=> C = {}
<1>1. 0 \notin DOMAIN deployments
  BY DEF RegionsInv
<1>2. C # {} => first(client, C) \in C
  BY FirstExists
<1>3. C = {} => first(client, C) = 0
  BY DEF first
<1> QED BY <1>1, <1>2, <1>3

LEMMA HealthyIn == healthy \in SUBSET (DOMAIN deployments)
  BY DEF healthy

LEMMA UnhealthyLeft == RegionsInv => UnhealthyAvoided
<1> SUFFICES ASSUME RegionsInv, NEW client \in Regions \cup {NoRegion}, NEW failed \in Regions
             PROVE  /\ \A i \in {select_provider(client), failover(client, failed)} \ {0} :
                          ~(Single(deployments[i].region) /\ deployments[i].region \in marked)
                    /\ select_provider(client) = 0 =>
                         \A i \in DOMAIN deployments : deployments[i].region \in marked
  BY DEF UnhealthyAvoided
<1>1. ASSUME NEW i \in {select_provider(client), failover(client, failed)} \ {0} PROVE i \in healthy
  <2> DEFINE others == {k \in healthy : deployments[k].region # failed /\ in_reach(client, k)}
  <2>1. others \in SUBSET healthy /\ others \in SUBSET (DOMAIN deployments)
    BY HealthyIn
  <2>2. i = first(client, healthy) \/ i = first(client, others)
    BY <1>1 DEF select_provider, failover
  <2> HIDE DEF others
  <2>3. healthy # {} => first(client, healthy) \in healthy
    BY HealthyIn, FirstExists
  <2>4. others # {} => first(client, others) \in others
    BY <2>1, FirstExists
  <2>5. first(client, {}) = 0
    BY DEF first
  <2> QED BY <1>1, <2>1, <2>2, <2>3, <2>4, <2>5
<1>2. ASSUME NEW i \in healthy, Single(deployments[i].region), deployments[i].region \in marked PROVE FALSE
  <2>1. i \in DOMAIN deployments /\ deployments[i].healthy
    BY DEF healthy
  <2>2. Foremost(i)
    <3> DEFINE same == {k \in DOMAIN deployments : deployments[k].region = deployments[i].region}
    <3>1. Cardinality(same) = 1 /\ IsFiniteSet(same)
      <4>1. IsFiniteSet(DOMAIN deployments)
        BY FS_Interval DEF RegionsInv
      <4> QED BY <1>2, <4>1, FS_Subset DEF Single
    <3>2. PICK x : same = {x}
      <4> HIDE DEF same
      <4> QED BY <3>1, FS_Singleton
    <3>3. i \in same /\ \A k \in same : k = i
      BY <2>1, <3>2
    <3>4. \A j \in 1 .. (i - 1) : j \in DOMAIN deployments /\ j # i
      BY <2>1 DEF RegionsInv
    <3> QED BY <2>1, <3>3, <3>4 DEF Foremost
  <2> QED BY <1>2, <2>1, <2>2 DEF RegionsInv
<1>3. ASSUME select_provider(client) = 0, NEW i \in DOMAIN deployments PROVE deployments[i].region \in marked
  <2>1. healthy = {}
    BY <1>3, HealthyIn, FirstZero DEF select_provider
  <2>2. ~deployments[i].healthy
    BY <2>1 DEF healthy
  <2> QED BY <2>2 DEF RegionsInv
<1> QED BY <1>1, <1>2, <1>3

LEMMA NearestLeft == RegionsInv => NearestChosen
<1> DEFINE Closest(client, i, ok) == \A j \in ok :
              LET a == deployments[i]  b == deployments[j]
              IN  /\ distance(client, a.region) <= distance(client, b.region)
                  /\ a.region = b.region => a.weight >= b.weight
<1> SUFFICES ASSUME RegionsInv, NEW client \in Configured, NEW failed \in Regions
             PROVE  LET s == select_provider(client)
                        f == failover(client, failed)
                    IN  /\ s # 0 => Closest(client, s, healthy)
                        /\ f # 0 => /\ deployments[f].region # failed
                                    /\ in_reach(client, f)
                                    /\ Closest(client, f, {j \in healthy : deployments[j].region # failed})
                        /\ f = 0 => \A j \in healthy : deployments[j].region = failed \/ ~in_reach(client, j)
  BY DEF NearestChosen
<1>1. PICK others : others = {k \in healthy : deployments[k].region # failed /\ in_reach(client, k)}
  OBVIOUS
<1>2. others \in SUBSET (DOMAIN deployments)
  BY <1>1, HealthyIn
<1>3. PICK s, f : s = first(client, healthy) /\ f = first(client, others)
                  /\ s = select_provider(client) /\ f = failover(client, failed)
  BY <1>1 DEF select_provider, failover
<1>4. s # 0 => Closest(client, s, healthy)
  BY <1>3, HealthyIn, FirstNearest
<1>5. f = 0 => \A j \in healthy : deployments[j].region = failed \/ ~in_reach(client, j)
  BY <1>1, <1>2, <1>3, FirstZero
<1>6. ASSUME f # 0
      PROVE  /\ deployments[f].region # failed /\ in_reach(client, f)
             /\ Closest(client, f, {j \in healthy : deployments[j].region # failed})
  <2>1. f \in others
    <3>1. others # {}
      BY <1>2, <1>3, <1>6, FirstZero
    <3>2. first(client, others) \in others
      BY <1>2, <3>1, FirstExists
    <3> QED BY <1>3, <3>2
  <2>2. deployments[f].region # failed /\ in_reach(client, f)
    BY <1>1, <2>1
  <2>3. ASSUME NEW j \in healthy, deployments[j].region # failed
        PROVE  /\ distance(client, deployments[f].region) <= distance(client, deployments[j].region)
               /\ deployments[f].region = deployments[j].region => deployments[f].weight >= deployments[j].weight
    <3>1. CASE in_reach(client, j)
      <4>1. j \in others
        BY <1>1, <2>3, <3>1
      <4> QED BY <1>2, <1>3, <1>6, <4>1, FirstNearest
    <3>2. CASE ~in_reach(client, j)
      <4>1. MaxDistance > 0 /\ ~(distance(client, deployments[j].region) <= MaxDistance)
        BY <3>2 DEF in_reach
      <4>2. distance(client, deployments[f].region) <= MaxDistance
        BY <2>2, <4>1 DEF in_reach
      <4>3. distance(client, deployments[f].region) \in Nat /\ distance(client, deployments[j].region) \in Nat
            /\ MaxDistance \in Nat
        BY DistanceNat, RegionAssumption
      <4> QED BY <4>1, <4>2, <4>3
    <3> QED BY <3>1, <3>2
  <2> QED BY <2>2, <2>3
<1> QED BY <1>3, <1>4, <1>5, <1>6

-----------------------------------------------------------------------------
(* What the scaling advisor adds up, recommends and announces.             *)

\* What holds of 0 and passes from each number to the next holds up to L: a
\* smallest number of which it did not hold would have one before it.
LEMMA Climb ==
    ASSUME NEW L \in Nat, NEW S, 0 \in S, \A n \in 1..L : n - 1 \in S => n \in S
    PROVE  \A n \in 0..L : n \in S
<1> DEFINE Bad == {n \in 0..L : n \notin S}
<1> SUFFICES ASSUME Bad # {} PROVE FALSE
  OBVIOUS
<1>1. PICK n \in Bad : \A k \in Bad : n <= k
  <2>1. Bad \subseteq Nat
    OBVIOUS
  <2> HIDE DEF Bad
  <2> QED BY <2>1, LeastOf
<1>2. n \in 1..L /\ n - 1 \in 0..L /\ n - 1 < n
  BY <1>1
<1>3. n - 1 \in S
  BY <1>1, <1>2
<1> QED BY <1>1, <1>2, <1>3

\* The sum of the first n values, as a function of n.
Upto(values) == CHOOSE f : f = [n \in 0 .. Len(values) |-> IF n = 0 THEN 0 ELSE f[n - 1] + values[n]]
Adds(values, f, n) == IF n = 0 THEN 0 ELSE f[n - 1] + values[n]

LEMMA SumSteps ==
    ASSUME NEW v \in Seq(Nat)
    PROVE  /\ sum_of(v) = Upto(v)[Len(v)] /\ Upto(v)[0] = 0
           /\ \A n \in 1..Len(v) : Upto(v)[n] = Upto(v)[n - 1] + v[n]
           /\ \A n \in 0..Len(v) : Upto(v)[n] \in Nat
<1> DEFINE S == {m \in 0..Len(v) : \E f : f = [n \in 0..m |-> Adds(v, f, n)]}
<1>0. Len(v) \in Nat /\ \A n \in 1..Len(v) : v[n] \in Nat
  OBVIOUS
<1>1. 0 \in S
  <2>1. PICK f : f = [n \in 0..0 |-> 0]
    OBVIOUS
  <2>2. f = [n \in 0..0 |-> Adds(v, f, n)]
    BY <2>1 DEF Adds
  <2> QED BY <1>0, <2>2
<1>2. ASSUME NEW m \in 1..Len(v), m - 1 \in S PROVE m \in S
  <2>1. PICK f : f = [n \in 0..(m - 1) |-> Adds(v, f, n)]
    BY <1>2
  <2>2. PICK g : g = [n \in 0..m |-> IF n = m THEN Adds(v, f, m) ELSE f[n]]
    OBVIOUS
  <2>3. \A n \in 0..(m - 1) : g[n] = f[n]
    BY <2>2
  <2>4. ASSUME NEW n \in 0..m PROVE g[n] = Adds(v, g, n)
    <3>1. Adds(v, f, n) = Adds(v, g, n)
      <4>1. CASE n = 0
        BY <4>1 DEF Adds
      <4>2. CASE n # 0
        <5>1. f[n - 1] = g[n - 1]
          BY <2>3, <4>2
        <5> QED BY <5>1 DEF Adds
      <4> QED BY <4>1, <4>2
    <3>2. g[n] = Adds(v, f, n)
      <4>1. CASE n = m
        BY <2>2, <4>1
      <4>2. CASE n # m
        <5>1. n \in 0..(m - 1)
          BY <4>2
        <5>2. f[n] = Adds(v, f, n)
          BY <2>1, <5>1
        <5> QED BY <2>3, <5>1, <5>2
      <4> QED BY <4>1, <4>2
    <3> QED BY <3>1, <3>2
  <2>5. g = [n \in 0..m |-> g[n]]
    BY <2>2
  <2>6. g = [n \in 0..m |-> Adds(v, g, n)]
    BY <2>4, <2>5
  <2> QED BY <1>2, <2>6
<1>3. Len(v) \in S
  <2> HIDE DEF S
  <2>1. \A n \in 0..Len(v) : n \in S
    BY <1>0, <1>1, <1>2, Climb
  <2> QED BY <1>0, <2>1
<1>4. PICK f : f = [n \in 0..Len(v) |-> Adds(v, f, n)]
  BY <1>3
<1>5. Upto(v) = [n \in 0..Len(v) |-> Adds(v, Upto(v), n)]
  BY <1>4, Zenon DEF Upto, Adds
<1>6. sum_of(v) = Upto(v)[Len(v)]
  BY DEF sum_of, Upto
<1> HIDE DEF Upto
<1>7. Upto(v)[0] = 0 /\ \A n \in 1..Len(v) : Upto(v)[n] = Upto(v)[n - 1] + v[n]
  BY <1>0, <1>5 DEF Adds
<1>8. \A n \in 0..Len(v) : Upto(v)[n] \in Nat
  <2> DEFINE T == {n \in 0..Len(v) : Upto(v)[n] \in Nat}
  <2>1. 0 \in T
    BY <1>0, <1>7
  <2>2. ASSUME NEW n \in 1..Len(v), n - 1 \in T PROVE n \in T
    <3>1. PICK a \in Nat : a = Upto(v)[n - 1]
      BY <2>2
    <3>2. PICK b \in Nat : b = v[n]
      OBVIOUS
    <3>3. a + b \in Nat
      BY SMT
    <3>4. Upto(v)[n] = a + b
      BY <1>7, <3>1, <3>2
    <3>5. n \in 0..Len(v)
      BY <1>0
    <3> QED BY <3>3, <3>4, <3>5
  <2> HIDE DEF T
  <2>3. \A n \in 0..Len(v) : n \in T
    BY <1>0, <2>1, <2>2, Climb
  <2> QED BY <2>3 DEF T
<1> QED BY <1>6, <1>7, <1>8

LEMMA SumOrder ==
    ASSUME NEW a \in Nat, NEW b \in Nat, NEW x \in Nat, NEW y \in Nat, a <= b, x <= y
    PROVE  a + x <= b + y
  OBVIOUS

\* Larger values have a larger sum.
LEMMA SumsGrow ==
    ASSUME NEW v \in Seq(Nat), NEW w \in Seq(Nat), Len(v) = Len(w),
           \A i \in 1..Len(v) : v[i] <= w[i]
    PROVE  sum_of(v) <= sum_of(w)
<1> DEFINE S == {n \in 0..Len(v) : Upto(v)[n] <= Upto(w)[n]}
<1>0. Len(v) \in Nat /\ \A n \in 1..Len(v) : v[n] \in Nat /\ w[n] \in Nat
  OBVIOUS
<1>1. 0 \in S
  BY <1>0, SumSteps
<1>2. ASSUME NEW n \in 1..Len(v), n - 1 \in S PROVE n \in S
  <2>1. PICK a \in Nat, b \in Nat : a = Upto(v)[n - 1] /\ b = Upto(w)[n - 1] /\ a <= b
    <3>1. n - 1 \in 0..Len(v)
      BY <1>0
    <3> QED BY <1>2, <3>1, SumSteps
  <2>2. Upto(v)[n] = a + v[n] /\ Upto(w)[n] = b + w[n]
    BY <2>1, SumSteps
  <2>3. PICK x \in Nat, y \in Nat : x = v[n] /\ y = w[n] /\ x <= y
    BY <1>0
  <2>4. a + x <= b + y
    <3>1. a <= b /\ x <= y
      BY <2>1, <2>3
    <3> QED BY <3>1, SumOrder
  <2>5. n \in 0..Len(v)
    BY <1>0
  <2> QED BY <2>2, <2>3, <2>4, <2>5
<1> HIDE DEF S
<1>3. \A n \in 0..Len(v) : n \in S
  BY <1>0, <1>1, <1>2, Climb
<1>4. Len(v) \in S
  BY <1>0, <1>3
<1> QED BY <1>4, SumSteps DEF S

\* The sum of sums is the sum of the sums.
LEMMA SumsAdd ==
    ASSUME NEW v \in Seq(Nat), NEW w \in Seq(Nat), NEW u \in Seq(Nat),
           Len(v) = Len(u), Len(w) = Len(u),
           \A i \in 1..Len(u) : u[i] = v[i] + w[i]
    PROVE  sum_of(u) = sum_of(v) + sum_of(w)
<1> DEFINE S == {n \in 0..Len(u) : Upto(u)[n] = Upto(v)[n] + Upto(w)[n]}
<1>0. Len(u) \in Nat /\ \A n \in 1..Len(u) : v[n] \in Nat /\ w[n] \in Nat
  OBVIOUS
<1>1. 0 \in S
  BY <1>0, SumSteps
<1>2. ASSUME NEW n \in 1..Len(u), n - 1 \in S PROVE n \in S
  <2>1. PICK a \in Nat, b \in Nat : a = Upto(v)[n - 1] /\ b = Upto(w)[n - 1] /\ Upto(u)[n - 1] = a + b
    <3>1. n - 1 \in 0..Len(u)
      BY <1>0
    <3> QED BY <1>2, <3>1, SumSteps
  <2>2. Upto(v)[n] = a + v[n] /\ Upto(w)[n] = b + w[n] /\ Upto(u)[n] = (a + b) + u[n]
    BY <2>1, SumSteps
  <2>3. PICK x \in Nat, y \in Nat : x = v[n] /\ y = w[n] /\ u[n] = x + y
    BY <1>0
  <2>4. (a + b) + (x + y) = (a + x) + (b + y)
    OBVIOUS
  <2>5. n \in 0..Len(u)
    BY <1>0
  <2> QED BY <2>2, <2>3, <2>4, <2>5
<1> HIDE DEF S
<1>3. \A n \in 0..Len(u) : n \in S
  BY <1>0, <1>1, <1>2, Climb
<1>4. Len(u) \in S
  BY <1>0, <1>3
<1> QED BY <1>4, SumSteps DEF S

\* One more value at the end.
LEMMA SumAppended ==
    ASSUME NEW v \in Seq(Nat), NEW w \in Seq(Nat), Len(w) = Len(v) + 1,
           \A i \in 1..Len(v) : w[i] = v[i]
    PROVE  sum_of(w) = sum_of(v) + w[Len(w)]
<1> DEFINE S == {n \in 0..Len(v) : Upto(w)[n] = Upto(v)[n]}
<1>0. Len(v) \in Nat /\ Len(w) \in 1..Len(w)
  OBVIOUS
<1>1. 0 \in S
  BY <1>0, SumSteps
<1>2. ASSUME NEW n \in 1..Len(v), n - 1 \in S PROVE n \in S
  <2>1. n \in 1..Len(w) /\ n \in 0..Len(v)
    BY <1>0
  <2>2. Upto(v)[n] = Upto(v)[n - 1] + v[n] /\ Upto(w)[n] = Upto(w)[n - 1] + w[n]
    BY <2>1, SumSteps
  <2> QED BY <1>2, <2>1, <2>2
<1> HIDE DEF S
<1>3. \A n \in 0..Len(v) : n \in S
  BY <1>0, <1>1, <1>2, Climb
<1>4. Len(v) \in S
  BY <1>0, <1>3
<1>5. Upto(w)[Len(w)] = Upto(w)[Len(w) - 1] + w[Len(w)]
  BY <1>0, SumSteps
<1>6. Len(w) - 1 = Len(v)
  BY <1>0
<1> QED BY <1>4, <1>5, <1>6, SumSteps DEF S

\* One value less at the beginning.
LEMMA SumWithoutFirst ==
    ASSUME NEW v \in Seq(Nat), NEW w \in Seq(Nat), Len(v) = Len(w) + 1,
           \A i \in 1..Len(w) : w[i] = v[i + 1]
    PROVE  sum_of(v) = v[1] + sum_of(w)
<1> DEFINE S == {n \in 0..Len(w) : Upto(v)[n + 1] = v[1] + Upto(w)[n]}
<1>0. Len(w) \in Nat /\ 1 \in 1..Len(v) /\ \A i \in 1..Len(v) : v[i] \in Nat
  OBVIOUS
<1>1. 0 \in S
  <2>1. Upto(v)[1] = Upto(v)[1 - 1] + v[1] /\ Upto(v)[0] = 0 /\ Upto(w)[0] = 0
    BY <1>0, SumSteps
  <2> QED BY <1>0, <2>1
<1>2. ASSUME NEW n \in 1..Len(w), n - 1 \in S PROVE n \in S
  <2>1. n + 1 \in 1..Len(v) /\ n \in 0..Len(w) /\ n - 1 \in 0..Len(w) /\ (n + 1) - 1 = n /\ (n - 1) + 1 = n
    BY <1>0
  <2>2. PICK a \in Nat : a = Upto(w)[n - 1] /\ Upto(v)[n] = v[1] + a
    BY <1>2, <2>1, SumSteps
  <2>3. Upto(w)[n] = a + w[n] /\ Upto(v)[n + 1] = Upto(v)[n] + v[n + 1]
    BY <2>1, <2>2, SumSteps
  <2>4. w[n] = v[n + 1] /\ v[n + 1] \in Nat
    BY <1>0, <2>1
  <2>5. (v[1] + a) + v[n + 1] = v[1] + (a + v[n + 1])
    <3>1. PICK b \in Nat, c \in Nat : b = v[1] /\ c = v[n + 1]
      BY <1>0, <2>4
    <3>2. (b + a) + c = b + (a + c)
      BY SMT
    <3> QED BY <3>1, <3>2
  <2> QED BY <2>1, <2>2, <2>3, <2>4, <2>5
<1> HIDE DEF S
<1>3. \A n \in 0..Len(w) : n \in S
  BY <1>0, <1>1, <1>2, Climb
<1>4. Len(w) \in S
  BY <1>0, <1>3
<1> QED BY <1>4, SumSteps DEF S

LEMMA SumNat == ASSUME NEW v \in Seq(Nat) PROVE sum_of(v) \in Nat
<1>1. Len(v) \in 0..Len(v)
  OBVIOUS
<1> QED BY <1>1, SumSteps

-----------------------------------------------------------------------------
SnapshotType == [at : Nat, requests : Nat, cost : Nat]
SeenType == [at : Nat \cup {Unseen}, cost : Nat]

\* What the entries of a log cost that are not older than a time, and those
\* that no snapshot has seen.
Counts(s, from) == s.at # Unseen /\ s.at >= from
costs(log, from) == [i \in DOMAIN log |-> IF Counts(log[i], from) THEN log[i].cost ELSE 0]
spent(log, from) == sum_of(costs(log, from))
uncounted(log) == [i \in DOMAIN log |-> IF log[i].at = Unseen THEN log[i].cost ELSE 0]

\* The counters are what no snapshot has seen, and from any time on the
\* snapshots hold no more than what was really spent.
AdvisorInv ==
    /\ saClock \in Nat
    /\ running \in [requests : Nat, cost : Nat]
    /\ seen \in Seq(SeenType) /\ Len(seen) <= SaMaxRequests /\ running.requests <= Len(seen)
    /\ \A i \in DOMAIN seen : seen[i].at <= saClock
    /\ snapshots \in Seq(SnapshotType) /\ Len(snapshots) <= MaxSnapshots
    /\ \A i \in DOMAIN snapshots : snapshots[i].at <= saClock
    /\ fired \in [DOMAIN AlertThresholds -> Int]
    /\ \A t \in DOMAIN AlertThresholds : fired[t] \in -1 .. saClock
    /\ running.cost = sum_of(uncounted(seen))
    /\ \A from \in Int : spent(snapshots, from) <= spent(seen, from)

LEMMA Amounts ==
    ASSUME NEW T, \A x \in T : x.cost \in Nat, NEW log \in Seq(T), NEW from
    PROVE  /\ costs(log, from) \in Seq(Nat) /\ Len(costs(log, from)) = Len(log)
           /\ uncounted(log) \in Seq(Nat) /\ Len(uncounted(log)) = Len(log)
           /\ DOMAIN log = 1 .. Len(log) /\ Len(log) \in Nat
<1>1. DOMAIN log = 1 .. Len(log) /\ Len(log) \in Nat /\ \A i \in DOMAIN log : log[i] \in T
  OBVIOUS
<1> QED BY <1>1 DEF costs, uncounted

LEMMA Typed == /\ \A x \in SnapshotType : x.cost \in Nat /\ x.at \in Nat /\ x.at # Unseen /\ x.requests \in Nat
               /\ \A x \in SeenType : x.cost \in Nat /\ x.at \in Int
  BY DEF SnapshotType, SeenType, Unseen

LEMMA AdvisorStart == SaInit => AdvisorInv
<1> SUFFICES ASSUME SaInit PROVE AdvisorInv
  OBVIOUS
<1>1. uncounted(<<>>) = <<>> /\ \A from : costs(<<>>, from) = <<>>
  BY DEF uncounted, costs
<1>2. <<>> \in Seq(Nat) /\ Len(<<>>) = 0
  OBVIOUS
<1>3. sum_of(<<>>) = 0
  BY <1>2, SumSteps
<1> QED BY <1>1, <1>3, SaAssumption DEF SaInit, AdvisorInv, Quiet, NotFired, spent

LEMMA RecordKeeps == AdvisorInv /\ RecordRequest => AdvisorInv'
<1> SUFFICES ASSUME AdvisorInv, RecordRequest PROVE AdvisorInv'
  OBVIOUS
<1>1. PICK c \in Costs : /\ running' = [requests |-> running.requests + 1, cost |-> running.cost + c]
                         /\ seen' = Append(seen, [at |-> Unseen, cost |-> c])
                         /\ Len(seen) < SaMaxRequests
                         /\ UNCHANGED <<snapshots, fired, saClock>>
  BY DEF RecordRequest
<1>2. PICK e \in SeenType : e = [at |-> Unseen, cost |-> c] /\ e.at = Unseen /\ e.cost = c /\ c \in Nat
  <2>1. c \in Nat
    BY SaAssumption
  <2>2. [at |-> Unseen, cost |-> c] \in SeenType
    BY <2>1 DEF SeenType
  <2> QED BY <2>1, <2>2
<1>3. /\ seen \in Seq(SeenType) /\ Len(seen) \in Nat /\ DOMAIN seen = 1 .. Len(seen)
      /\ seen' \in Seq(SeenType) /\ Len(seen') = Len(seen) + 1 /\ DOMAIN seen' = 1 .. Len(seen')
      /\ \A i \in 1 .. Len(seen) : seen'[i] = seen[i] /\ i \in DOMAIN seen'
      /\ seen'[Len(seen')] = e /\ Len(seen') \in DOMAIN seen'
  BY <1>1, <1>2, AppendProperties DEF AdvisorInv
<1>4. sum_of(uncounted(seen')) = sum_of(uncounted(seen)) + c
  <2>1. /\ uncounted(seen) \in Seq(Nat) /\ Len(uncounted(seen)) = Len(seen)
        /\ uncounted(seen') \in Seq(Nat) /\ Len(uncounted(seen')) = Len(seen) + 1
    BY <1>3, Typed, Amounts
  <2>2. \A i \in 1 .. Len(seen) : uncounted(seen')[i] = uncounted(seen)[i]
    BY <1>3 DEF uncounted
  <2>3. uncounted(seen')[Len(seen')] = c
    BY <1>2, <1>3 DEF uncounted
  <2> QED BY <1>3, <2>1, <2>2, <2>3, SumAppended
<1>5. ASSUME NEW from \in Int PROVE spent(seen', from) = spent(seen, from)
  <2>1. /\ costs(seen, from) \in Seq(Nat) /\ Len(costs(seen, from)) = Len(seen)
        /\ costs(seen', from) \in Seq(Nat) /\ Len(costs(seen', from)) = Len(seen) + 1
    BY <1>3, Typed, Amounts
  <2>2. \A i \in 1 .. Len(seen) : costs(seen', from)[i] = costs(seen, from)[i]
    BY <1>3 DEF costs
  <2>3. costs(seen', from)[Len(seen')] = 0
    BY <1>2, <1>3 DEF costs, Counts
  <2>4. spent(seen', from) = spent(seen, from) + 0
    BY <1>3, <2>1, <2>2, <2>3, SumAppended DEF spent
  <2>5. spent(seen, from) \in Nat
    BY <2>1, SumNat DEF spent
  <2> QED BY <2>4, <2>5
<1>6. \A i \in DOMAIN seen' : seen'[i].at <= saClock
  <2> TAKE i \in DOMAIN seen'
  <2>1. i \in 1 .. Len(seen) \/ i = Len(seen')
    BY <1>3
  <2>2. Unseen <= saClock
    BY DEF AdvisorInv, Unseen
  <2> QED BY <1>2, <1>3, <2>1, <2>2 DEF AdvisorInv
<1>7. /\ running'.cost = running.cost + c /\ running'.requests = running.requests + 1
      /\ running' \in [requests : Nat, cost : Nat] /\ running.requests \in Nat
  BY <1>1, <1>2 DEF AdvisorInv
<1>8. running'.requests <= Len(seen') /\ Len(seen') <= SaMaxRequests
  BY <1>1, <1>3, <1>7, SaAssumption DEF AdvisorInv
<1> QED BY <1>1, <1>3, <1>4, <1>5, <1>6, <1>7, <1>8 DEF AdvisorInv

\* A snapshot more, the oldest less when there are too many.
LEMMA Trimmed ==
    ASSUME NEW log \in Seq(SnapshotType), Len(log) <= MaxSnapshots, NEW s \in SnapshotType, NEW from \in Int
    PROVE  /\ trim(Append(log, s)) \in Seq(SnapshotType) /\ Len(trim(Append(log, s))) <= MaxSnapshots
           /\ \A i \in DOMAIN trim(Append(log, s)) :
                trim(Append(log, s))[i] = s \/ \E j \in DOMAIN log : trim(Append(log, s))[i] = log[j]
           /\ spent(trim(Append(log, s)), from) <= spent(log, from) + (IF Counts(s, from) THEN s.cost ELSE 0)
<1>1. PICK more \in Seq(SnapshotType), n \in Nat :
         /\ more = Append(log, s) /\ n = Len(log) /\ Len(more) = n + 1 /\ DOMAIN more = 1 .. n + 1
         /\ DOMAIN log = 1 .. n
         /\ \A i \in 1 .. n : more[i] = log[i]
         /\ more[n + 1] = s
  <2>1. /\ Len(log) \in Nat /\ DOMAIN log = 1 .. Len(log)
        /\ Append(log, s) \in Seq(SnapshotType) /\ Len(Append(log, s)) = Len(log) + 1
        /\ \A i \in 1 .. Len(log) : Append(log, s)[i] = log[i]
        /\ Append(log, s)[Len(log) + 1] = s
    BY AppendProperties
  <2>2. DOMAIN Append(log, s) = 1 .. Len(log) + 1
    BY <2>1
  <2> QED BY <2>1, <2>2
<1>2. /\ costs(log, from) \in Seq(Nat) /\ Len(costs(log, from)) = n
      /\ costs(more, from) \in Seq(Nat) /\ Len(costs(more, from)) = n + 1
  BY <1>1, Typed, Amounts
<1>3. \A i \in 1 .. n + 1 : /\ i \in 1 .. n \/ i = n + 1
                            /\ more[i] = s \/ \E j \in DOMAIN log : more[i] = log[j]
  BY <1>1
<1>4. PICK c \in Nat : c = IF Counts(s, from) THEN s.cost ELSE 0
  BY Typed
<1>5. spent(more, from) = spent(log, from) + c
  <2>1. \A i \in 1 .. n : costs(more, from)[i] = costs(log, from)[i]
    BY <1>1 DEF costs
  <2>2. costs(more, from)[n + 1] = c
    BY <1>1, <1>4 DEF costs
  <2> QED BY <1>2, <2>1, <2>2, SumAppended DEF spent
<1>6. spent(log, from) \in Nat
  BY <1>2, SumNat DEF spent
<1>7. CASE Len(more) <= MaxSnapshots
  <2>1. trim(more) = more
    BY <1>1, <1>7, SaAssumption DEF trim
  <2> QED BY <1>1, <1>3, <1>4, <1>5, <1>6, <1>7, <2>1
<1>8. CASE Len(more) > MaxSnapshots
  <2>1. n = MaxSnapshots /\ Len(more) - MaxSnapshots + 1 = 2
    BY <1>1, <1>8, SaAssumption
  <2>2. PICK rest : rest = SubSeq(more, 2, n + 1) /\ rest = trim(more)
    BY <1>1, <1>8, <2>1 DEF trim
  <2>3. /\ rest \in Seq(SnapshotType) /\ Len(rest) = n /\ DOMAIN rest = 1 .. n
        /\ \A i \in 1 .. n : rest[i] = more[i + 1] /\ i + 1 \in 1 .. n + 1
    BY <1>1, <2>2, SubSeqProperties
  <2>4. costs(rest, from) \in Seq(Nat) /\ Len(costs(rest, from)) = n
    BY <2>3, Typed, Amounts
  <2>5. \A i \in 1 .. n : costs(rest, from)[i] = costs(more, from)[i + 1]
    BY <1>1, <2>3 DEF costs
  <2>6. spent(more, from) = costs(more, from)[1] + spent(rest, from)
    BY <1>2, <2>4, <2>5, SumWithoutFirst DEF spent
  <2>7. costs(more, from)[1] \in Nat /\ spent(rest, from) \in Nat /\ spent(more, from) \in Nat
    <3>1. 1 \in 1 .. Len(costs(more, from))
      BY <1>2
    <3> QED BY <1>2, <2>4, <3>1, SumNat DEF spent
  <2>8. spent(rest, from) <= spent(more, from)
    BY <2>6, <2>7
  <2>9. \A i \in 1 .. n : rest[i] = s \/ \E j \in DOMAIN log : rest[i] = log[j]
    BY <1>3, <2>3
  <2>10. PICK x \in Nat, y \in Nat : x = spent(log, from) /\ y = spent(rest, from) /\ y <= x + c
    BY <1>5, <1>6, <2>7, <2>8
  <2>11. spent(rest, from) <= spent(log, from) + (IF Counts(s, from) THEN s.cost ELSE 0)
    BY <1>4, <2>10
  <2>12. Len(rest) <= MaxSnapshots
    BY <2>1, <2>3
  <2>13. trim(Append(log, s)) = rest
    BY <1>1, <2>2
  <2> QED BY <2>3, <2>9, <2>11, <2>12, <2>13
<1> QED BY <1>1, <1>7, <1>8, SaAssumption

LEMMA SnapshotKeeps == AdvisorInv /\ TakeSnapshot => AdvisorInv'
<1> SUFFICES ASSUME AdvisorInv, TakeSnapshot PROVE AdvisorInv'
  OBVIOUS
<1>1. PICK s \in SnapshotType :
         /\ s.at = saClock /\ s.cost = running.cost
         /\ snapshots' = trim(Append(snapshots, s))
  <2>1. [at |-> saClock, requests |-> running.requests, cost |-> running.cost] \in SnapshotType
    BY DEF AdvisorInv, SnapshotType
  <2> QED BY <2>1 DEF TakeSnapshot
<1>2. /\ running' = Quiet /\ UNCHANGED <<fired, saClock>>
      /\ seen' = [i \in DOMAIN seen |-> IF seen[i].at = Unseen THEN [seen[i] EXCEPT !.at = saClock] ELSE seen[i]]
  BY DEF TakeSnapshot, counters_reset
<1>3. seen \in Seq(SeenType) /\ Len(seen) \in Nat /\ DOMAIN seen = 1 .. Len(seen) /\ saClock \in Nat
      /\ \A i \in DOMAIN seen : seen[i] \in SeenType
  BY DEF AdvisorInv
<1>4. \A i \in DOMAIN seen :
         /\ seen'[i] \in SeenType /\ seen'[i].cost = seen[i].cost /\ seen'[i].at # Unseen
         /\ seen'[i].at <= saClock
         /\ seen'[i].at = IF seen[i].at = Unseen THEN saClock ELSE seen[i].at
  <2> TAKE i \in DOMAIN seen
  <2>1. seen[i] \in SeenType /\ seen[i].at <= saClock
    BY <1>3 DEF AdvisorInv
  <2>2. CASE seen[i].at = Unseen
    <3>1. seen'[i] = [seen[i] EXCEPT !.at = saClock]
      BY <1>2, <2>2
    <3> QED BY <1>3, <2>1, <2>2, <3>1 DEF SeenType, Unseen
  <2>3. CASE seen[i].at # Unseen
    BY <1>2, <2>1, <2>3
  <2> QED BY <2>2, <2>3
<1>5. seen' \in Seq(SeenType) /\ Len(seen') = Len(seen) /\ DOMAIN seen' = DOMAIN seen
  <2>1. DOMAIN seen' = 1 .. Len(seen) /\ seen' = [i \in 1 .. Len(seen) |-> seen'[i]]
    BY <1>2, <1>3
  <2> QED BY <1>3, <1>4, <2>1
<1>6. /\ uncounted(seen') \in Seq(Nat) /\ Len(uncounted(seen')) = Len(seen)
      /\ uncounted(seen) \in Seq(Nat) /\ Len(uncounted(seen)) = Len(seen)
      /\ \A from : /\ costs(seen, from) \in Seq(Nat) /\ Len(costs(seen, from)) = Len(seen)
                   /\ costs(seen', from) \in Seq(Nat) /\ Len(costs(seen', from)) = Len(seen)
  BY <1>3, <1>5, Typed, Amounts
<1>7. sum_of(uncounted(seen')) = 0
  <2>1. PICK z : z = [i \in 1 .. Len(seen) |-> 0]
    OBVIOUS
  <2>2. z \in Seq(Nat) /\ Len(z) = Len(seen) /\ \A i \in 1 .. Len(seen) : z[i] + z[i] = z[i]
    BY <1>3, <2>1
  <2>3. PICK n \in Nat : n = sum_of(z)
    BY <2>2, SumNat
  <2>5. sum_of(z) = sum_of(z) + sum_of(z)
    <3>1. z \in Seq(Nat) /\ Len(z) = Len(z) /\ \A i \in 1 .. Len(z) : z[i] = z[i] + z[i]
      BY <2>2
    <3> QED BY <3>1, SumsAdd
  <2>6. n = 0
    <3>1. n = n + n
      BY <2>3, <2>5, Zenon
    <3> QED BY <3>1
  <2>4. uncounted(seen') = z
    BY <1>3, <1>4, <1>5, <2>1 DEF uncounted
  <2> QED BY <2>3, <2>4, <2>6
<1>8. ASSUME NEW from \in Int PROVE spent(snapshots', from) <= spent(seen', from)
  <2>1. PICK a \in Nat, b \in Nat, c \in Nat : a = spent(snapshots, from) /\ b = spent(seen, from)
                                                /\ c = running.cost /\ a <= b
    <3>1. costs(snapshots, from) \in Seq(Nat)
      BY Typed, Amounts DEF AdvisorInv
    <3>2. spent(snapshots, from) \in Nat /\ spent(seen, from) \in Nat
      BY <1>6, <3>1, SumNat DEF spent
    <3>3. spent(snapshots, from) <= spent(seen, from) /\ running.cost \in Nat
      BY DEF AdvisorInv
    <3> QED BY <3>2, <3>3
  <2>2. spent(snapshots', from) <= a + (IF Counts(s, from) THEN c ELSE 0)
    BY <1>1, <2>1, Trimmed DEF AdvisorInv
  <2>3. Counts(s, from) <=> saClock >= from
    BY <1>1, <1>3 DEF Counts, Unseen
  <2>6. spent(snapshots', from) \in Nat
    <3>1. snapshots' \in Seq(SnapshotType)
      BY <1>1, Trimmed DEF AdvisorInv
    <3> QED BY <3>1, Typed, Amounts, SumNat DEF spent
  <2>4. CASE saClock >= from
    <3>1. ASSUME NEW i \in 1 .. Len(seen)
          PROVE  costs(seen', from)[i] = costs(seen, from)[i] + uncounted(seen)[i]
      <4>1. seen[i] \in SeenType /\ seen[i].cost \in Nat
        BY <1>3, Typed
      <4>2. /\ costs(seen', from)[i] = IF Counts(seen'[i], from) THEN seen[i].cost ELSE 0
            /\ costs(seen, from)[i] = IF Counts(seen[i], from) THEN seen[i].cost ELSE 0
            /\ uncounted(seen)[i] = IF seen[i].at = Unseen THEN seen[i].cost ELSE 0
        BY <1>3, <1>4, <1>5 DEF costs, uncounted
      <4>3. CASE seen[i].at = Unseen
        <5>1. Counts(seen'[i], from) /\ ~Counts(seen[i], from)
          BY <1>3, <1>4, <2>4, <4>3 DEF Counts
        <5> QED BY <4>1, <4>2, <4>3, <5>1
      <4>4. CASE seen[i].at # Unseen
        <5>1. Counts(seen'[i], from) <=> Counts(seen[i], from)
          BY <1>3, <1>4, <4>4 DEF Counts
        <5> QED BY <4>1, <4>2, <4>4, <5>1
      <4> QED BY <4>3, <4>4
    <3>2. spent(seen', from) = b + c
      <4>1. sum_of(costs(seen', from)) = sum_of(costs(seen, from)) + sum_of(uncounted(seen))
        <5>1. PICK u \in Seq(Nat), v \in Seq(Nat), w \in Seq(Nat) :
                 u = costs(seen', from) /\ v = costs(seen, from) /\ w = uncounted(seen)
          BY <1>6
        <5>2. Len(u) = Len(seen) /\ Len(v) = Len(u) /\ Len(w) = Len(u)
              /\ \A i \in 1 .. Len(u) : u[i] = v[i] + w[i]
          BY <1>6, <3>1, <5>1
        <5>3. sum_of(u) = sum_of(v) + sum_of(w)
          BY <5>2, SumsAdd
        <5> QED BY <5>1, <5>3
      <4> QED BY <2>1, <4>1 DEF spent, AdvisorInv
    <3>3. spent(snapshots', from) <= a + c /\ a + c <= b + c
      BY <2>1, <2>2, <2>3, <2>4
    <3> QED BY <2>6, <3>2, <3>3
  <2>5. CASE ~(saClock >= from)
    <3>1. costs(seen', from) = costs(seen, from)
      <4>1. ASSUME NEW i \in DOMAIN seen PROVE Counts(seen'[i], from) <=> Counts(seen[i], from)
        BY <1>3, <1>4, <2>5 DEF Counts, AdvisorInv
      <4> QED BY <1>4, <1>5, <4>1 DEF costs
    <3>2. spent(snapshots', from) <= a + 0
      BY <2>2, <2>3, <2>5
    <3>3. spent(snapshots', from) <= b
      BY <2>1, <2>6, <3>2
    <3> QED BY <2>1, <3>1, <3>3 DEF spent
  <2> QED BY <2>4, <2>5
<1>9. /\ snapshots' \in Seq(SnapshotType) /\ Len(snapshots') <= MaxSnapshots
      /\ \A i \in DOMAIN snapshots' : snapshots'[i].at <= saClock
  <2>1. /\ snapshots' \in Seq(SnapshotType) /\ Len(snapshots') <= MaxSnapshots
        /\ \A i \in DOMAIN snapshots' : snapshots'[i] = s \/ \E j \in DOMAIN snapshots : snapshots'[i] = snapshots[j]
    <3>1. 0 \in Int
      OBVIOUS
    <3> QED BY <1>1, <3>1, Trimmed DEF AdvisorInv
  <2>2. saClock <= saClock
    BY <1>3
  <2> QED BY <1>1, <2>1, <2>2 DEF AdvisorInv
<1>10. Quiet \in [requests : Nat, cost : Nat] /\ Quiet.cost = 0 /\ Quiet.requests <= Len(seen)
  BY <1>3 DEF Quiet
<1> QED BY <1>2, <1>4, <1>5, <1>7, <1>8, <1>9, <1>10 DEF AdvisorInv

LEMMA AdvisorStep == AdvisorInv /\ [SaNext]_saVars => AdvisorInv'
<1> SUFFICES ASSUME AdvisorInv, [SaNext]_saVars PROVE AdvisorInv'
  OBVIOUS
<1>1. CASE UNCHANGED saVars
  BY <1>1 DEF saVars, AdvisorInv, spent, costs, uncounted
<1>2. CASE RecordRequest
  BY <1>2, RecordKeeps
<1>3. CASE TakeSnapshot
  BY <1>3, SnapshotKeeps
<1>4. CASE CheckAlerts \/ ClearFired
  <2>1. UNCHANGED <<running, snapshots, saClock, seen>>
    BY <1>4 DEF CheckAlerts, ClearFired
  <2>2. fired' \in [DOMAIN AlertThresholds -> Int]
        /\ \A t \in DOMAIN AlertThresholds : fired'[t] \in -1 .. saClock
    <3>1. saClock \in -1 .. saClock /\ saClock \in Int /\ NotFired \in -1 .. saClock /\ NotFired \in Int
      BY DEF AdvisorInv, NotFired
    <3> QED BY <1>4, <3>1 DEF CheckAlerts, ClearFired, AdvisorInv
  <2> QED BY <2>1, <2>2 DEF AdvisorInv
<1>5. CASE ClearModel
  <2>1. running' = Quiet /\ snapshots' = <<>> /\ seen' = <<>> /\ UNCHANGED <<fired, saClock>>
    BY <1>5 DEF ClearModel
  <2>2. uncounted(<<>>) = <<>> /\ \A from : costs(<<>>, from) = <<>>
    BY DEF uncounted, costs
  <2>3. sum_of(<<>>) = 0
    <3>1. <<>> \in Seq(Nat) /\ Len(<<>>) = 0
      OBVIOUS
    <3> QED BY <3>1, SumSteps
  <2> QED BY <2>1, <2>2, <2>3, SaAssumption DEF AdvisorInv, Quiet, spent
<1>6. CASE SaTick
  <2>1. saClock' = saClock + 1 /\ UNCHANGED <<running, snapshots, fired, seen>>
    BY <1>6 DEF SaTick
  <2>2. /\ saClock \in Nat /\ \A i \in DOMAIN seen : seen[i].at \in Int
        /\ \A i \in DOMAIN snapshots : snapshots[i].at \in Int
    BY Typed DEF AdvisorInv
  <2>3. /\ \A i \in DOMAIN seen : seen[i].at <= saClock'
        /\ \A i \in DOMAIN snapshots : snapshots[i].at <= saClock'
        /\ \A t \in DOMAIN AlertThresholds : fired[t] \in -1 .. saClock'
    BY <2>1, <2>2 DEF AdvisorInv
  <2> QED BY <2>1, <2>2, <2>3 DEF AdvisorInv
<1> QED BY <1>1, <1>2, <1>3, <1>4, <1>5, <1>6 DEF SaNext

LEMMA WindowSpent ==
    ASSUME NEW T, \A x \in T : x.cost \in Nat, NEW log \in Seq(T), NEW hours
    PROVE  total(since(log, hours)) = spent(log, saClock - hours)
<1>1. DOMAIN since(log, hours) = DOMAIN log
  BY DEF since
<1>2. \A i \in DOMAIN log : since(log, hours)[i].cost
         = IF Counts(log[i], saClock - hours) THEN log[i].cost ELSE 0
  BY DEF since, Counts, Quiet
<1>3. [i \in DOMAIN since(log, hours) |-> since(log, hours)[i].cost] = costs(log, saClock - hours)
  BY <1>1, <1>2 DEF costs
<1> QED BY <1>3 DEF total, spent

LEMMA AlertsStep == AdvisorInv /\ [SaNext]_saVars =>
    \A t \in DOMAIN AlertThresholds :
      /\ fired'[t] \notin {fired[t], NotFired} =>
           total(since(seen, AlertThresholds[t].period)) >= AlertThresholds[t].amount
      /\ fired'[t] # fired[t] /\ fired'[t] # NotFired /\ fired[t] # NotFired
           => fired'[t] - fired[t] >= AlertThresholds[t].period
<1> SUFFICES ASSUME AdvisorInv, [SaNext]_saVars, NEW t \in DOMAIN AlertThresholds,
                    fired'[t] \notin {fired[t], NotFired}
             PROVE  /\ total(since(seen, AlertThresholds[t].period)) >= AlertThresholds[t].amount
                    /\ fired[t] # NotFired => fired'[t] - fired[t] >= AlertThresholds[t].period
  OBVIOUS
<1>1. CheckAlerts
  <2>1. CASE ClearFired
    BY <2>1 DEF ClearFired
  <2>2. CASE UNCHANGED fired
    BY <2>2
  <2> QED BY <2>1, <2>2 DEF SaNext, saVars, RecordRequest, TakeSnapshot, ClearModel, SaTick
<1>2. triggered(t) /\ fired'[t] = saClock
  BY <1>1 DEF CheckAlerts
<1>3. PICK p \in Nat, m \in Nat : p = AlertThresholds[t].period /\ m = AlertThresholds[t].amount
  BY SaAssumption
<1>4. saClock - p \in Int /\ saClock \in Nat
  BY <1>3 DEF AdvisorInv
<1>5. /\ total(since(snapshots, p)) = spent(snapshots, saClock - p)
      /\ total(since(seen, p)) = spent(seen, saClock - p)
  BY Typed, WindowSpent DEF AdvisorInv
<1>6. spent(snapshots, saClock - p) \in Nat /\ spent(seen, saClock - p) \in Nat
  BY Typed, Amounts, SumNat DEF AdvisorInv, spent
<1>7. spent(snapshots, saClock - p) <= spent(seen, saClock - p)
  BY <1>4 DEF AdvisorInv
<1>8. total(since(snapshots, p)) >= m
  BY <1>2, <1>3 DEF triggered, get_total_cost
<1>9. total(since(seen, p)) >= m
  BY <1>5, <1>6, <1>7, <1>8
<1>10. fired[t] # NotFired => saClock - fired[t] >= p
  <2>1. fired[t] \in Int
    BY DEF AdvisorInv
  <2>2. ~deduplicated(t)
    BY <1>2 DEF triggered
  <2> QED BY <1>3, <1>4, <2>1, <2>2 DEF deduplicated
<1> QED BY <1>2, <1>3, <1>9, <1>10

LEMMA AdvisorSound == AdvisorInv => SaTypeOK /\ RecommendationsSave
<1> SUFFICES ASSUME AdvisorInv PROVE SaTypeOK /\ RecommendationsSave
  OBVIOUS
<1>1. SaTypeOK
  <2>1. running.requests \in 0 .. SaMaxRequests /\ running.cost \in Nat
    BY SaAssumption DEF AdvisorInv
  <2>2. \A i \in DOMAIN snapshots : snapshots[i].at \in 0 .. saClock /\ snapshots[i].cost \in Nat
    BY Typed DEF AdvisorInv
  <2>3. \A t \in DOMAIN fired : fired[t] \in -1 .. saClock
    BY DEF AdvisorInv
  <2> QED BY <2>1, <2>2, <2>3 DEF SaTypeOK, AdvisorInv
<1>2. ASSUME NEW a \in recommended(1)
      PROVE  total(since(snapshots, 1)) > tokens(since(snapshots, 1)) * a
  <2>1. a \in Nat /\ total(since(snapshots, 1)) - tokens(snapshots) * a > 0
    BY <1>2, SaAssumption DEF recommended, estimate_savings, get_total_cost
  <2>2. snapshots \in Seq(SnapshotType) /\ DOMAIN snapshots = 1 .. Len(snapshots) /\ Len(snapshots) \in Nat
        /\ \A i \in DOMAIN snapshots : snapshots[i] \in SnapshotType
    BY DEF AdvisorInv
  <2>3. PICK v, w : v = [i \in DOMAIN snapshots |-> snapshots[i].requests]
                    /\ w = [i \in DOMAIN since(snapshots, 1) |-> since(snapshots, 1)[i].requests]
    OBVIOUS
  <2>4. DOMAIN since(snapshots, 1) = 1 .. Len(snapshots)
        /\ \A i \in 1 .. Len(snapshots) : since(snapshots, 1)[i].requests \in {0, snapshots[i].requests}
    BY <2>2 DEF since, Quiet
  <2>5. \A i \in 1 .. Len(snapshots) : w[i] \in Nat /\ v[i] \in Nat /\ w[i] <= v[i]
    <3> TAKE i \in 1 .. Len(snapshots)
    <3>1. snapshots[i].requests \in Nat
      BY <2>2, Typed
    <3>2. v[i] = snapshots[i].requests /\ w[i] \in {0, snapshots[i].requests}
      BY <2>2, <2>3, <2>4
    <3> QED BY <3>1, <3>2
  <2>6. v \in Seq(Nat) /\ w \in Seq(Nat) /\ Len(v) = Len(snapshots) /\ Len(w) = Len(snapshots)
    <3>1. v = [i \in 1 .. Len(snapshots) |-> v[i]] /\ w = [i \in 1 .. Len(snapshots) |-> w[i]]
      BY <2>2, <2>3, <2>4
    <3> QED BY <2>2, <2>5, <3>1
  <2>7. PICK x \in Nat, y \in Nat : x = tokens(since(snapshots, 1)) /\ y = tokens(snapshots) /\ x <= y
    BY <2>3, <2>5, <2>6, SumsGrow, SumNat DEF tokens
  <2>8. PICK c \in Nat : c = total(since(snapshots, 1))
    BY <2>2, Typed, WindowSpent, Amounts, SumNat DEF spent
  <2>9. x * a <= y * a
    BY <2>1, <2>7, ProductGrows
  <2>10. PICK p \in Nat, q \in Nat : p = x * a /\ q = y * a
    <3>1. x * a \in Nat /\ y * a \in Nat
      BY <2>1
    <3> QED BY <3>1
  <2>11. c - q > 0 /\ p <= q
    BY <2>1, <2>7, <2>8, <2>9, <2>10
  <2>12. c > p
    BY <2>11
  <2> QED BY <2>7, <2>8, <2>10, <2>12
<1> QED BY <1>1, <1>2 DEF RecommendationsSave

-----------------------------------------------------------------------------
(* The components of MCResilience beside one another.                      *)

\* Every step of the bundle is, for each component, one of its steps or none.
LEMMA PartsStep ==
    ASSUME [ResilienceNext]_bundleVars
    PROVE  /\ [Next]_vars /\ [BhNext]_bhvars /\ [RqNext]_rqvars /\ [DgNext]_dgvars
           /\ [RgNext]_rgvars /\ [RrNext]_rrvars /\ [CwNext]_cwvars /\ [CsNext]_csvars
           /\ [SaNext]_saVars /\ [JwtNext]_jwtvars
  BY DEF ResilienceNext, bundleVars

\* The invariants of all the components.
ResilienceInv ==
    /\ IInv /\ BulkheadInv /\ QueueInv /\ DegradationInv /\ RegionsInv
    /\ ReloadInv /\ WatchInv /\ ConfigInv /\ AdvisorInv /\ JwtInv

LEMMA ResilienceInitially == ResilienceInit => ResilienceInv
  BY InitIInv, BulkheadStart, QueueStart, DegradationStart, RegionsStart, ReloadStart,
     WatchStart, ConfigStart, AdvisorStart, TokensStart DEF ResilienceInit, ResilienceInv

LEMMA ResilienceStep == ResilienceInv /\ [ResilienceNext]_bundleVars => ResilienceInv'
  BY PartsStep, NextIInv, BulkheadStep, QueueStep, DegradationStep, RegionsStep, ReloadStep,
     WatchStep, ConfigStep, AdvisorStep, TokensStep DEF ResilienceInv

LEMMA ResilienceInvariant == ResilienceSpec => []ResilienceInv
  BY ResilienceInitially, ResilienceStep, PTL DEF ResilienceSpec

\* The types of the state of every component: what the code declares of it, and
\* the bounds of the model.
THEOREM ResilienceTypes == ResilienceSpec => []TypesOK
<1>1. ResilienceInv => TypesOK
  BY BulkheadSound, QueueSound, ReloadSound, WatchSound, ConfigSound, AdvisorSound, TokensSound
     DEF ResilienceInv, IInv, TypesOK
<1> QED BY <1>1, ResilienceInvariant, PTL

\* What waits for capacity is neither lost nor let in beyond it: the slots and the
\* waiters that the bulkhead counts are those of the tasks, and the request queue
\* answers each request, in its order, in batches that are as full as they may be.
THEOREM QueuesCorrect == ResilienceSpec => QueuesKept
<1>1. ResilienceInv => SlotsConserved /\ WaitersCounted /\ RequestsInOrder
  BY BulkheadSound, QueueSound DEF ResilienceInv
<1>2. ResilienceInv /\ [ResilienceNext]_bundleVars =>
        [DrainBatch => \/ Len(drained') = Len(drained) + BatchSize
                       \/ depth' = <<>>]_rqvars
  BY PartsStep, BatchIsFull DEF ResilienceInv
<1> QED BY <1>1, <1>2, ResilienceInvariant, PTL
        DEF ResilienceSpec, QueuesKept, FullBatches

\* What is in force stays in step with what it was made from: the router that a
\* reload has built and the clients it shares with the router before it, the hash of
\* the watcher, the router of the stored configuration, and the keys of the tokens.
THEOREM StepsKept == ResilienceSpec => []KeptInStep
<1>1. ResilienceInv => KeptInStep
  BY ReloadSound, WatchSound, ConfigSound, TokensSound DEF ResilienceInv, KeptInStep
<1> QED BY <1>1, ResilienceInvariant, PTL

\* What is chosen or announced is what the figures say: the level of degradation,
\* the region and its deployment, what is recommended, and the alerts on the costs.
THEOREM ChoicesCorrect == ResilienceSpec => ChoicesRight
<1>1. ResilienceInv => EscalationExact /\ UnhealthyAvoided /\ NearestChosen /\ RecommendationsSave
  BY DegradationSound, UnhealthyLeft, NearestLeft, AdvisorSound DEF ResilienceInv
<1>2. ResilienceInv /\ [ResilienceNext]_bundleVars =>
        /\ [\A t \in DOMAIN AlertThresholds : fired'[t] \notin {fired[t], NotFired} =>
              total(since(seen, AlertThresholds[t].period)) >= AlertThresholds[t].amount]_saVars
        /\ [\A t \in DOMAIN AlertThresholds :
              fired'[t] # fired[t] /\ fired'[t] # NotFired /\ fired[t] # NotFired
                => fired'[t] - fired[t] >= AlertThresholds[t].period]_saVars
  BY PartsStep, AlertsStep DEF ResilienceInv
<1> QED BY <1>1, <1>2, ResilienceInvariant, PTL
        DEF ResilienceSpec, ChoicesRight, AlertsTrue, AlertsApart
=============================================================================
