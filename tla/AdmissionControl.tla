-------------------------- MODULE AdmissionControl --------------------------
(* What waits for capacity: the tasks at a bulkhead, the requests in a queue. *)
EXTENDS Integers, Sequences, FiniteSets, SequencesExt

(***************************************************************************)
(* The concurrency limiter of core/resilience/bulkhead.py: one Bulkhead    *)
(* and the tasks that go through its acquire() context manager.            *)
(*                                                                         *)
(* The lock of the bulkhead is never held across an await, so the          *)
(* sections under it are part of the stretch they stand in.  The           *)
(* asyncio.Semaphore is external: a FIFO of waiting tasks; a release gives *)
(* the slot to the first of them, which resumes later.                     *)
(***************************************************************************)

CONSTANTS BhTasks,       \* the tasks that call acquire()
          MaxConcurrent  \* BulkheadConfig.max_concurrent

ASSUME BulkheadAssumption == IsFiniteSet(BhTasks) /\ MaxConcurrent \in Nat \ {0}

VARIABLES place,      \* where each task is
          free,       \* Semaphore._value
          waiters,    \* Semaphore._waiters
          patient,    \* max_wait_seconds > 0
          bhActive,   \* _active
          bhWaiting   \* _waiting

bhvars == <<place, free, waiters, patient, bhActive, bhWaiting>>

Places == {"idle", "waiting", "granted", "inside"}
TasksIn(S) == {t \in BhTasks : place[t] \in S}

BhInit ==
    /\ place = [t \in BhTasks |-> "idle"]
    /\ free = MaxConcurrent
    /\ waiters = <<>>
    /\ patient \in BOOLEAN
    /\ bhActive = 0 /\ bhWaiting = 0

\* Semaphore.locked()
locked == free = 0 \/ waiters # <<>>

PlaceOf(t, q) == CHOOSE i \in DOMAIN q : q[i] = t

\* n free slots go to the first tasks of queue q that wait.
Woken(q, where, n) ==
    LET asleep(t) == {i \in 1..PlaceOf(t, q) : where[q[i]] = "waiting"}
    IN  {t \in Range(q) : where[t] = "waiting" /\ Cardinality(asleep(t)) <= n}

\* Task t leaves the queue for place p, and n slots are free before the wake-up.
Leave(t, p, n) ==
    LET q     == RemoveAt(waiters, PlaceOf(t, waiters))
        woken == Woken(q, [place EXCEPT ![t] = p], n)
    IN  /\ waiters' = q
        /\ place' = [u \in BhTasks |->
               IF u = t THEN p ELSE IF u \in woken THEN "granted" ELSE place[u]]
        /\ free' = n - Cardinality(woken)

-----------------------------------------------------------------------------
\* acquire() finds a slot.
AcquireFree(t) ==
    /\ place[t] = "idle" /\ ~locked
    /\ place' = [place EXCEPT ![t] = "inside"]
    /\ free' = free - 1
    /\ bhActive' = bhActive + 1
    /\ UNCHANGED <<waiters, patient, bhWaiting>>

\* Variant: a waiter is not counted.
AcquireWait_uncounted(t) ==
    /\ place[t] = "idle" /\ locked /\ patient
    /\ place' = [place EXCEPT ![t] = "waiting"]
    /\ waiters' = Append(waiters, t)
    /\ UNCHANGED <<free, patient, bhActive, bhWaiting>>

\* acquire() has to wait.  Without patience it raises BulkheadFullError instead,
\* and nothing has changed but the count of rejections, which is left out.
AcquireWait(t) ==
    /\ place[t] = "idle" /\ locked /\ patient
    /\ place' = [place EXCEPT ![t] = "waiting"]
    /\ waiters' = Append(waiters, t)
    /\ bhWaiting' = bhWaiting + 1
    /\ UNCHANGED <<free, patient, bhActive>>

\* A task that was given a slot goes on.
Resume(t) ==
    /\ place[t] = "granted"
    /\ Leave(t, "inside", free)
    /\ bhWaiting' = bhWaiting - 1
    /\ bhActive' = bhActive + 1
    /\ UNCHANGED patient

\* How many slots are free after task t has given up: one it was given already
\* is given back.
GivenBack(t) == IF place[t] = "granted" THEN free + 1 ELSE free

\* Variant: a slot that was given at the moment of the time-out is kept.
WaitTimeout_keeps(t) ==
    /\ place[t] \in {"waiting", "granted"}
    /\ Leave(t, "idle", free)
    /\ bhWaiting' = bhWaiting - 1
    /\ UNCHANGED <<patient, bhActive>>

\* wait_for times out.
WaitTimeout(t) ==
    /\ place[t] \in {"waiting", "granted"}
    /\ Leave(t, "idle", GivenBack(t))
    /\ bhWaiting' = bhWaiting - 1
    /\ UNCHANGED <<patient, bhActive>>

\* The task is cancelled while it waits; only a TimeoutError is caught, so that
\* _waiting is not decremented.
WaitCancelled(t) ==
    /\ place[t] \in {"waiting", "granted"}
    /\ bhWaiting < 2 * Cardinality(BhTasks)     \* bound of the model
    /\ Leave(t, "idle", GivenBack(t))
    /\ UNCHANGED <<patient, bhActive, bhWaiting>>

\* Variant: the slot is given back on success only, here: never.
Exit_keeps(t) ==
    /\ place[t] = "inside"
    /\ place' = [place EXCEPT ![t] = "idle"]
    /\ bhActive' = bhActive - 1
    /\ UNCHANGED <<free, waiters, patient, bhWaiting>>

\* The body ends, normally or by an exception.
Exit(t) ==
    /\ place[t] = "inside"
    /\ LET woken == Woken(waiters, place, 1)
       IN  /\ place' = [u \in BhTasks |->
                  IF u = t THEN "idle" ELSE IF u \in woken THEN "granted" ELSE place[u]]
           /\ free' = free + 1 - Cardinality(woken)
    /\ bhActive' = bhActive - 1
    /\ UNCHANGED <<waiters, patient, bhWaiting>>

BhNext == \E t \in BhTasks :
    \/ AcquireFree(t) \/ AcquireWait(t) \/ Resume(t)
    \/ WaitTimeout(t) \/ WaitCancelled(t) \/ Exit(t)

\* Bodies end and tasks that have a slot go on; nobody has to time out.
BhFairness == \A t \in BhTasks : WF_bhvars(Resume(t)) /\ WF_bhvars(Exit(t))

BhSpec == BhInit /\ [][BhNext]_bhvars /\ BhFairness

-----------------------------------------------------------------------------
BhTypeOK ==
    /\ place \in [BhTasks -> Places]
    /\ free \in 0..MaxConcurrent
    /\ waiters \in Seq(BhTasks)
    /\ patient \in BOOLEAN
    /\ bhActive \in Nat /\ bhWaiting \in Nat

\* Slots are neither lost nor made up, whatever a time-out or a cancellation
\* meets on its way: every slot is free, given to a task that has not resumed,
\* or used, and _active is the number of those used.
SlotsConserved ==
    /\ free + Cardinality(TasksIn({"granted", "inside"})) = MaxConcurrent
    /\ bhActive = Cardinality(TasksIn({"inside"}))

\* _waiting never shows fewer waiters than there are.  (It may show more: see
\* WaitCancelled.)
WaitersCounted == bhWaiting >= Len(waiters)

\* Whoever waits and does not give up gets a slot.
WaiterServed == \A t \in BhTasks : place[t] = "waiting" ~> place[t] # "waiting"

-----------------------------------------------------------------------------
(***************************************************************************)
(* The bounded queue of core/resilience/request_queue.py.  Its methods     *)
(* have no await inside, so each is one action.  Time only matters through *)
(* is_expired: a queued request outlives its ttl by the action Age.        *)
(***************************************************************************)

CONSTANTS Queued,      \* identities of the requests
          QueueSize,   \* max_size
          BatchSize    \* drain_batch_size

ASSUME QueueAssumption == QueueSize \in Nat \ {0} /\ BatchSize \in Nat \ {0}

VARIABLES depth,    \* _queue, the requests in it
          stale,    \* the requests that are past their ttl
          taken,    \* enqueue() has been called with them
          drained,  \* what drain() has returned so far, in order
          expired,  \* counted by _total_expired
          dropped   \* by clear(), or rejected

rqvars == <<depth, stale, taken, drained, expired, dropped>>

RqInit ==
    /\ depth = <<>> /\ drained = <<>>
    /\ stale = {} /\ expired = {} /\ dropped = {}
    /\ taken = <<>>

\* enqueue(): a full queue rejects the request.
Enqueue(q) ==
    /\ q \notin Range(taken)
    /\ taken' = Append(taken, q)
    /\ IF Len(depth) < QueueSize
       THEN depth' = Append(depth, q) /\ UNCHANGED dropped
       ELSE dropped' = dropped \cup {q} /\ UNCHANGED depth
    /\ UNCHANGED <<stale, drained, expired>>

Age(q) ==
    /\ q \in Range(taken) \ stale
    /\ stale' = stale \cup {q}
    /\ UNCHANGED <<depth, taken, drained, expired, dropped>>

live(q) == q \notin stale

\* The results of drain(), when it has taken n entries off the queue.
results[n \in 0..Len(depth)] ==
    IF n = 0 THEN <<>>
    ELSE IF live(depth[n]) THEN Append(results[n - 1], depth[n])
    ELSE results[n - 1]

\* Variant: expired requests use up the batch.
Looked_limit(limit) == IF limit < Len(depth) THEN limit ELSE Len(depth)

\* How many entries drain(limit) takes off the queue: up to the limit-th live
\* one, or all.
Looked(limit) ==
    Min({Len(depth)} \cup {n \in 0..Len(depth) : Len(results[n]) = limit})

Drain(limit) ==
    LET off == SubSeq(depth, 1, Looked(limit))
    IN  /\ depth # <<>>
        /\ depth' = SubSeq(depth, Looked(limit) + 1, Len(depth))
        /\ drained' = drained \o results[Looked(limit)]
        /\ expired' = expired \cup (Range(off) \cap stale)
        /\ UNCHANGED <<stale, taken, dropped>>

\* drain() with the configured batch, and drain_all().
DrainBatch == Drain(BatchSize)
DrainAll == Drain(Len(depth) + 1)

\* Variant: clear() loses the queue without a trace.
Clear_lost ==
    /\ depth # <<>>
    /\ depth' = <<>>
    /\ UNCHANGED <<stale, taken, drained, expired, dropped>>

Clear ==
    /\ depth # <<>>
    /\ dropped' = dropped \cup Range(depth)
    /\ depth' = <<>>
    /\ UNCHANGED <<stale, taken, drained, expired>>

RqNext ==
    \/ \E q \in Queued : Enqueue(q) \/ Age(q)
    \/ DrainBatch \/ DrainAll \/ Clear

RqSpec == RqInit /\ [][RqNext]_rqvars

-----------------------------------------------------------------------------
RqTypeOK ==
    /\ depth \in Seq(Queued) /\ drained \in Seq(Queued) /\ taken \in Seq(Queued)
    /\ stale \subseteq Queued /\ expired \subseteq Queued /\ dropped \subseteq Queued

\* Every request that was offered is in exactly one place, and those drained
\* before those still queued, both in the order in which they were offered.
RequestsInOrder ==
    /\ IsInjective(taken) /\ IsInjective(drained \o depth)
    /\ \A i, j \in DOMAIN (drained \o depth) : i < j =>
          \E k, m \in DOMAIN taken :
             k < m /\ taken[k] = (drained \o depth)[i] /\ taken[m] = (drained \o depth)[j]
    /\ Range(taken) = Range(drained \o depth) \cup expired \cup dropped
    /\ Range(drained \o depth) \cap (expired \cup dropped) = {}
    /\ expired \cap dropped = {}

\* A drained batch is smaller than asked for only if the queue is empty
\* afterwards: expired requests do not take the place of live ones.
FullBatches ==
    [][DrainBatch => \/ Len(drained') = Len(drained) + BatchSize
                     \/ depth' = <<>>]_rqvars
=============================================================================
