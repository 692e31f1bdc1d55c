----------------------------- MODULE WorkerPool -----------------------------
(* The asynchronous jobs: their queue, and the workers that run them.       *)
EXTENDS Integers, SequencesExt

(***************************************************************************)
(* The JobQueue of core/batch/job_queue.py: the job table and the priority *)
(* queue of the jobs to run.  The two are separate structures: cancelling  *)
(* or expiring a job changes its status and leaves its queue entry behind. *)
(*                                                                         *)
(* Methods that a worker calls in the middle of a longer uninterrupted     *)
(* stretch of code (take, complete, fail) are operators on the two         *)
(* structures; the calls of clients are actions.                           *)
(*                                                                         *)
(* The queue orders its entries by priority and then by the time they were *)
(* put, taken to be increasing: here it is the sequence of the entries in  *)
(* the order of their puts, and the best entry is searched in it.          *)
(***************************************************************************)

CONSTANTS Jobs,          \* identifiers of the jobs that clients submit
          MaxPending,    \* QueueConfig.max_pending_jobs
          MaxAttempts    \* QueueConfig.retry_max_attempts

ASSUME QueueAssumption ==
    /\ IsFiniteSet(Jobs)
    /\ MaxPending \in Nat \ {0}
    /\ MaxAttempts \in Nat \ {0}

VARIABLES job,       \* _jobs: status, priority and attempts of each job
          pending    \* _pending: job identifiers, in the order of their puts

qvars == <<job, pending>>

\* "new" and "removed" are jobs that are not in the table: not submitted yet,
\* or dropped by clear().
Statuses == {"new", "pending", "in_progress", "completed", "failed",
             "cancelled", "expired", "removed"}
Priorities == 0..2      \* _PRIORITY_ORDER: high, medium, low

Known(jobs, j) == jobs[j].status \notin {"new", "removed"}

WithStatus(s) == {j \in Jobs : job[j].status = s}

-----------------------------------------------------------------------------
\* Variant: the queue is a plain FIFO queue.
before_fifo(jobs, q, i, k) == i <= k

\* Entry i goes before entry k.
before(jobs, q, i, k) ==
    \/ jobs[q[i]].prio < jobs[q[k]].prio
    \/ jobs[q[i]].prio = jobs[q[k]].prio /\ i <= k

\* The entry get_nowait() returns.
best(jobs, q) == CHOOSE i \in DOMAIN q : \A k \in DOMAIN q : before(jobs, q, i, k)

\* take(): the best entry leaves the queue whatever the status of its job; the
\* job starts only if it is pending.
takes(jobs, q) == q # <<>> /\ jobs[q[best(jobs, q)]].status = "pending"

take_queue(jobs, q) == IF q = <<>> THEN q ELSE RemoveAt(q, best(jobs, q))

take_job(jobs, q) ==
    IF takes(jobs, q)
    THEN [jobs EXCEPT ![q[best(jobs, q)]].status = "in_progress",
                      ![q[best(jobs, q)]].attempts = @ + 1]
    ELSE jobs

\* complete(): the status the job has by now is not looked at.
complete(jobs, j) ==
    IF Known(jobs, j) THEN [jobs EXCEPT ![j].status = "completed"] ELSE jobs

\* Variants: one attempt too many; the entry of a retried job is not put back.
retried_inclusive(jobs, j) == Known(jobs, j) /\ jobs[j].attempts <= MaxAttempts

fail_queue_lost(jobs, q, j) == q

\* fail(): a job with attempts left becomes pending again, whatever its
\* status, and is put back; a job without becomes failed.
retried(jobs, j) == Known(jobs, j) /\ jobs[j].attempts < MaxAttempts

fail_job(jobs, j) ==
    IF ~Known(jobs, j) THEN jobs
    ELSE [jobs EXCEPT ![j].status = IF retried(jobs, j) THEN "pending" ELSE "failed"]

fail_queue(jobs, q, j) == IF retried(jobs, j) THEN Append(q, j) ELSE q

-----------------------------------------------------------------------------
QInit ==
    /\ job = [j \in Jobs |-> [status |-> "new", prio |-> 0, attempts |-> 0]]
    /\ pending = <<>>

\* submit(): at the limit it raises QueueFullError and changes nothing.
Submit(j, p) ==
    /\ job[j].status = "new"
    /\ Cardinality(WithStatus("pending")) < MaxPending
    /\ job' = [job EXCEPT ![j].status = "pending", ![j].prio = p]
    /\ pending' = Append(pending, j)

\* cancel() returns True, also for a job that has expired.
Cancel(j) ==
    /\ job[j].status \in {"pending", "in_progress", "expired"}
    /\ job' = [job EXCEPT ![j].status = "cancelled"]
    /\ UNCHANGED pending

\* expire_stale_jobs(): the jobs S are those whose age exceeds their ttl.  Time
\* is not modelled, so they are any of the jobs it looks at.
ExpireStale(S) ==
    /\ S # {}
    /\ job' = [j \in Jobs |-> IF j \in S THEN [job[j] EXCEPT !.status = "expired"]
                                         ELSE job[j]]
    /\ UNCHANGED pending

\* clear()
Clear ==
    /\ \E j \in Jobs : Known(job, j)
    /\ job' = [j \in Jobs |-> IF Known(job, j) THEN [job[j] EXCEPT !.status = "removed"]
                                               ELSE job[j]]
    /\ pending' = <<>>

ClientStep ==
    \/ \E j \in Jobs : Cancel(j) \/ \E p \in Priorities : Submit(j, p)
    \/ \E S \in SUBSET (WithStatus("pending") \cup WithStatus("in_progress")) : ExpireStale(S)
    \/ Clear

-----------------------------------------------------------------------------
(***************************************************************************)
(* The WorkerPool of core/batch/worker_pool.py at work on the JobQueue.    *)
(*                                                                         *)
(* A worker is an asyncio task that waits in four places: in the handler,  *)
(* in the callback POST after a completed job, in the backoff sleep after  *)
(* a failed one, and in the poll sleep when take() returned None.  What it *)
(* does between two of them is one action, up to and including the take of *)
(* the next job.                                                           *)
(***************************************************************************)

CONSTANTS Workers,       \* worker tasks: at most so many alive at a time
          WorkerCount,   \* QueueConfig.worker_count, those that one start() makes
          HasCallback,   \* the jobs with a callback_url
          NoJob          \* not a job

ASSUME PoolAssumption ==
    /\ WorkerCount \in Nat
    /\ HasCallback \subseteq Jobs
    /\ NoJob \notin Jobs

VARIABLES running,   \* _running
          worker     \* what each worker is waiting for, and its job

pvars == <<running, worker>>
vars  == <<job, pending, running, worker>>

Places == {"none", "ready", "handling", "callback", "backoff", "polling"}

At(place) == [at |-> place, job |-> NoJob]

Init ==
    /\ QInit
    /\ running = FALSE
    /\ worker = [w \in Workers |-> At("none")]

\* Variant: the loop is "while True".
LoopTop_forever(w, js, q) ==
    /\ job' = take_job(js, q)
    /\ pending' = take_queue(js, q)
    /\ worker' = [worker EXCEPT ![w] =
           IF takes(js, q) THEN [at |-> "handling", job |-> q[best(js, q)]]
                           ELSE At("polling")]

\* The top of the loop of worker w, with the job table js and the queue q as
\* the code before it in the same step has left them.
LoopTop(w, js, q) ==
    \/ /\ ~running
       /\ job' = js
       /\ pending' = q
       /\ worker' = [worker EXCEPT ![w] = At("none")]
    \/ /\ running
       /\ job' = take_job(js, q)
       /\ pending' = take_queue(js, q)
       /\ worker' = [worker EXCEPT ![w] =
              IF takes(js, q) THEN [at |-> "handling", job |-> q[best(js, q)]]
                              ELSE At("polling")]

Spare == {w \in Workers : worker[w].at = "none"}

\* start() looks at _running only: called while a stop() waits for the workers,
\* it adds new ones to those, which go on.
Start ==
    /\ ~running
    /\ running' = TRUE
    /\ \E new \in kSubset(WorkerCount, Spare) :
          worker' = [w \in Workers |-> IF w \in new THEN At("ready") ELSE worker[w]]
    /\ UNCHANGED qvars

\* Variant: the tasks are dropped and not awaited.
Stop_drops ==
    /\ running
    /\ running' = FALSE
    /\ worker' = [w \in Workers |-> [worker[w] EXCEPT !.at = "none"]]
    /\ UNCHANGED <<job, pending>>

\* stop(): the workers leave when they next come to the top of their loop.
Stop ==
    /\ running
    /\ running' = FALSE
    /\ UNCHANGED <<job, pending, worker>>

\* A new worker runs for the first time, or a sleep or the POST is over.
Resume(w) ==
    /\ worker[w].at \in {"ready", "callback", "backoff", "polling"}
    /\ LoopTop(w, job, pending)
    /\ UNCHANGED running

\* The handler returns a result: complete(), and the callback if there is one,
\* unless a stop() that a start() overtook has closed the client it goes out by.
HandlerReturns(w) ==
    /\ worker[w].at = "handling"
    /\ \/ /\ worker[w].job \in HasCallback
          /\ job' = complete(job, worker[w].job)
          /\ worker' = [worker EXCEPT ![w] = At("callback")]
          /\ UNCHANGED pending
       \/ LoopTop(w, complete(job, worker[w].job), pending)
    /\ UNCHANGED running

\* The handler raises: fail(), and the backoff sleep if the job is pending.
HandlerRaises(w) ==
    LET j  == worker[w].job
        js == fail_job(job, j)
        q  == fail_queue(job, pending, j)
    IN  /\ worker[w].at = "handling"
        /\ \/ /\ js[j].status = "pending"
              /\ job' = js
              /\ pending' = q
              /\ worker' = [worker EXCEPT ![w] = At("backoff")]
           \/ /\ js[j].status # "pending"
              /\ LoopTop(w, js, q)
        /\ UNCHANGED running

WorkerStep(w) == Resume(w) \/ HandlerReturns(w) \/ HandlerRaises(w)

Next ==
    \/ \E w \in Workers : WorkerStep(w)
    \/ ClientStep /\ UNCHANGED pvars
    \/ Start
    \/ Stop

Spec == Init /\ [][Next]_vars

\* Sleeps and POSTs end, and so does every handler, one way or the other.
FairSpec == Spec /\ \A w \in Workers : WF_vars(WorkerStep(w))

-----------------------------------------------------------------------------
\* Type invariant.
TypeOK ==
    /\ job \in [Jobs -> [status : Statuses, prio : Priorities, attempts : Nat]]
    /\ pending \in Seq(Jobs)
    /\ running \in BOOLEAN
    /\ worker \in [Workers -> [at : Places, job : Jobs \cup {NoJob}]]
    /\ \A w \in Workers : worker[w].at = "handling" <=> worker[w].job # NoJob

\* Every job is in one place: a pending job has its entry in the queue and a
\* job in progress has its worker, so that no accepted job is forgotten; a job
\* is never queued twice, never handled by two workers, and never queued while
\* it is handled, so that none runs twice at a time.
InOnePlace ==
    /\ \A j \in Jobs : job[j].status = "pending" => \E i \in DOMAIN pending : pending[i] = j
    /\ \A j \in Jobs : job[j].status = "in_progress" => \E w \in Workers : worker[w].job = j
    /\ \A i, k \in DOMAIN pending : i # k => pending[i] # pending[k]
    /\ \A v, w \in Workers : v # w /\ worker[v].job # NoJob => worker[v].job # worker[w].job
    /\ \A i \in DOMAIN pending, w \in Workers : pending[i] # worker[w].job

\* A job is attempted at most retry_max_attempts times, a failed one exactly
\* that often, and a job that waits has an attempt left, also when it was
\* cancelled or expired and came back.
AttemptsBounded ==
    \A j \in Jobs :
        /\ job[j].attempts <= MaxAttempts
        /\ job[j].status = "failed" => job[j].attempts = MaxAttempts
        /\ job[j].status = "pending" => job[j].attempts < MaxAttempts

\* No job starts while a pending job of a higher priority waits, with entries
\* of cancelled, expired and retried jobs in the queue.
PriorityRespected ==
    [][\A i, j \in Jobs :
          (job[i].status = "pending" /\ job'[i].status = "in_progress"
           /\ job[j].status = "pending" /\ job'[j].status = "pending")
          => job[i].prio <= job[j].prio]_vars

\* While the pool runs, every job that is submitted ends: it is completed or
\* failed, or was cancelled, expired or removed.
EveryJobEnds ==
    \A j \in Jobs : (job[j].status \in {"pending", "in_progress"}) ~>
        (job[j].status \in {"completed", "failed", "cancelled", "expired", "removed"}
         \/ ~running)

\* A stop() that has been called returns, unless a start() overtakes it: every
\* worker comes to the top of its loop and leaves it, however many jobs are
\* still queued, cancelled or retried.
StopReturns ==
    (~running) ~> (running \/ \A w \in Workers : worker[w].at = "none")

-----------------------------------------------------------------------------
(* What the documentation says and the code does not do.                   *)

\* cancel() "Returns True if cancelled": a job that was cancelled stays so.
CancelIsFinal ==
    [][\A j \in Jobs : job[j].status = "cancelled" =>
          job'[j].status \in {"cancelled", "removed"}]_vars
=============================================================================
