----------------------------- MODULE BatchManager -----------------------------
(***************************************************************************)
(* The BatchManager of core/batch/batch_manager.py behind the routes of    *)
(* proxy/routes/batches.py: a batch is created by a request, executed by   *)
(* the background task of that request, and may be cancelled by another    *)
(* request at any moment in between.  Nothing is kept across a restart.    *)
(***************************************************************************)
EXTENDS Integers, Sequences, FiniteSets, SequencesExt

CONSTANTS BatchIds,      \* ids uuid4() makes
          CustomIds,     \* custom_id values of requests
          MaxBatch,      \* config.max_batch_size
          Concurrency    \* of execute_batch

ASSUME BatchAssumption == MaxBatch \in Nat /\ Concurrency \in Nat \ {0}

VARIABLES batches,   \* _batches: id |-> Batch, on the ids created
          task       \* id |-> the background task and its _process_one()s

bmvars == <<batches, task>>

BmFinal == {"completed", "failed", "cancelled"}
RequestLists == SeqOf(CustomIds, MaxBatch + 1)

BmInit == batches = <<>> /\ task = <<>>

\* The checks of create_batch().
valid_batch(requests) ==
    requests # <<>> /\ Len(requests) <= MaxBatch /\ IsInjective(requests)

\* POST /batches: a list that is not valid is answered with 400.
CreateBatch(b, requests) ==
    /\ b \notin DOMAIN batches
    /\ valid_batch(requests)
    /\ batches' = [i \in DOMAIN batches \cup {b} |->
           IF i # b THEN batches[i]
           ELSE [status |-> "in_progress", input |-> requests, results |-> <<>>,
                 completed |-> 0, failed |-> 0]]
    /\ task' = [i \in DOMAIN task \cup {b} |->
           IF i # b THEN task[i] ELSE [at |-> "scheduled", work |-> <<>>]]

\* The background task begins execute_batch(): a batch that was cancelled before is
\* left alone.
StartExecute(b) ==
    /\ task[b].at = "scheduled"
    /\ task' = [task EXCEPT ![b] =
           IF batches[b].status = "in_progress"
           THEN [at |-> "gather", work |-> [i \in DOMAIN batches[b].input |-> "waiting"]]
           ELSE [at |-> "done", work |-> <<>>]]
    /\ UNCHANGED batches

in_hand(b) == {i \in DOMAIN task[b].work : task[b].work[i] = "running"}

\* Variant: one request more than the semaphore has slots.
AcquireSlot_over(b, i) ==
    /\ task[b].at = "gather" /\ task[b].work[i] = "waiting"
    /\ \A j \in 1..(i - 1) : task[b].work[j] # "waiting"
    /\ Cardinality(in_hand(b)) <= Concurrency
    /\ task' = [task EXCEPT ![b].work[i] = "running"]
    /\ UNCHANGED batches

\* _process_one() of request i gets the semaphore, which is first come, first served,
\* and calls the handler.
AcquireSlot(b, i) ==
    /\ task[b].at = "gather" /\ task[b].work[i] = "waiting"
    /\ \A j \in 1..(i - 1) : task[b].work[j] # "waiting"
    /\ Cardinality(in_hand(b)) < Concurrency
    /\ task' = [task EXCEPT ![b].work[i] = "running"]
    /\ UNCHANGED batches

\* Variant: an exception of a handler ends the whole task.
HandlerEnds_raises(b, i, outcome) ==
    /\ task[b].at = "gather" /\ task[b].work[i] = "running"
    /\ task' = [task EXCEPT ![b] = IF outcome = "error" THEN [at |-> "done", work |-> <<>>]
                                   ELSE [@ EXCEPT !.work[i] = outcome]]
    /\ UNCHANGED batches

\* The handler returns or raises; an exception becomes a result of status 500.
HandlerEnds(b, i, outcome) ==
    /\ task[b].at = "gather" /\ task[b].work[i] = "running"
    /\ task' = [task EXCEPT ![b].work[i] = outcome]
    /\ UNCHANGED batches

final_status(b, failed) == IF failed = Len(batches[b].input) THEN "failed" ELSE "completed"

\* Variant: a batch cancelled meanwhile is not given its counts.
ExecuteEnds_uncounted(b) ==
    /\ task[b].at = "gather"
    /\ \A i \in DOMAIN task[b].work : task[b].work[i] \in {"ok", "error"}
    /\ LET results == task[b].work
           failed  == Cardinality({i \in DOMAIN results : results[i] = "error"})
       IN  batches' = [batches EXCEPT ![b].results = results,
                                      ![b].status = final_status(b, failed)]
    /\ task' = [task EXCEPT ![b] = [at |-> "done", work |-> <<>>]]

\* gather() returns; the status is overwritten, whatever it has become.
ExecuteEnds(b) ==
    /\ task[b].at = "gather"
    /\ \A i \in DOMAIN task[b].work : task[b].work[i] \in {"ok", "error"}
    /\ LET results == task[b].work
           failed  == Cardinality({i \in DOMAIN results : results[i] = "error"})
       IN  batches' = [batches EXCEPT
               ![b].results = @ \o results,
               ![b].completed = Len(results) - failed,
               ![b].failed = failed,
               ![b].status = final_status(b, failed)]
    /\ task' = [task EXCEPT ![b] = [at |-> "done", work |-> <<>>]]

\* Variant: only a completed batch is protected.
CancelBatch_failed(b) ==
    /\ batches[b].status \notin {"completed", "cancelled"}
    /\ batches' = [batches EXCEPT ![b].status = "cancelled"]
    /\ UNCHANGED task

\* POST /batches/{id}/cancel; it does not touch the task.
CancelBatch(b) ==
    /\ batches[b].status \notin BmFinal
    /\ batches' = [batches EXCEPT ![b].status = "cancelled"]
    /\ UNCHANGED task

BmNext ==
    \/ \E b \in BatchIds, requests \in RequestLists : CreateBatch(b, requests)
    \/ \E b \in DOMAIN batches :
         \/ StartExecute(b) \/ ExecuteEnds(b) \/ CancelBatch(b)
         \/ \E i \in DOMAIN task[b].work :
              \/ AcquireSlot(b, i)
              \/ \E outcome \in {"ok", "error"} : HandlerEnds(b, i, outcome)

\* The background task goes on, and handlers end.
BmProgress(b) ==
    /\ b \in DOMAIN batches
    /\ \/ StartExecute(b) \/ ExecuteEnds(b)
       \/ \E i \in DOMAIN task[b].work :
            \/ AcquireSlot(b, i)
            \/ \E outcome \in {"ok", "error"} : HandlerEnds(b, i, outcome)

BmFairness == \A b \in BatchIds : WF_bmvars(BmProgress(b))

BmSpec == BmInit /\ [][BmNext]_bmvars /\ BmFairness

-----------------------------------------------------------------------------
BmTypeOK ==
    /\ DOMAIN batches \subseteq BatchIds /\ DOMAIN task = DOMAIN batches
    /\ \A b \in DOMAIN batches :
         /\ batches[b].status \in BmFinal \cup {"in_progress"}
         /\ batches[b].completed \in Nat /\ batches[b].failed \in Nat
         /\ task[b].at \in {"scheduled", "gather", "done"}

\* A batch whose task has run has one result per request, in the order of the
\* requests, and counts that add up to them, whether it was cancelled meanwhile or not;
\* one whose task has not run has none.
ResultsComplete == \A b \in DOMAIN batches :
    LET batch == batches[b]
    IN  /\ batch.results # <<>> => Len(batch.results) = Len(batch.input)
        /\ batch.completed + batch.failed = Len(batch.results)
        /\ batch.status \in {"completed", "failed"} => batch.results # <<>>
        /\ batch.status = "failed" => batch.completed = 0

\* Never more requests of a batch run at once than it may have slots.
ConcurrencyHonoured == \A b \in DOMAIN batches : Cardinality(in_hand(b)) <= Concurrency

\* A batch that has been executed stays as it was answered: neither a late cancel nor
\* a second look changes its status or results.
ExecutedIsFinal == [][\A b \in DOMAIN batches :
    batches[b].status \in {"completed", "failed"} => batches'[b] = batches[b]]_bmvars

\* A batch for which cancel answered "cancelled" stays cancelled (batch_manager.py:
\* "Returns True if cancelled").  Does not hold: the end of the execution overwrites it.
CancelledStays == [][\A b \in DOMAIN batches :
    batches[b].status = "cancelled" => batches'[b].status = "cancelled"]_bmvars

\* Every batch ends, and so does its background task.
BatchEnds == \A b \in BatchIds :
    b \in DOMAIN batches ~> (b \in DOMAIN batches /\ batches[b].status \in BmFinal /\ task[b].at = "done")
=============================================================================
