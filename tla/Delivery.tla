------------------------------- MODULE Delivery -------------------------------
(* The three senders of observability/ that collect events and send them in   *)
(* batches: WebhookDelivery (webhooks.py), LangfuseClient (langfuse.py) and   *)
(* BaseLogExporter in batch mode (exporters/base.py). They take the events    *)
(* from the queue in the same way and differ in what they retry and in what   *)
(* they lock. The receiver is external.                                       *)
EXTENDS Integers, Sequences, SequencesExt, FiniteSets

CONSTANTS Senders,    \* the kinds of sender: "webhook", "langfuse", "exporter"
          DlEvents,   \* the events, 1..n, in the order they are enqueued
          BatchOf,    \* batch_size, _MAX_BATCH_SIZE or max_buffer_size
          MaxTries    \* max_retries of the webhook

(* The events are numbered in the order in which they are enqueued.           *)
ASSUME DlAssumption ==
    /\ IsFiniteSet(DlEvents) /\ DlEvents = 1 .. Cardinality(DlEvents)
    /\ MaxTries \in Nat

VARIABLES dl_kind,     \* the kind of this sender
          dl_queue,    \* _queue or _buffer
          dl_flight,   \* who is sending: its batch and the attempts it has made
          dl_timer,    \* whether the periodic flush runs
          dl_life,     \* "up", "stopping" before its flush, "flushing", "closed"
          dl_next,     \* the next event
          dl_received, \* what the receiver has got, in order
          dl_done,     \* events whose batch was answered with success
          dl_failed,   \* events whose batch was given up
          dl_lost,     \* events whose batch was dropped with its task
          dl_late      \* events enqueued after the last flush of the shutdown began

dlvars == <<dl_kind, dl_queue, dl_flight, dl_timer, dl_life, dl_next, dl_received, dl_done,
            dl_failed, dl_lost, dl_late>>

Timer == 0
Stopper == Cardinality(DlEvents) + 1
(* The task that enqueued an event sends the batch the event fills.           *)
Carriers == DlEvents \cup {Timer, Stopper}

Idle == [batch |-> <<>>, tries |-> 0]

DlInit ==
    /\ dl_kind \in Senders
    /\ dl_queue = <<>> /\ dl_flight = [c \in Carriers |-> Idle]
    /\ dl_timer = TRUE /\ dl_life = "up" /\ dl_next = 1
    /\ dl_received = <<>> /\ dl_done = {} /\ dl_failed = {} /\ dl_lost = {} /\ dl_late = {}

sending(c) == dl_flight[c].batch # <<>>

(* A plausible bug: the exporter, too, releases its lock before it writes.    *)
unlocked_always == TRUE

(* The exporter holds its lock while it writes; the others only while they    *)
(* take the batch.                                                            *)
unlocked == dl_kind = "exporter" => \A c \in Carriers : ~sending(c)

(* A plausible bug: the batch is not removed from the queue.                  *)
TakeBatch_copied(c, queue) ==
    /\ dl_flight' = [dl_flight EXCEPT ![c] = [batch |-> queue, tries |-> 0]]
    /\ dl_queue' = queue

(* flush(): the carrier takes the whole queue.                                *)
TakeBatch(c, queue) ==
    /\ dl_flight' = [dl_flight EXCEPT ![c] = [batch |-> queue, tries |-> 0]]
    /\ dl_queue' = <<>>

(* enqueue() or write(): a full queue is flushed by the task that filled it.  *)
EnqueueEvent ==
    LET queue == Append(dl_queue, dl_next)
    IN /\ dl_next \in DlEvents
       /\ dl_life # "closed"
       /\ unlocked
       /\ IF Len(queue) >= BatchOf THEN TakeBatch(dl_next, queue)
          ELSE dl_queue' = queue /\ UNCHANGED dl_flight
       /\ dl_next' = dl_next + 1
       /\ dl_late' = IF dl_life = "flushing" THEN dl_late \cup {dl_next} ELSE dl_late
       /\ UNCHANGED <<dl_kind, dl_timer, dl_life, dl_received, dl_done, dl_failed, dl_lost>>

(* A plausible bug: the timer, too, waits for a full batch.                    *)
PeriodicFlush_full ==
    /\ dl_timer /\ ~sending(Timer) /\ unlocked
    /\ Len(dl_queue) >= BatchOf
    /\ TakeBatch(Timer, dl_queue)
    /\ UNCHANGED <<dl_kind, dl_timer, dl_life, dl_next, dl_received, dl_done, dl_failed, dl_lost,
                   dl_late>>

(* _periodic_flush, which goes on after every flush.                          *)
PeriodicFlush ==
    /\ dl_timer /\ ~sending(Timer) /\ unlocked
    /\ dl_queue # <<>>
    /\ TakeBatch(Timer, dl_queue)
    /\ UNCHANGED <<dl_kind, dl_timer, dl_life, dl_next, dl_received, dl_done, dl_failed, dl_lost,
                   dl_late>>

(* A batch reaches the receiver; the sender does not know it yet.             *)
Arrives(c) ==
    /\ sending(c)
    /\ dl_received' = dl_received \o dl_flight[c].batch

Tries == CASE dl_kind = "webhook" -> MaxTries [] dl_kind = "langfuse" -> 2 [] OTHER -> 1

Land(c) == dl_flight' = [dl_flight EXCEPT ![c] = Idle]

(* An answer below 300, or a write that returns.                              *)
SendSucceeds(c) ==
    /\ Arrives(c)
    /\ Land(c)
    /\ dl_done' = dl_done \cup Range(dl_flight[c].batch)
    /\ UNCHANGED <<dl_kind, dl_queue, dl_timer, dl_life, dl_next, dl_failed, dl_lost, dl_late>>

(* The webhook gives up at once when it is told that the request is wrong.    *)
SendRefused(c) ==
    /\ sending(c) /\ dl_kind = "webhook"
    /\ Land(c)
    /\ dl_failed' = dl_failed \cup Range(dl_flight[c].batch)
    /\ UNCHANGED <<dl_kind, dl_queue, dl_timer, dl_life, dl_next, dl_received, dl_done, dl_lost,
                   dl_late>>

(* Any other answer or an error, which may hide that the batch has arrived:   *)
(* another attempt, or the batch is given up.                                 *)
SendFails(c) ==
    /\ sending(c)
    /\ Arrives(c) \/ UNCHANGED dl_received
    /\ IF dl_flight[c].tries + 1 < Tries
       THEN dl_flight' = [dl_flight EXCEPT ![c].tries = @ + 1] /\ UNCHANGED dl_failed
       ELSE Land(c) /\ dl_failed' = dl_failed \cup Range(dl_flight[c].batch)
    /\ UNCHANGED <<dl_kind, dl_queue, dl_timer, dl_life, dl_next, dl_done, dl_lost, dl_late>>

(* shutdown() or close() cancels the periodic flush wherever it is: a batch   *)
(* it was sending may have arrived or not.                                    *)
StopTimer ==
    /\ dl_life = "up"
    /\ dl_life' = "stopping" /\ dl_timer' = FALSE
    /\ (sending(Timer) /\ Arrives(Timer)) \/ UNCHANGED dl_received
    /\ Land(Timer)
    /\ dl_lost' = dl_lost \cup Range(dl_flight[Timer].batch)
    /\ UNCHANGED <<dl_kind, dl_queue, dl_next, dl_done, dl_failed, dl_late>>

(* A plausible bug: the shutdown does not flush.                              *)
StopFlush_none ==
    /\ dl_life = "stopping" /\ unlocked
    /\ dl_life' = "flushing"
    /\ UNCHANGED <<dl_kind, dl_queue, dl_flight, dl_timer, dl_next, dl_received, dl_done,
                   dl_failed, dl_lost, dl_late>>

(* Then it flushes what is queued,                                            *)
StopFlush ==
    /\ dl_life = "stopping" /\ unlocked
    /\ dl_life' = "flushing"
    /\ TakeBatch(Stopper, dl_queue)
    /\ UNCHANGED <<dl_kind, dl_timer, dl_next, dl_received, dl_done, dl_failed, dl_lost, dl_late>>

(* and closes the HTTP client, which the exporter does not have: a batch that *)
(* another task is sending is dropped with an exception in that task.         *)
CloseSender ==
    /\ dl_life = "flushing" /\ ~sending(Stopper)
    /\ dl_life' = "closed"
    /\ IF dl_kind = "exporter" THEN UNCHANGED <<dl_flight, dl_lost>>
       ELSE /\ dl_flight' = [c \in Carriers |-> Idle]
            /\ dl_lost' = dl_lost \cup UNION {Range(dl_flight[c].batch) : c \in Carriers}
    /\ UNCHANGED <<dl_kind, dl_queue, dl_timer, dl_next, dl_received, dl_done, dl_failed, dl_late>>

DlNext ==
    \/ EnqueueEvent \/ PeriodicFlush \/ StopTimer \/ StopFlush \/ CloseSender
    \/ \E c \in Carriers : SendSucceeds(c) \/ SendRefused(c) \/ SendFails(c)

(* The timer's sleep ends, and it gets the lock in its turn: asyncio.Lock     *)
(* serves its waiters in order. Every request and every write ends. Nobody    *)
(* has to stop the sender.                                                    *)
DlFairness ==
    /\ SF_dlvars(PeriodicFlush)
    /\ \A c \in Carriers : WF_dlvars(SendSucceeds(c) \/ SendRefused(c) \/ SendFails(c))

DlSpec == DlInit /\ [][DlNext]_dlvars /\ DlFairness

-----------------------------------------------------------------------------
Enqueued == 1 .. dl_next - 1

DlTypeOK ==
    /\ dl_kind \in Senders /\ dl_life \in {"up", "stopping", "flushing", "closed"}
    /\ Range(dl_queue) \subseteq Enqueued
    /\ \A c \in Carriers : dl_flight[c].tries \in 0 .. Tries
    /\ dl_done \cup dl_failed \cup dl_lost \cup dl_late \subseteq Enqueued

InHand == UNION {Range(dl_flight[c].batch) : c \in Carriers}

Fates == <<Range(dl_queue) \cup InHand, dl_done, dl_failed, dl_lost>>

(* Every event is in one place: queued, in the hands of one carrier, sent,    *)
(* given up or lost; it is lost only by a shutdown, and what was answered     *)
(* with success was received (webhooks.py:163, langfuse.py:166).              *)
EventsAccounted ==
    /\ IsInjective(dl_queue)
    /\ \A c \in Carriers :
          /\ IsInjective(dl_flight[c].batch)
          /\ Range(dl_flight[c].batch) \cap Range(dl_queue) = {}
          /\ \A d \in Carriers \ {c} : Range(dl_flight[c].batch) \cap Range(dl_flight[d].batch) = {}
    /\ Enqueued = UNION Range(Fates)
    /\ \A i, j \in DOMAIN Fates : i # j => Fates[i] \cap Fates[j] = {}
    /\ dl_lost # {} => dl_life # "up"
    /\ dl_done \subseteq Range(dl_received)

(* An exporter that is not stopped in the middle writes the records in the    *)
(* order they were logged, each at most once (exporters/base.py:180).         *)
ExportedInOrder ==
    dl_kind = "exporter" =>
        \A i, j \in DOMAIN dl_received : i < j => dl_received[i] < dl_received[j]

(* A sender that has been shut down has no event left but those that came     *)
(* while it was flushing for the last time (webhooks.py:144).                 *)
StopFlushes == dl_life = "closed" => Range(dl_queue) \subseteq dl_late

(* An event does not stay queued for ever, however few follow it, unless the  *)
(* sender is shut down (webhooks.py:304).                                     *)
EventLeavesQueue ==
    \A e \in DlEvents : (e \in Range(dl_queue)) ~> (e \notin Range(dl_queue) \/ dl_life # "up")
=============================================================================
