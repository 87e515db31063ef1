--------------------------- MODULE EventPipeline ---------------------------
(***************************************************************************)
(* The event queue and its publisher: common/events/event_queue_handler.py *)
(* and events/publisher/queued_event_publisher.py, with the part of        *)
(* BaseClient.close that stops them.                                       *)
(*                                                                         *)
(* Producers are the threads that call event_publisher.send (API calls,    *)
(* the token refresher).  The flush job of the scheduler drains the queue  *)
(* into batches and sends them; to send one it asks for an auth token, and *)
(* a failed token fetch makes it a producer as well.  Closers run          *)
(* BaseClient.close concurrently.  APScheduler is external: one instance   *)
(* of the job at a time; shutdown(wait=True) sets the state, then waits.   *)
(*                                                                         *)
(* A definition whose name ends in _Bug is a variant of the one after it   *)
(* with a plausible mistake; it is no part of the specification.           *)
(***************************************************************************)
EXTENDS Integers, Sequences, FiniteSets

CONSTANTS
    Producers, Flusher,     \* threads that enqueue events
    Closers,                \* threads that run BaseClient.close, once each
    Capacity,               \* MAX_TOTAL_EVENTS_IN_QUEUE
    MaxBatch,               \* MAX_EVENTS_IN_BATCH
    MaxEvents               \* bound: number of events ever queued

ASSUME PipelineConstants ==
    /\ Flusher \notin Producers
    /\ Capacity \in Nat \ {0} /\ MaxBatch \in Nat \ {0} /\ MaxEvents \in Nat

Writers == Producers \cup {Flusher}

VARIABLES
    queue,          \* the events queued, oldest first, by number
    accepted,       \* number of events queued so far
    writer,         \* enqueue_event: "idle" or "put" (past the size check)
    flush,          \* the job: "idle", "take", "auth", "publish", "send"
    toTake,         \* events it still intends to take from the queue
    batches,        \* batches taken and not sent yet
    delivered,      \* events the backend has received
    scheduler,      \* "new", "running" or "stopped"
    sender,         \* event_sender's session: "open", or "closed"
    closer          \* close(): "idle", "shutdown", "wait", "sender", "done"

job == <<flush, toTake, batches>>
vars == <<queue, accepted, writer, job, delivered, scheduler, sender, closer>>

Init ==
    /\ queue = <<>> /\ accepted = 0 /\ delivered = <<>>
    /\ writer = [w \in Writers |-> "idle"]
    /\ flush = "idle" /\ toTake = 0 /\ batches = <<>>
    /\ scheduler = "new" /\ sender = "open"
    /\ closer = [k \in Closers |-> "idle"]

-----------------------------------------------------------------------------
(* enqueue_event.  A full queue skips the event at once; a queue that fills *)
(* up after the check makes put wait for one second, then drop the event.   *)

CheckSize(w) ==
    /\ writer[w] = "idle"
    /\ Len(queue) < Capacity
    /\ accepted < MaxEvents
    /\ writer' = [writer EXCEPT ![w] = "put"]

Produce(p) ==
    /\ CheckSize(p)
    /\ UNCHANGED <<queue, accepted, job, delivered, scheduler, sender, closer>>

Put_Bug(w) ==                   \* the queue has no size of its own
    /\ writer[w] = "put"
    /\ accepted < MaxEvents
    /\ accepted' = accepted + 1
    /\ queue' = Append(queue, accepted')
    /\ writer' = [writer EXCEPT ![w] = "idle"]
    /\ UNCHANGED <<job, delivered, scheduler, sender, closer>>

Put(w) ==
    /\ writer[w] = "put"
    /\ Len(queue) < Capacity /\ accepted < MaxEvents
    /\ accepted' = accepted + 1
    /\ queue' = Append(queue, accepted')
    /\ writer' = [writer EXCEPT ![w] = "idle"]
    /\ UNCHANGED <<job, delivered, scheduler, sender, closer>>

PutTimeout_Bug(w) == FALSE /\ UNCHANGED vars    \* put(data) without a timeout

PutTimeout(w) ==
    /\ writer[w] = "put"
    /\ Len(queue) >= Capacity \/ accepted >= MaxEvents
    /\ writer' = [writer EXCEPT ![w] = "idle"]
    /\ UNCHANGED <<queue, accepted, job, delivered, scheduler, sender, closer>>

-----------------------------------------------------------------------------
(* The flush job                                                            *)

StartPublishing ==
    /\ scheduler = "new"
    /\ scheduler' = "running"
    /\ UNCHANGED <<queue, accepted, writer, job, delivered, sender, closer>>

FlushBegin_Bug ==               \* only once a batch is full
    /\ scheduler = "running" /\ flush = "idle"
    /\ Len(queue) >= MaxBatch
    /\ flush' = "take" /\ toTake' = Len(queue)
    /\ UNCHANGED <<queue, accepted, writer, batches, delivered, scheduler, sender, closer>>

(* send_events: the number of events to process is fixed here. *)
FlushBegin ==
    /\ scheduler = "running" /\ flush = "idle"
    /\ queue # <<>>
    /\ flush' = "take" /\ toTake' = Len(queue)
    /\ UNCHANGED <<queue, accepted, writer, batches, delivered, scheduler, sender, closer>>

(* The last batch is still open to events unless it is full. *)
InBatches(e) ==
    IF batches # <<>> /\ Len(batches[Len(batches)]) < MaxBatch
      THEN [batches EXCEPT ![Len(batches)] = Append(@, e)]
      ELSE Append(batches, <<e>>)

FlushTake ==
    /\ flush = "take" /\ toTake > 0
    /\ batches' = InBatches(Head(queue))
    /\ queue' = Tail(queue)
    /\ toTake' = toTake - 1
    /\ UNCHANGED <<accepted, writer, flush, delivered, scheduler, sender, closer>>

FlushTaken ==
    /\ flush = "take" /\ toTake = 0
    /\ flush' = "auth"
    /\ UNCHANGED <<queue, accepted, writer, toTake, batches, delivered, scheduler, sender, closer>>

(* auth_token_supplier(), i.e. get_auth_token: it returns a token, or its   *)
(* failed fetch is reported through this same queue first.                  *)
FlushAuthorized ==
    /\ flush = "auth" /\ batches # <<>>
    /\ flush' = "send"
    /\ UNCHANGED <<queue, accepted, writer, toTake, batches, delivered, scheduler, sender, closer>>

FlushAuthFails ==
    /\ flush = "auth" /\ batches # <<>>
    /\ flush' = "publish"
    /\ \/ CheckSize(Flusher)
       \/ Len(queue) >= Capacity /\ UNCHANGED writer
    /\ UNCHANGED <<queue, accepted, toTake, batches, delivered, scheduler, sender, closer>>

(* The event is queued or dropped: the cached token is used after all, or   *)
(* there is none, the call raises and the batch is given up.                *)
FlushReported ==
    /\ flush = "publish" /\ writer[Flusher] = "idle"
    /\ \/ flush' = "send" /\ UNCHANGED batches
       \/ flush' = "auth" /\ batches' = Tail(batches)
    /\ UNCHANGED <<queue, accepted, writer, toTake, delivered, scheduler, sender, closer>>

FlushSend_Bug ==                \* a batch whose answer is lost is sent again
    /\ flush = "send"
    /\ flush' = "auth"
    /\ delivered' = delivered \o Head(batches)
    /\ batches' \in {batches, Tail(batches)}
    /\ UNCHANGED <<queue, accepted, writer, toTake, scheduler, sender, closer>>

(* One attempt.  It arrives, or not, whatever the answer; an exception is   *)
(* logged and the batch is gone.                                            *)
FlushSend ==
    /\ flush = "send"
    /\ flush' = "auth"
    /\ delivered' \in {delivered, delivered \o Head(batches)}
    /\ batches' = Tail(batches)
    /\ UNCHANGED <<queue, accepted, writer, toTake, scheduler, sender, closer>>

FlushEnd ==
    /\ flush = "auth" /\ batches = <<>>
    /\ flush' = "idle"
    /\ UNCHANGED <<queue, accepted, writer, toTake, batches, delivered, scheduler, sender, closer>>

-----------------------------------------------------------------------------
(* BaseClient.close: event_publisher.close, then event_sender.close.  The   *)
(* client is closed by its user, after construction.                        *)

CloseCheck(k) ==                \* self._scheduler.state != STATE_STOPPED
    /\ closer[k] = "idle" /\ scheduler # "new"
    /\ closer' = [closer EXCEPT ![k] = IF scheduler = "stopped" THEN "sender" ELSE "shutdown"]
    /\ UNCHANGED <<queue, accepted, writer, job, delivered, scheduler, sender>>

(* shutdown raises if another closer got there first; close() logs it and   *)
(* goes on with the next component.                                         *)
CloseShutdown(k) ==
    /\ closer[k] = "shutdown"
    /\ closer' = [closer EXCEPT ![k] = IF scheduler = "stopped" THEN "sender" ELSE "wait"]
    /\ scheduler' = "stopped"
    /\ UNCHANGED <<queue, accepted, writer, job, delivered, sender>>

CloseWait_Bug(k) ==             \* shutdown(wait=False)
    /\ closer[k] = "wait"
    /\ closer' = [closer EXCEPT ![k] = "sender"]
    /\ UNCHANGED <<queue, accepted, writer, job, delivered, scheduler, sender>>

CloseWait(k) ==
    /\ closer[k] = "wait" /\ flush = "idle"
    /\ closer' = [closer EXCEPT ![k] = "sender"]
    /\ UNCHANGED <<queue, accepted, writer, job, delivered, scheduler, sender>>

CloseSender(k) ==
    /\ closer[k] = "sender"
    /\ closer' = [closer EXCEPT ![k] = "done"]
    /\ sender' = "closed"
    /\ UNCHANGED <<queue, accepted, writer, job, delivered, scheduler>>

-----------------------------------------------------------------------------
Enqueueing == \E w \in Writers : Put(w) \/ PutTimeout(w)

Flushing ==
    \/ FlushBegin \/ FlushTake \/ FlushTaken \/ FlushAuthorized \/ FlushAuthFails
    \/ FlushReported \/ FlushSend \/ FlushEnd

Closing(k) == CloseCheck(k) \/ CloseShutdown(k) \/ CloseWait(k) \/ CloseSender(k)

Next ==
    \/ \E p \in Producers : Produce(p)
    \/ Enqueueing
    \/ StartPublishing
    \/ Flushing
    \/ \E k \in Closers : Closing(k)

Spec == Init /\ [][Next]_vars

(* The scheduler runs the job every second, requests end by their timeouts, *)
(* and every put ends by its own; a started close() runs.                   *)
Fairness ==
    /\ \A w \in Writers : WF_vars(Put(w) \/ PutTimeout(w))
    /\ WF_vars(StartPublishing) /\ WF_vars(Flushing)
    /\ \A k \in Closers : WF_vars(CloseShutdown(k) \/ CloseWait(k) \/ CloseSender(k))

FairSpec == Spec /\ Fairness

-----------------------------------------------------------------------------
(* Every variable holds a value of its type. *)
TypeOK ==
    /\ accepted \in 0 .. MaxEvents
    /\ queue \in Seq(1 .. accepted) /\ delivered \in Seq(1 .. accepted)
    /\ writer \in [Writers -> {"idle", "put"}]
    /\ flush \in {"idle", "take", "auth", "publish", "send"}
    /\ toTake \in 0 .. Capacity
    /\ batches \in Seq(Seq(1 .. accepted))
    /\ scheduler \in {"new", "running", "stopped"}
    /\ sender \in {"open", "closed"}
    /\ closer \in [Closers -> {"idle", "shutdown", "wait", "sender", "done"}]

(* The size check and the put are two steps, yet producers that race past   *)
(* the check together never grow the queue beyond its capacity; and the job *)
(* never intends to take more than the queue holds, so it never waits.      *)
QueueBounded ==
    /\ Len(queue) <= Capacity
    /\ flush = "take" => toTake <= Len(queue)

(* What the backend receives is a lossy channel of the events queued: in    *)
(* order, in batches, nothing twice, although flushes, failures and new     *)
(* events interleave.                                                       *)
Channel == INSTANCE LossyChannel

DeliveredAtMostOnceInOrder == Channel!Spec

(* When one thread closes the client, the session the publisher sends       *)
(* through is closed only after the flush in flight has ended, so no flush  *)
(* uses it afterwards.                                                      *)
SenderOutlivesFlush == sender = "closed" => flush = "idle"

(* Closing ends, although it waits for a flush that may be waiting for room *)
(* in the very queue that only the flush empties.                           *)
CloseEnds == \A k \in Closers : closer[k] = "shutdown" ~> closer[k] = "done"

(* No event stays in the queue while the client is open: producers that go  *)
(* on queueing do not keep a flush from ending.                             *)
EventsLeave ==
    \A e \in 1 .. MaxEvents :
        (\E i \in 1 .. Len(queue) : queue[i] = e)
            ~> scheduler = "stopped" \/ (\A i \in 1 .. Len(queue) : queue[i] # e)

(* What the README says of close(): it is safe to call multiple times and   *)
(* waits for any in-flight event flush.  A call that finds the scheduler    *)
(* already stopped by another call does not wait.                           *)
CloseWaitsForFlush ==
    [][\A k \in Closers : closer[k] # "done" /\ closer'[k] = "done" => flush = "idle"]_vars
=============================================================================
