------------------------ MODULE EventPipelineProofs -------------------------
(***************************************************************************)
(* Theorems about EventPipeline: the queue keeps its bound and the flush   *)
(* never waits for an event, whatever the number of producers; a client    *)
(* closed by one thread closes its sender after its last flush; and the    *)
(* pipeline implements LossyChannel.                                       *)
(***************************************************************************)
EXTENDS EventPipeline, TLAPS

(* The part of the types that the arithmetic of the queue needs. *)
Counted ==
    /\ queue \in Seq(Nat) /\ accepted \in Nat
    /\ toTake \in Nat

QueueInv == Counted /\ QueueBounded

(* The queue is empty at first. *)
LEMMA QueueInvInit == Init => QueueInv
BY PipelineConstants DEF Init, QueueInv, Counted, QueueBounded

(* A put adds one event to a queue with room; only the flush removes events *)
(* and it counts each of them.                                              *)
LEMMA QueueInvStep == QueueInv /\ [Next]_vars => QueueInv'
<1> SUFFICES ASSUME QueueInv, [Next]_vars PROVE QueueInv'
  OBVIOUS
<1> USE PipelineConstants DEF QueueInv, Counted, QueueBounded
<1>1. ASSUME NEW w \in Writers, Put(w) PROVE QueueInv'
  <2>1. /\ accepted' \in Nat
        /\ queue' = Append(queue, accepted')
        /\ Len(queue) < Capacity
        /\ UNCHANGED <<flush, toTake>>
    BY <1>1 DEF Put, job
  <2>2. queue' \in Seq(Nat) /\ Len(queue') = Len(queue) + 1
    BY <2>1
  <2> QED  BY <2>1, <2>2
<1>2. CASE FlushBegin
  BY <1>2 DEF FlushBegin
<1>3. CASE FlushTake
  <2>1. /\ toTake > 0 /\ Len(queue) > 0
        /\ queue' = Tail(queue) /\ toTake' = toTake - 1
        /\ UNCHANGED <<flush, accepted>>
    BY <1>3 DEF FlushTake
  <2>2. queue' \in Seq(Nat) /\ Len(queue') = Len(queue) - 1
    BY <2>1
  <2> QED  BY <2>1, <2>2
<1>4. CASE FlushTaken \/ FlushAuthorized \/ FlushAuthFails \/ FlushReported
           \/ FlushSend \/ FlushEnd
  BY <1>4 DEF FlushTaken, FlushAuthorized, FlushAuthFails, FlushReported, FlushSend, FlushEnd
<1>5. ASSUME UNCHANGED <<queue, accepted, flush, toTake>> PROVE QueueInv'
  BY <1>5
<1>6. ASSUME NEW p \in Producers, Produce(p) PROVE UNCHANGED <<queue, accepted, flush, toTake>>
  BY <1>6 DEF Produce, job
<1>7. ASSUME NEW w \in Writers, PutTimeout(w)
      PROVE  UNCHANGED <<queue, accepted, flush, toTake>>
  BY <1>7 DEF PutTimeout, job
<1>8. ASSUME NEW k \in Closers, Closing(k) PROVE UNCHANGED <<queue, accepted, flush, toTake>>
  BY <1>8 DEF Closing, CloseCheck, CloseShutdown, CloseWait, CloseSender, job
<1>9. CASE StartPublishing \/ UNCHANGED vars
  BY <1>9, <1>5 DEF StartPublishing, vars, job
<1> QED
  BY <1>1, <1>2, <1>3, <1>4, <1>5, <1>6, <1>7, <1>8, <1>9 DEF Next, Enqueueing, Flushing

(* EventQueueHandler.enqueue_event and send_events: however many producers  *)
(* race past the size check, the queue keeps to its capacity; and the flush *)
(* finds every event it set out to take, so its get never blocks.           *)
THEOREM QueueKeepsItsBound == Spec => []QueueBounded
<1>1. QueueInv => QueueBounded
  BY DEF QueueInv
<1> QED  BY <1>1, QueueInvInit, QueueInvStep, PTL DEF Spec

-----------------------------------------------------------------------------
(* One thread closes the client.                                            *)

OneCloser == \A j, k \in Closers : j = k

Past == {"sender", "done"}

CloseInv ==
    /\ closer \in [Closers -> {"idle", "shutdown", "wait"} \cup Past]
    /\ scheduler \in {"new", "running", "stopped"}
    /\ scheduler = "stopped" => \E k \in Closers : closer[k] \in {"wait"} \cup Past
    /\ \A k \in Closers : closer[k] \in {"wait"} \cup Past => scheduler = "stopped"
    /\ \A k \in Closers : closer[k] \in Past => flush = "idle"
    /\ sender = "closed" => \E k \in Closers : closer[k] = "done"

(* Nobody has begun to close. *)
LEMMA CloseInvInit == Init => CloseInv
BY DEF Init, CloseInv, Past

(* The scheduler is stopped by the only closer, which has then waited for   *)
(* the job to end; a stopped scheduler starts no further one.               *)
LEMMA CloseInvStep == OneCloser /\ CloseInv /\ [Next]_vars => CloseInv'
<1> SUFFICES ASSUME OneCloser, CloseInv, [Next]_vars PROVE CloseInv'
  OBVIOUS
<1> USE DEF CloseInv, OneCloser, Past
<1>1. ASSUME NEW k \in Closers, CloseCheck(k) PROVE CloseInv'
  <2>1. scheduler = "running"
    BY <1>1 DEF CloseCheck
  <2> QED  BY <1>1, <2>1 DEF CloseCheck, job
<1>2. ASSUME NEW k \in Closers, CloseShutdown(k) PROVE CloseInv'
  <2>1. scheduler # "stopped"
    BY <1>2 DEF CloseShutdown
  <2> QED  BY <1>2, <2>1 DEF CloseShutdown, job
<1>3. ASSUME NEW k \in Closers, CloseWait(k) PROVE CloseInv'
  BY <1>3 DEF CloseWait, job
<1>4. ASSUME NEW k \in Closers, CloseSender(k) PROVE CloseInv'
  BY <1>4 DEF CloseSender, job
<1>5. CASE FlushBegin
  BY <1>5 DEF FlushBegin
<1>6. CASE FlushTake \/ FlushTaken \/ FlushAuthorized \/ FlushAuthFails
           \/ FlushReported \/ FlushSend \/ FlushEnd
  <2>1. flush # "idle" \/ flush' = flush
    BY <1>6 DEF FlushTake, FlushTaken, FlushAuthorized, FlushAuthFails, FlushReported,
                FlushSend, FlushEnd
  <2>2. UNCHANGED <<scheduler, sender, closer>>
    BY <1>6 DEF FlushTake, FlushTaken, FlushAuthorized, FlushAuthFails, FlushReported,
                FlushSend, FlushEnd
  <2> QED  BY <2>1, <2>2
<1>7. CASE StartPublishing
  BY <1>7 DEF StartPublishing, job
<1>8. ASSUME UNCHANGED <<flush, scheduler, sender, closer>> PROVE CloseInv'
  BY <1>8
<1>9. ASSUME (\E p \in Producers : Produce(p)) \/ Enqueueing \/ UNCHANGED vars
      PROVE  UNCHANGED <<flush, scheduler, sender, closer>>
  BY <1>9 DEF Produce, Enqueueing, Put, PutTimeout, vars, job
<1> QED
  BY <1>1, <1>2, <1>3, <1>4, <1>5, <1>6, <1>7, <1>8, <1>9 DEF Next, Flushing, Closing

(* BaseClient.close by one thread: the session of the event sender is       *)
(* closed only after the flush in flight has ended, and none starts later.  *)
THEOREM SenderClosedLast == ASSUME OneCloser PROVE Spec => []SenderOutlivesFlush
<1>1. CloseInv => SenderOutlivesFlush
  BY DEF CloseInv, Past, SenderOutlivesFlush
<1>2. CloseInv /\ [Next]_vars => CloseInv'
  BY CloseInvStep
<1> QED  BY <1>1, <1>2, CloseInvInit, PTL DEF Spec

-----------------------------------------------------------------------------
(* The pipeline implements the lossy channel.                               *)

(* A batch is a run of consecutive events. *)
Batch(b) ==
    /\ b \in Seq(Nat) /\ Len(b) \in 1 .. MaxBatch
    /\ \A j \in 1 .. Len(b) : b[j] = b[1] + j - 1

After(b) == b[1] + Len(b)           \* the event after a batch

Oldest == accepted - Len(queue) + 1 \* the event that would leave the queue next

Open == batches[Len(batches)]       \* the batch that takes it

(* The queue and the batches taken from it hold the events in order; what   *)
(* has been delivered comes before them.                                    *)
QueueOrder == \A i \in 1 .. Len(queue) : queue[i] = Oldest + i - 1

BatchOrder ==
    /\ batches \in Seq(Seq(Nat))
    /\ \A i \in 1 .. Len(batches) : Batch(batches[i]) /\ After(batches[i]) <= Oldest
    /\ \A i, j \in 1 .. Len(batches) : i < j => After(batches[i]) <= batches[j][1]
    /\ batches # <<>> => After(Open) = Oldest

Phases ==
    /\ flush = "idle" => batches = <<>>
    /\ flush \in {"send", "publish"} => batches # <<>>

SentOrder ==
    /\ delivered \in Seq(Nat)
    /\ Channel!Latest < Oldest
    /\ \A i \in 1 .. Len(batches) : Channel!Latest < batches[i][1]

OrderInv == QueueOrder /\ BatchOrder /\ Phases /\ SentOrder

(* The first event of a batch determines the others. *)
LEMMA BatchEnds ==
    ASSUME NEW b, Batch(b)
    PROVE  /\ b \in Seq(Nat) /\ Len(b) \in Nat /\ 1 <= Len(b) /\ Len(b) <= MaxBatch
           /\ b[1] \in Nat /\ b[Len(b)] = b[1] + Len(b) - 1
           /\ After(b) = b[1] + Len(b) /\ After(b) \in Nat
  <1>1. b \in Seq(Nat) /\ Len(b) \in Nat /\ 1 <= Len(b) /\ Len(b) <= MaxBatch
    BY PipelineConstants DEF Batch
  <1>2. b[1] \in Nat /\ b[Len(b)] = b[1] + Len(b) - 1
    BY <1>1 DEF Batch
  <1> QED  BY <1>1, <1>2 DEF After

(* Nothing is queued, batched or delivered yet. *)
LEMMA OrderInvInit == Init => OrderInv
BY PipelineConstants
   DEF Init, OrderInv, QueueOrder, BatchOrder, Phases, SentOrder, Oldest, Channel!Latest

(* Queueing appends the next event. *)
LEMMA PutInOrder ==
    ASSUME QueueInv, OrderInv, NEW w \in Writers, Put(w)
    PROVE  OrderInv' /\ Channel!Accept
  <1>1. /\ accepted' = accepted + 1 /\ queue' = Append(queue, accepted + 1)
        /\ UNCHANGED <<flush, batches, delivered>>
    BY DEF Put, job
  <1>2. queue \in Seq(Nat) /\ accepted \in Nat
    BY DEF QueueInv, Counted
  <1>3. /\ Len(queue') = Len(queue) + 1
        /\ \A i \in 1 .. Len(queue) : queue'[i] = queue[i]
        /\ queue'[Len(queue) + 1] = accepted + 1
    BY <1>1, <1>2
  <1>4. Oldest' = Oldest
    BY <1>1, <1>2, <1>3 DEF Oldest
  <1>5. QueueOrder'
    <2> SUFFICES ASSUME NEW i \in 1 .. Len(queue') PROVE queue'[i] = Oldest' + i - 1
      BY DEF QueueOrder
    <2>1. CASE i \in 1 .. Len(queue)
      BY <1>3, <1>4, <2>1 DEF OrderInv, QueueOrder
    <2>2. CASE i = Len(queue) + 1
      <3>1. Oldest' + i - 1 = accepted + 1
        BY <1>2, <1>4, <2>2 DEF Oldest
      <3> QED  BY <1>3, <2>2, <3>1
    <2> QED  BY <1>2, <1>3, <2>1, <2>2
  <1>6. Channel!Latest' = Channel!Latest /\ Open' = Open
    BY <1>1 DEF Channel!Latest, Open
  <1>7. BatchOrder' /\ Phases' /\ SentOrder'
    BY <1>1, <1>4, <1>6 DEF OrderInv, BatchOrder, Phases, SentOrder, Batch, After
  <1> QED  BY <1>1, <1>5, <1>7 DEF OrderInv, Channel!Accept

(* The flush puts the oldest event into the open batch, or opens one. *)
LEMMA TakeInOrder ==
    ASSUME QueueInv, OrderInv, FlushTake
    PROVE  OrderInv'
  <1> DEFINE e == Head(queue)
             n == Len(batches)
  <1>1. /\ toTake > 0 /\ flush = "take" /\ batches' = InBatches(e) /\ queue' = Tail(queue)
        /\ UNCHANGED <<flush, accepted, delivered>>
    BY DEF FlushTake
  <1>2. queue \in Seq(Nat) /\ accepted \in Nat /\ Len(queue) > 0
    BY <1>1 DEF QueueInv, Counted, QueueBounded
  <1>3. e = queue[1] /\ e \in Nat
    BY <1>2
  <1>4. e = Oldest
    BY <1>2, <1>3 DEF OrderInv, QueueOrder, Oldest
  <1>5. /\ queue' \in Seq(Nat) /\ Len(queue') = Len(queue) - 1
        /\ \A i \in 1 .. Len(queue') : queue'[i] = queue[i + 1]
    BY <1>1, <1>2
  <1>6. Oldest' = Oldest + 1
    BY <1>1, <1>2, <1>5 DEF Oldest
  <1>7. QueueOrder'
    <2> SUFFICES ASSUME NEW i \in 1 .. Len(queue') PROVE queue'[i] = Oldest' + i - 1
      BY DEF QueueOrder
    <2>1. i + 1 \in 1 .. Len(queue)
      BY <1>2, <1>5
    <2>2. queue[i + 1] = Oldest + (i + 1) - 1
      BY <2>1 DEF OrderInv, QueueOrder
    <2>3. Oldest \in Int /\ i \in Int
      BY <1>3, <1>4
    <2> QED  BY <1>5, <1>6, <2>2, <2>3
  <1>8. Channel!Latest' = Channel!Latest /\ Channel!Latest \in Int /\ Channel!Latest < Oldest
    BY <1>1 DEF Channel!Latest, OrderInv, SentOrder
  <1>9. /\ batches \in Seq(Seq(Nat)) /\ n \in Nat
        /\ \A i \in 1 .. n : Batch(batches[i]) /\ After(batches[i]) <= Oldest
                             /\ Channel!Latest < batches[i][1]
        /\ \A i, j \in 1 .. n : i < j => After(batches[i]) <= batches[j][1]
        /\ \A i \in 1 .. n : After(batches[i]) \in Int
    BY DEF OrderInv, BatchOrder, SentOrder, Batch, After
  <1>10. Phases'
    BY <1>1 DEF Phases
  <1>11. delivered' \in Seq(Nat) /\ Channel!Latest' < Oldest'
    BY <1>1, <1>3, <1>4, <1>6, <1>8 DEF OrderInv, SentOrder
  <1>12. CASE batches # <<>> /\ Len(Open) < MaxBatch
    <2> DEFINE b == Append(batches[n], e)
    <2>1. /\ n >= 1 /\ n \in 1 .. n /\ batches[n] \in Seq(Nat) /\ After(batches[n]) = e
      BY <1>4, <1>9, <1>12 DEF OrderInv, BatchOrder, Open
    <2>2. batches' = [batches EXCEPT ![n] = b]
      BY <1>1, <1>12 DEF InBatches, Open
    <2>3. Len(batches[n]) \in 1 .. MaxBatch - 1
      BY <1>9, <1>12, <2>1, PipelineConstants DEF Batch, Open
    <2>4. /\ b \in Seq(Nat) /\ Len(b) = Len(batches[n]) + 1
          /\ \A j \in 1 .. Len(batches[n]) : b[j] = batches[n][j]
          /\ b[Len(batches[n]) + 1] = e
      BY <1>3, <2>1
    <2>5. b[1] = batches[n][1] /\ b[1] \in Int
      BY <2>1, <2>3, <2>4
    <2>6. \A j \in 1 .. Len(b) : b[j] = b[1] + j - 1
      <3> SUFFICES ASSUME NEW j \in 1 .. Len(b) PROVE b[j] = b[1] + j - 1
        OBVIOUS
      <3>1. CASE j \in 1 .. Len(batches[n])
        <4>1. batches[n][j] = batches[n][1] + j - 1
          BY <1>9, <2>1, <3>1 DEF Batch
        <4> QED  BY <2>4, <2>5, <3>1, <4>1
      <3>2. CASE j = Len(batches[n]) + 1
        <4>1. e = b[1] + Len(batches[n])
          BY <2>1, <2>5 DEF After
        <4> QED  BY <2>3, <2>4, <2>5, <3>2, <4>1
      <3> QED  BY <2>3, <2>4, <3>1, <3>2
    <2>7. Batch(b) /\ After(b) = Oldest'
      <3>1. e = b[1] + Len(batches[n])
        BY <2>1, <2>5 DEF After
      <3>2. Len(batches[n]) \in Nat /\ Len(b) = Len(batches[n]) + 1 /\ Len(b) \in 1 .. MaxBatch
        BY <2>3, <2>4, PipelineConstants
      <3>3. b[1] + Len(b) = Oldest'
        BY <1>4, <1>6, <2>5, <3>1, <3>2
      <3>4. b \in Seq(Nat)
        BY <2>4
      <3> HIDE DEF b, e, n
      <3> QED  BY <2>6, <3>2, <3>3, <3>4 DEF Batch, After
    <2>8. /\ batches' \in Seq(Seq(Nat)) /\ Len(batches') = n /\ batches'[n] = b
          /\ \A i \in 1 .. n : i # n => batches'[i] = batches[i]
      BY <1>9, <2>1, <2>2, <2>4
    <2> HIDE DEF n, b, e
    <2>9. BatchOrder'
      <3>1. \A i \in 1 .. n : Batch(batches'[i]) /\ After(batches'[i]) <= Oldest'
        <4>1. \A i \in 1 .. n : i # n => Batch(batches'[i]) /\ After(batches'[i]) <= Oldest
          BY <1>9, <2>8
        <4>2. Batch(batches'[n]) /\ After(batches'[n]) <= Oldest'
          BY <1>3, <1>4, <1>6, <2>7, <2>8
        <4>3. Oldest \in Int
          BY <1>3, <1>4
        <4> SUFFICES ASSUME NEW i \in 1 .. n
                     PROVE  Batch(batches'[i]) /\ After(batches'[i]) <= Oldest'
          OBVIOUS
        <4>4. CASE i = n
          BY <4>2, <4>4
        <4>5. CASE i # n
          <5>1. Batch(batches'[i]) /\ After(batches'[i]) <= Oldest
            BY <4>1, <4>5
          <5>2. After(batches'[i]) \in Nat
            BY <5>1, BatchEnds
          <5> QED  BY <1>6, <4>3, <5>1, <5>2
        <4> QED  BY <4>4, <4>5
      <3>2. \A i, j \in 1 .. n : i < j => After(batches'[i]) <= batches'[j][1]
        <4> SUFFICES ASSUME NEW i \in 1 .. n, NEW j \in 1 .. n, i < j
                     PROVE  After(batches'[i]) <= batches'[j][1]
          OBVIOUS
        <4>1. i # n /\ batches'[i] = batches[i]
          BY <1>9, <2>8
        <4>2. CASE j = n
          BY <1>9, <2>5, <2>8, <4>1, <4>2
        <4>3. CASE j # n
          BY <1>9, <2>8, <4>1, <4>3
        <4> QED  BY <4>2, <4>3
      <3>3. Open' = b
        BY <2>8 DEF Open
      <3> QED  BY <2>7, <2>8, <3>1, <3>2, <3>3 DEF BatchOrder, Batch, After
    <2>10. SentOrder'
      <3>1. \A i \in 1 .. n : Channel!Latest' < batches'[i][1]
        BY <1>8, <1>9, <2>1, <2>5, <2>8
      <3> QED  BY <1>11, <2>8, <3>1 DEF SentOrder
    <2> QED  BY <1>7, <1>10, <2>9, <2>10 DEF OrderInv
  <1>13. CASE ~(batches # <<>> /\ Len(Open) < MaxBatch)
    <2>1. batches' = Append(batches, <<e>>)
      BY <1>1, <1>13 DEF InBatches, Open
    <2>2. /\ batches' \in Seq(Seq(Nat)) /\ Len(batches') = n + 1
          /\ batches'[n + 1] = <<e>>
          /\ \A i \in 1 .. n : batches'[i] = batches[i]
      BY <1>3, <1>9, <2>1
    <2>3. Batch(<<e>>) /\ After(<<e>>) = Oldest' /\ <<e>>[1] = Oldest
      BY <1>3, <1>4, <1>6, PipelineConstants DEF Batch, After
    <2> HIDE DEF n, e
    <2>4. BatchOrder'
      <3>1. \A i \in 1 .. n + 1 : Batch(batches'[i]) /\ After(batches'[i]) <= Oldest'
        <4> SUFFICES ASSUME NEW i \in 1 .. n + 1
                     PROVE  Batch(batches'[i]) /\ After(batches'[i]) <= Oldest'
          OBVIOUS
        <4>1. CASE i \in 1 .. n
          BY <1>3, <1>4, <1>6, <1>9, <2>2, <4>1
        <4>2. CASE i = n + 1
          BY <1>3, <1>4, <1>6, <2>2, <2>3, <4>2
        <4> QED  BY <1>9, <4>1, <4>2
      <3>2. \A i, j \in 1 .. n + 1 : i < j => After(batches'[i]) <= batches'[j][1]
        <4> SUFFICES ASSUME NEW i \in 1 .. n + 1, NEW j \in 1 .. n + 1, i < j
                     PROVE  After(batches'[i]) <= batches'[j][1]
          OBVIOUS
        <4>1. i \in 1 .. n /\ (j \in 1 .. n \/ j = n + 1)
          BY <1>9
        <4> QED  BY <1>9, <2>2, <2>3, <4>1
      <3>3. Open' = <<e>>
        BY <2>2 DEF Open
      <3> QED  BY <2>2, <2>3, <3>1, <3>2, <3>3 DEF BatchOrder, Batch, After
    <2>5. SentOrder'
      <3>1. \A i \in 1 .. n + 1 : Channel!Latest' < batches'[i][1]
        <4> SUFFICES ASSUME NEW i \in 1 .. n + 1 PROVE Channel!Latest' < batches'[i][1]
          OBVIOUS
        <4>1. i \in 1 .. n \/ i = n + 1
          BY <1>9
        <4> QED  BY <1>8, <1>9, <2>2, <2>3, <4>1
      <3> QED  BY <1>11, <2>2, <3>1 DEF SentOrder
    <2> QED  BY <1>7, <1>10, <2>4, <2>5 DEF OrderInv
  <1> QED  BY <1>12, <1>13

(* The first batch leaves: sent, received or not, or given up.              *)
LEMMA BatchLeaves ==
    ASSUME QueueInv, OrderInv, batches # <<>>, batches' = Tail(batches), flush' = "auth",
           UNCHANGED <<accepted, queue>>,
           delivered' = delivered \/ delivered' = delivered \o Head(batches)
    PROVE  OrderInv' /\ (Channel!Deliver \/ UNCHANGED <<accepted, delivered>>)
  <1> DEFINE b == Head(batches)
             n == Len(batches)
  <1>1. /\ n \in Nat /\ n >= 1 /\ batches \in Seq(Seq(Nat)) /\ b = batches[1] /\ Batch(b)
        /\ After(b) <= Oldest /\ Channel!Latest < b[1] /\ delivered \in Seq(Nat)
        /\ Channel!Latest < Oldest
    BY DEF OrderInv, BatchOrder, SentOrder
  <1>2. /\ batches' \in Seq(Seq(Nat)) /\ Len(batches') = n - 1
        /\ \A i \in 1 .. n - 1 : batches'[i] = batches[i + 1]
    BY <1>1
  <1>3. accepted \in Nat /\ Oldest \in Int /\ Oldest <= accepted + 1
    BY DEF QueueInv, Counted, Oldest
  <1>4. /\ b \in Seq(Nat) /\ Len(b) \in Nat /\ 1 <= Len(b) /\ Len(b) <= MaxBatch
        /\ b[1] \in Nat /\ b[Len(b)] = b[1] + Len(b) - 1
        /\ After(b) = b[1] + Len(b) /\ After(b) \in Int
    BY <1>1, BatchEnds
  <1>d. Channel!Latest \in Int
    BY <1>1 DEF Channel!Latest
  <1>b. b = [j \in 1 .. Len(b) |-> b[1] + j - 1]
    BY <1>1 DEF Batch
  <1>8. /\ \A i \in 1 .. n : Batch(batches[i]) /\ After(batches[i]) <= Oldest
                             /\ Channel!Latest < batches[i][1]
        /\ \A i, j \in 1 .. n : i < j => After(batches[i]) <= batches[j][1]
        /\ After(Open) = Oldest
    BY DEF OrderInv, BatchOrder, SentOrder
  <1>e. \A i \in 1 .. n : batches[i][1] \in Nat
    BY <1>8, BatchEnds
  <1>3b. delivered' = delivered \/ delivered' = delivered \o b
    OBVIOUS
  <1>3c. n = 1 \/ Open' = Open
    BY <1>1, <1>2 DEF Open
  <1> HIDE DEF b, n
  <1>5. delivered' \in Seq(Nat) /\ Channel!Latest' \in {Channel!Latest, After(b) - 1}
    <2>1. CASE delivered' = delivered
      BY <1>1, <2>1 DEF Channel!Latest
    <2>2. CASE delivered' = delivered \o b
      <3>1. /\ delivered' \in Seq(Nat) /\ Len(delivered') = Len(delivered) + Len(b)
            /\ delivered'[Len(delivered) + Len(b)] = b[Len(b)]
        BY <1>1, <1>4, <2>2
      <3>2. delivered' # <<>>
        BY <1>1, <1>4, <3>1
      <3>3. Channel!Latest' = b[Len(b)]
        BY <3>1, <3>2 DEF Channel!Latest
      <3> QED  BY <1>4, <3>1, <3>3
    <2> QED  BY <1>3b, <2>1, <2>2
  <1>6. Channel!Deliver \/ UNCHANGED <<accepted, delivered>>
    <2>1. CASE delivered' = delivered \o b
      <3>1. /\ b[1] \in Channel!Latest + 1 .. accepted /\ Len(b) \in 1 .. MaxBatch
            /\ b[1] + Len(b) - 1 <= accepted
        BY <1>1, <1>3, <1>4, <1>d, PipelineConstants
      <3> QED  BY <1>b, <2>1, <3>1 DEF Channel!Deliver
    <2> QED  BY <1>3b, <2>1
  <1>7. Oldest' = Oldest
    BY DEF Oldest
  <1>9. \A i \in 1 .. n - 1 : i + 1 \in 1 .. n /\ 1 < i + 1
    BY <1>1
  <1>10. SentOrder'
    <2>1. Channel!Latest' < Oldest
      BY <1>1, <1>3, <1>4, <1>5, <1>d
    <2>2. \A i \in 1 .. n - 1 : Channel!Latest' < batches'[i][1]
      <3> SUFFICES ASSUME NEW i \in 1 .. n - 1 PROVE Channel!Latest' < batches'[i][1]
        OBVIOUS
      <3>1. i + 1 \in 1 .. n /\ 1 \in 1 .. n /\ 1 < i + 1 /\ batches'[i] = batches[i + 1]
        BY <1>1, <1>2, <1>9
      <3>2. After(b) <= batches[i + 1][1] /\ Channel!Latest < batches[i + 1][1]
            /\ batches[i + 1][1] \in Nat
        BY <1>1, <1>8, <1>e, <3>1
      <3>3. CASE Channel!Latest' = Channel!Latest
        BY <3>1, <3>2, <3>3
      <3>4. CASE Channel!Latest' = After(b) - 1
        <4>1. After(b) - 1 < batches[i + 1][1]
          BY <1>4, <3>2
        <4> QED  BY <3>1, <3>4, <4>1
      <3> QED  BY <1>5, <3>3, <3>4
    <2> QED  BY <1>2, <1>5, <1>7, <2>1, <2>2 DEF SentOrder
  <1>11. BatchOrder'
    <2>1. \A i \in 1 .. n - 1 : Batch(batches'[i]) /\ After(batches'[i]) <= Oldest'
      BY <1>2, <1>7, <1>8, <1>9
    <2>2. \A i, j \in 1 .. n - 1 : i < j => After(batches'[i]) <= batches'[j][1]
      BY <1>1, <1>2, <1>8, <1>9
    <2>3. batches' # <<>> => Open' = Open
      BY <1>1, <1>2, <1>3c
    <2> QED  BY <1>2, <1>7, <1>8, <2>1, <2>2, <2>3 DEF BatchOrder, Batch, After
  <1>12. QueueOrder' /\ Phases'
    BY <1>7 DEF OrderInv, QueueOrder, Phases
  <1> QED  BY <1>6, <1>10, <1>11, <1>12 DEF OrderInv

(* The rest touches neither queue nor batches. *)
LEMMA RestInOrder ==
    ASSUME OrderInv, UNCHANGED <<queue, accepted, batches, delivered>>, Phases'
    PROVE  OrderInv' /\ UNCHANGED <<accepted, delivered>>
  <1>1. Oldest' = Oldest /\ Channel!Latest' = Channel!Latest /\ Open' = Open
    BY DEF Oldest, Open, Channel!Latest
  <1> QED
    BY <1>1 DEF OrderInv, QueueOrder, BatchOrder, SentOrder, Batch, After

(* Every step keeps the order, and is a step of the channel or none.        *)
LEMMA OrderStep ==
    ASSUME QueueInv, OrderInv, [Next]_vars
    PROVE  OrderInv' /\ [Channel!Next]_<<accepted, delivered>>
  <1> USE DEF Channel!Next
  <1>p. Phases
    BY DEF OrderInv
  <1>1. ASSUME NEW w \in Writers, Put(w)
        PROVE  OrderInv' /\ [Channel!Next]_<<accepted, delivered>>
    BY <1>1, PutInOrder
  <1>2. CASE FlushTake
    BY <1>2, TakeInOrder DEF FlushTake
  <1>3. CASE FlushSend
    <2>1. /\ batches # <<>> /\ batches' = Tail(batches) /\ flush' = "auth"
          /\ UNCHANGED <<accepted, queue>>
          /\ delivered' = delivered \/ delivered' = delivered \o Head(batches)
      BY <1>3, <1>p DEF FlushSend, Phases
    <2> QED  BY <2>1, BatchLeaves
  <1>4. CASE FlushReported
    <2>1. CASE flush' = "auth" /\ batches' = Tail(batches)
      <3>1. batches # <<>> /\ UNCHANGED <<accepted, queue, delivered>>
        BY <1>4, <1>p DEF FlushReported, Phases
      <3> QED  BY <2>1, <3>1, BatchLeaves
    <2>2. CASE flush' = "send" /\ UNCHANGED batches
      <3>1. Phases' /\ UNCHANGED <<queue, accepted, batches, delivered>>
        BY <1>4, <1>p, <2>2 DEF FlushReported, Phases
      <3> QED  BY <3>1, RestInOrder
    <2> QED  BY <1>4, <2>1, <2>2 DEF FlushReported
  <1>5. CASE FlushBegin \/ FlushTaken \/ FlushAuthorized \/ FlushAuthFails \/ FlushEnd
    <2>1. Phases' /\ UNCHANGED <<queue, accepted, batches, delivered>>
      BY <1>5, <1>p DEF FlushBegin, FlushTaken, FlushAuthorized, FlushAuthFails, FlushEnd,
                        Phases
    <2> QED  BY <2>1, RestInOrder
  <1>6. ASSUME UNCHANGED <<queue, accepted, job, delivered>>
        PROVE  OrderInv' /\ [Channel!Next]_<<accepted, delivered>>
    <2>1. Phases'
      BY <1>6, <1>p DEF Phases, job
    <2> QED  BY <1>6, <2>1, RestInOrder DEF job
  <1>7. ASSUME \/ \E p \in Producers : Produce(p)
               \/ \E w \in Writers : PutTimeout(w)
               \/ \E k \in Closers : Closing(k)
               \/ StartPublishing \/ UNCHANGED vars
        PROVE  UNCHANGED <<queue, accepted, job, delivered>>
    BY <1>7 DEF Produce, PutTimeout, Closing, CloseCheck, CloseShutdown, CloseWait,
                CloseSender, StartPublishing, vars
  <1> QED
    BY <1>1, <1>2, <1>3, <1>4, <1>5, <1>6, <1>7 DEF Next, Enqueueing, Flushing

(* send_events with its producers and closers, as a channel: the backend    *)
(* receives the events in order, in batches, none twice.                    *)
THEOREM ChannelImplemented == Spec => DeliveredAtMostOnceInOrder
<1> DEFINE Inv == QueueInv /\ OrderInv
<1>1. Init => Inv /\ Channel!Init
  BY QueueInvInit, OrderInvInit DEF Init, Channel!Init
<1>2. Inv /\ [Next]_vars => Inv' /\ [Channel!Next]_<<accepted, delivered>>
  BY QueueInvStep, OrderStep
<1> QED  BY <1>1, <1>2, PTL DEF Spec, Channel!Spec, DeliveredAtMostOnceInOrder

-----------------------------------------------------------------------------
(* Types.                                                                   *)

(* Events keep their numbers as more are queued. *)
LEMMA EventsRemain ==
    ASSUME NEW S, NEW T, S \subseteq T
    PROVE  Seq(S) \subseteq Seq(T)
  <1> SUFFICES ASSUME NEW s \in Seq(S) PROVE s \in Seq(T)
    OBVIOUS
  <1>1. Len(s) \in Nat /\ DOMAIN s = 1 .. Len(s) /\ \A i \in 1 .. Len(s) : s[i] \in T
    OBVIOUS
  <1>2. s = [i \in 1 .. Len(s) |-> s[i]]
    OBVIOUS
  <1> QED  BY <1>1, <1>2

(* Placing the oldest event keeps the batches what they are. *)
LEMMA BatchesTyped ==
    ASSUME NEW S, batches \in Seq(Seq(S)), NEW e \in S
    PROVE  InBatches(e) \in Seq(Seq(S))
  <1>1. <<e>> \in Seq(S) /\ Append(batches, <<e>>) \in Seq(Seq(S))
    OBVIOUS
  <1>2. CASE batches # <<>>
    <2>1. Len(batches) \in 1 .. Len(batches) /\ batches[Len(batches)] \in Seq(S)
      BY <1>2
    <2>2. Append(batches[Len(batches)], e) \in Seq(S)
      BY <2>1
    <2>3. [batches EXCEPT ![Len(batches)] = Append(@, e)] \in Seq(Seq(S))
      BY <2>1, <2>2
    <2> QED  BY <1>1, <2>3 DEF InBatches
  <1> QED  BY <1>1, <1>2 DEF InBatches

(* At first there are no events and nobody is at work. *)
LEMMA TypeInit == Init => TypeOK
BY PipelineConstants DEF Init, TypeOK

(* Every step keeps the types; only a put makes a new event. *)
LEMMA TypeStep ==
    ASSUME QueueInv, OrderInv, TypeOK, [Next]_vars
    PROVE  TypeOK'
  <1> USE PipelineConstants DEF TypeOK
  <1>q. /\ queue \in Seq(Nat) /\ toTake \in Nat /\ Len(queue) <= Capacity
        /\ flush = "take" => toTake <= Len(queue)
    BY DEF QueueInv, Counted, QueueBounded
  <1>b. flush \in {"send", "publish"} => batches # <<>>
    BY DEF OrderInv, Phases
  <1>1. ASSUME NEW w \in Writers, Put(w) PROVE TypeOK'
    <2>1. /\ accepted' = accepted + 1 /\ queue' = Append(queue, accepted')
          /\ accepted < MaxEvents /\ writer' = [writer EXCEPT ![w] = "idle"]
          /\ UNCHANGED <<job, delivered, scheduler, sender, closer>>
      BY <1>1 DEF Put
    <2>2. accepted' \in 0 .. MaxEvents
      BY <2>1
    <2>3. 1 .. accepted \subseteq 1 .. accepted' /\ accepted' \in 1 .. accepted'
      BY <2>1
    <2>4. queue' \in Seq(1 .. accepted') /\ delivered' \in Seq(1 .. accepted')
      <3>1. queue \in Seq(1 .. accepted') /\ delivered \in Seq(1 .. accepted')
        BY <2>3, EventsRemain
      <3> QED  BY <2>1, <2>3, <3>1
    <2>5. batches' \in Seq(Seq(1 .. accepted'))
      <3>1. Seq(1 .. accepted) \subseteq Seq(1 .. accepted')
        BY <2>3, EventsRemain
      <3>2. batches \in Seq(Seq(1 .. accepted'))
        BY <3>1, EventsRemain
      <3> QED  BY <2>1, <3>2 DEF job
    <2> QED  BY <2>1, <2>2, <2>4, <2>5 DEF job
  <1>2. CASE FlushBegin
    BY <1>2, <1>q DEF FlushBegin
  <1>3. CASE FlushTake
    <2>1. Len(queue) > 0 /\ Head(queue) \in 1 .. accepted /\ Tail(queue) \in Seq(1 .. accepted)
      BY <1>3, <1>q DEF FlushTake
    <2>2. InBatches(Head(queue)) \in Seq(Seq(1 .. accepted))
      BY <2>1, BatchesTyped
    <2>3. toTake' \in 0 .. Capacity
      BY <1>3, <1>q DEF FlushTake
    <2> QED  BY <1>3, <2>1, <2>2, <2>3 DEF FlushTake
  <1>4. CASE FlushTaken \/ FlushAuthorized \/ FlushEnd
    BY <1>4 DEF FlushTaken, FlushAuthorized, FlushEnd
  <1>5. CASE FlushAuthFails
    BY <1>5 DEF FlushAuthFails, CheckSize
  <1>6. CASE FlushReported
    <2>1. /\ flush = "publish" /\ flush' \in {"send", "auth"}
          /\ batches' = batches \/ batches' = Tail(batches)
          /\ UNCHANGED <<queue, accepted, writer, toTake, delivered, scheduler, sender, closer>>
      BY <1>6 DEF FlushReported
    <2>2. Tail(batches) \in Seq(Seq(1 .. accepted))
      BY <1>b, <2>1
    <2> QED  BY <2>1, <2>2
  <1>7. CASE FlushSend
    <2>1. /\ Head(batches) \in Seq(1 .. accepted)
          /\ Tail(batches) \in Seq(Seq(1 .. accepted))
      BY <1>7, <1>b DEF FlushSend
    <2>2. delivered \o Head(batches) \in Seq(1 .. accepted)
      BY <2>1
    <2> QED  BY <1>7, <2>1, <2>2 DEF FlushSend
  <1>8. ASSUME NEW p \in Producers, Produce(p) PROVE TypeOK'
    BY <1>8 DEF Produce, CheckSize, job
  <1>9. ASSUME NEW w \in Writers, PutTimeout(w) PROVE TypeOK'
    BY <1>9 DEF PutTimeout, job
  <1>10. ASSUME NEW k \in Closers, Closing(k) PROVE TypeOK'
    BY <1>10 DEF Closing, CloseCheck, CloseShutdown, CloseWait, CloseSender, job
  <1>11. CASE StartPublishing \/ UNCHANGED vars
    BY <1>11 DEF StartPublishing, vars, job
  <1> QED
    BY <1>1, <1>2, <1>3, <1>4, <1>5, <1>6, <1>7, <1>8, <1>9, <1>10, <1>11
    DEF Next, Enqueueing, Flushing

(* The queue, the batches and what was delivered hold only events that were *)
(* queued, and the flush never sets out to take more than the queue holds.  *)
THEOREM PipelineTyped == Spec => []TypeOK
<1> DEFINE Inv == QueueInv /\ OrderInv /\ TypeOK
<1>1. Init => Inv
  BY QueueInvInit, OrderInvInit, TypeInit
<1>2. Inv /\ [Next]_vars => Inv'
  BY QueueInvStep, OrderStep, TypeStep
<1> QED  BY <1>1, <1>2, PTL DEF Spec

-----------------------------------------------------------------------------
(* What the README promises of close() is true of a client that one thread  *)
(* closes: a call of close() does not return before the flush in flight has *)
(* ended.  The run events_two_closers refutes it for two threads.           *)
THEOREM OneCloserWaits == ASSUME OneCloser PROVE Spec => CloseWaitsForFlush
<1> DEFINE Waited == \A k \in Closers : closer[k] # "done" /\ closer'[k] = "done" => flush = "idle"
<1>1. CloseInv /\ [Next]_vars => [Waited]_vars
  <2> SUFFICES ASSUME CloseInv, [Next]_vars, NEW k \in Closers,
                      closer[k] # "done", closer'[k] = "done"
               PROVE  flush = "idle"
    OBVIOUS
  <2>1. PICK j \in Closers : Closing(j)
    BY DEF Next, Produce, Enqueueing, Put, PutTimeout, StartPublishing, Flushing, FlushBegin,
           FlushTake, FlushTaken, FlushAuthorized, FlushAuthFails, FlushReported, FlushSend,
           FlushEnd, vars
  <2>2. closer[k] = "sender"
    BY <2>1 DEF Closing, CloseCheck, CloseShutdown, CloseWait, CloseSender, CloseInv, Past
  <2> QED  BY <2>2 DEF CloseInv, Past
<1>2. CloseInv /\ [Next]_vars => CloseInv'
  BY CloseInvStep
<1> QED  BY <1>1, <1>2, CloseInvInit, PTL DEF Spec, CloseWaitsForFlush
=============================================================================
