--------------------------- MODULE MailboxBatcher ---------------------------
(***************************************************************************)
(* The relay mailbox clearing service.  Webhook handlers put the receipts  *)
(* of queued messages into a bounded channel; the batcher collects them    *)
(* into batches, full or timed out; the relay handler takes the batches    *)
(* from a second bounded channel and hands them to the relay one by one.   *)
(***************************************************************************)
EXTENDS Naturals, SequencesExt

CONSTANTS
    MaxBatchSize,  \* BATCH_SIZE
    ChannelSize,   \* capacity of relay_mailbox_clearer_tx
    QueueSize,     \* BATCHES_QUEUE_SIZE
    MaxReceipts    \* bound: receipts sent in one behaviour

\* "MATCH_BATCH_SIZE must be at least 2"
ASSUME BatcherAssumption ==
    /\ MaxBatchSize \in Nat /\ MaxBatchSize >= 2
    /\ ChannelSize \in Nat \ {0} /\ QueueSize \in Nat \ {0}
    /\ MaxReceipts \in Nat

VARIABLES
    sent,      \* number of receipts accepted by the first channel: 1, 2, ...
    open,      \* some webhook handler still owns a sender
    items,     \* items_to_batch
    buffer,    \* batch_buffer
    batcher,   \* "recv", "send" (awaiting room for a batch) or "done"
    output,    \* output_batches
    inflight,  \* the batch given to batch_receive, empty if none
    returned,  \* history: receipts whose batch_receive call has returned, in order
    failed     \* history: those whose call returned an error

vars == <<sent, open, items, buffer, batcher, output, inflight, returned, failed>>

Receipts == 1..MaxReceipts

TypeOK ==
    /\ sent \in 0..MaxReceipts
    /\ open \in BOOLEAN
    /\ items \in Seq(Receipts) /\ Len(items) <= ChannelSize
    /\ buffer \in Seq(Receipts)
    /\ batcher \in {"recv", "send", "done"}
    /\ output \in Seq(Seq(Receipts)) /\ Len(output) <= QueueSize
    /\ inflight \in Seq(Receipts)
    /\ returned \in Seq(Receipts)
    /\ failed \in SUBSET Receipts

Init ==
    /\ sent = 0 /\ open = TRUE
    /\ items = <<>> /\ buffer = <<>> /\ batcher = "recv"
    /\ output = <<>> /\ inflight = <<>> /\ returned = <<>> /\ failed = {}

\* Mutant: a sender that never waits.
SendReceiptUnbounded ==
    /\ open /\ batcher # "done"
    /\ sent < MaxReceipts
    /\ sent' = sent + 1
    /\ items' = Append(items, sent + 1)
    /\ UNCHANGED <<open, buffer, batcher, output, inflight, returned, failed>>

\* The webhook handler for a Queued event: send, waiting while the channel is full.
SendReceipt ==
    /\ open /\ batcher # "done"
    /\ sent < MaxReceipts /\ Len(items) < ChannelSize
    /\ sent' = sent + 1
    /\ items' = Append(items, sent + 1)
    /\ UNCHANGED <<open, buffer, batcher, output, inflight, returned, failed>>

\* The state of the HTTP server is dropped, and the senders with it.
CloseItems ==
    /\ open
    /\ open' = FALSE
    /\ UNCHANGED <<sent, items, buffer, batcher, output, inflight, returned, failed>>

\* Mutants: the size tested before the push, and the last item left out of the
\* batch it completes.
RecvItemTestsFirst ==
    /\ batcher = "recv" /\ items # <<>>
    /\ items' = Tail(items)
    /\ buffer' = Append(buffer, Head(items))
    /\ batcher' = IF Len(buffer) >= MaxBatchSize THEN "send" ELSE "recv"
    /\ UNCHANGED <<sent, open, output, inflight, returned, failed>>

RecvItemDropsLast ==
    /\ batcher = "recv" /\ items # <<>>
    /\ items' = Tail(items)
    /\ buffer' = IF Len(buffer) + 1 > MaxBatchSize THEN buffer ELSE Append(buffer, Head(items))
    /\ batcher' = IF Len(buffer) + 1 > MaxBatchSize THEN "send" ELSE "recv"
    /\ UNCHANGED <<sent, open, output, inflight, returned, failed>>

\* recv() returns an item.  The first item of a batch is not tested for size.
RecvItem ==
    /\ batcher = "recv" /\ items # <<>>
    /\ items' = Tail(items)
    /\ buffer' = Append(buffer, Head(items))
    /\ batcher' = IF buffer # <<>> /\ Len(buffer) + 1 >= MaxBatchSize THEN "send" ELSE "recv"
    /\ UNCHANGED <<sent, open, output, inflight, returned, failed>>

\* Mutant: no timeout while the batch has less than two items.
BatchTimeoutSkipsSingle ==
    /\ batcher = "recv" /\ items = <<>> /\ Len(buffer) > 1
    /\ batcher' = "send"
    /\ UNCHANGED <<sent, open, items, buffer, output, inflight, returned, failed>>

\* BATCH_TIMEOUT passes without an item while a batch is under way.  The timeout
\* polls recv() first, so it does not fire while an item or the end is there.
BatchTimeout ==
    /\ batcher = "recv" /\ items = <<>> /\ open /\ buffer # <<>>
    /\ batcher' = "send"
    /\ UNCHANGED <<sent, open, items, buffer, output, inflight, returned, failed>>

\* recv() returns None: the loop ends, select! in start() drops the relay
\* handler, and what was buffered, queued or in flight goes with them.
ItemsClosed ==
    /\ batcher = "recv" /\ items = <<>> /\ ~open
    /\ batcher' = "done"
    /\ buffer' = <<>> /\ output' = <<>> /\ inflight' = <<>>
    /\ UNCHANGED <<sent, open, items, returned, failed>>

\* send_batch: wait for room in output_batches, then start a new buffer.
SendBatch ==
    /\ batcher = "send" /\ Len(output) < QueueSize
    /\ output' = Append(output, buffer)
    /\ buffer' = <<>>
    /\ batcher' = "recv"
    /\ UNCHANGED <<sent, open, items, inflight, returned, failed>>

\* The relay handler takes the next batch,
TakeBatch ==
    /\ batcher # "done" /\ inflight = <<>> /\ output # <<>>
    /\ inflight' = Head(output)
    /\ output' = Tail(output)
    /\ UNCHANGED <<sent, open, items, buffer, batcher, returned, failed>>

\* and batch_receive returns Ok: the relay has cleared the receipts.
BatchReceived ==
    /\ inflight # <<>>
    /\ returned' = returned \o inflight
    /\ inflight' = <<>>
    /\ UNCHANGED <<sent, open, items, buffer, batcher, output, failed>>

\* batch_receive returns an error: it is logged, the batch is dropped and not tried
\* again, and the handler goes on with the next one.
BatchFailed ==
    /\ inflight # <<>>
    /\ returned' = returned \o inflight
    /\ failed' = failed \cup Range(inflight)
    /\ inflight' = <<>>
    /\ UNCHANGED <<sent, open, items, buffer, batcher, output>>

\* The service has ended.
Ended == batcher = "done" /\ UNCHANGED vars

Next ==
    \/ SendReceipt \/ CloseItems
    \/ RecvItem \/ BatchTimeout \/ ItemsClosed \/ SendBatch
    \/ TakeBatch \/ BatchReceived \/ BatchFailed
    \/ Ended

\* The two loops of the service are polled until they end, the timer fires, and
\* a call to the relay returns, with or without an error.
Fairness ==
    /\ WF_vars(RecvItem \/ BatchTimeout \/ ItemsClosed \/ SendBatch)
    /\ WF_vars(TakeBatch \/ BatchReceived \/ BatchFailed)

Spec == Init /\ [][Next]_vars /\ Fairness

-----------------------------------------------------------------------------
(* Properties.                                                             *)

\* The receipts in all the places of the service, oldest place first.
Held == returned \o inflight \o FlattenSeq(output) \o buffer \o items

\* While the service runs, the receipts it holds or has handed to the relay, in a
\* call that succeeded or failed, are exactly those sent, each once and in order.
NothingLostOrReordered == batcher # "done" => Held = [i \in 1..sent |-> i]

\* The assertions of send_batch, for every batch on its way: never empty and
\* never above MAX_BATCH_SIZE.
BatchSizes ==
    /\ batcher = "send" => Len(buffer) \in 1..MaxBatchSize
    /\ \A i \in DOMAIN output : Len(output[i]) \in 1..MaxBatchSize

\* What BatchSizes rests on: a buffer that is still filled has room for one more.
BatcherInv == TypeOK /\ BatchSizes /\ (batcher = "recv" => Len(buffer) < MaxBatchSize)

\* The receipts that the relay has cleared.
Cleared == Range(returned) \ failed

\* Every receipt, also the last ones of a burst that fill no batch, is handed to the
\* relay in a call that returns: it is cleared, or its call failed and it is left
\* to expire from the mailbox, unless the service ends first.  A failed call
\* holds up no later batch.
EveryReceiptHandedOver ==
    \A n \in Receipts : sent >= n ~> (n \in Cleared \/ n \in failed \/ batcher = "done")
=============================================================================
