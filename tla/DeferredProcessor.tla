-------------------------- MODULE DeferredProcessor --------------------------
(***************************************************************************)
(* DeferredProcessor (util/deferred_processor.hpp): a producer submits     *)
(* messages to a queue, a background thread hands them to a callback, and  *)
(* an owner starts and stops the thread.                                   *)
(*                                                                         *)
(* queue_ is the FIFO queue that SPSCQueue implements; try_push and        *)
(* try_pop are one step each.  The loop of start() is the loop of          *)
(* start_batch() with batches of one message.                              *)
(*                                                                         *)
(* Messages are numbered in the order of submission.  accepted is the      *)
(* number of them the queue took, processed those handed to the callback,  *)
(* due the number that the last stop(true) had to see processed.           *)
(***************************************************************************)
EXTENDS Naturals, Sequences

CONSTANTS
  QueueBound,    \* QueueCapacity - 1
  BatchSizes,    \* max_batch_size_ of a start
  MaxMessages,   \* bound on the number of messages submitted
  MaxStops,      \* bound on the number of times the processor is stopped
  None

ASSUME ProcessorAssumption ==
  /\ QueueBound \in Nat \ {0}
  /\ BatchSizes \subseteq Nat \ {0}
  /\ MaxMessages \in Nat /\ MaxStops \in Nat

VARIABLES
  queue, taken,   \* queue_ and the item the last try_pop returned
  running,        \* running_
  drain_on_stop,  \* drain_on_stop_
  reserved,       \* reserved_slot_: the message being built in place, or None
  max_batch_size, \* max_batch_size_ of the present thread
  worker,         \* what the background thread does next
  batch,          \* the messages it has popped and not handed over
  owner,          \* what the owner does next
  drain,          \* the argument of the stop() in progress
  accepted, processed, due, stops

vars == <<queue, taken, running, drain_on_stop, reserved, max_batch_size, worker, batch,
          owner, drain, accepted, processed, due, stops>>

Queue == INSTANCE BoundedFifo WITH Items <- 1 .. MaxMessages, Bound <- QueueBound

producerVars == <<reserved, accepted>>
workerVars == <<worker, batch, processed>>
ownerVars == <<max_batch_size, owner, drain, due, stops>>
flags == <<running, drain_on_stop>>

Init ==
  /\ Queue!Init
  /\ running = FALSE /\ drain_on_stop = TRUE
  /\ reserved = None /\ max_batch_size = 1
  /\ worker = "none" /\ batch = <<>>
  /\ owner = "idle" /\ drain = TRUE
  /\ accepted = 0 /\ processed = <<>> /\ due = 0 /\ stops = 0

-----------------------------------------------------------------------------
(* The hot path.  Messages too long for a buffer are refused before they    *)
(* reach the queue and leave no trace, except that they give up the slot.   *)

(* Mutant: the queue takes messages it has no room for.                     *)
Push_unbounded ==
  /\ accepted < MaxMessages
  /\ queue' = Append(queue, accepted + 1)
  /\ accepted' = accepted + 1
  /\ UNCHANGED taken

Push ==
  /\ accepted < MaxMessages
  /\ Queue!Push(accepted + 1)
  /\ accepted' = accepted + 1

QueueFull == Len(queue) >= QueueBound

Submit ==
  /\ Push
  /\ UNCHANGED <<reserved, workerVars, ownerVars, flags>>

TryReserveSlot ==
  /\ reserved = None
  /\ \E fits \in BOOLEAN : reserved' = fits
  /\ UNCHANGED <<queue, taken, accepted, workerVars, ownerVars, flags>>

(* The slot is given up whether or not its message was queued.              *)
PublishSlot ==
  /\ reserved # None
  /\ reserved' = None
  /\ \/ reserved /\ Push
     \/ (reserved => QueueFull) /\ UNCHANGED <<queue, taken, accepted>>
  /\ UNCHANGED <<workerVars, ownerVars, flags>>

-----------------------------------------------------------------------------
(* The background thread.                                                   *)

(* while (running_ || drain_on_stop_): two reads.                           *)
LoopTest ==
  /\ worker = "test"
  /\ worker' = IF running THEN "collect" ELSE "drain?"
  /\ UNCHANGED <<queue, taken, batch, processed, producerVars, ownerVars, flags>>

DrainTest ==
  /\ worker = "drain?"
  /\ worker' = IF drain_on_stop THEN "collect" ELSE "done"
  /\ UNCHANGED <<queue, taken, batch, processed, producerVars, ownerVars, flags>>

Collect ==
  /\ worker = "collect" /\ Len(batch) < max_batch_size
  /\ Queue!Pop
  /\ batch' = Append(batch, taken')
  /\ UNCHANGED <<worker, processed, producerVars, ownerVars, flags>>

(* Mutant: what was collected is dropped when the processor stops meanwhile.*)
HandOver_if_running ==
  /\ worker = "collect" /\ batch # <<>>
  /\ Len(batch) = max_batch_size \/ queue = <<>>
  /\ processed' = IF running THEN processed \o batch ELSE processed
  /\ batch' = <<>>
  /\ worker' = "test"
  /\ UNCHANGED <<queue, taken, producerVars, ownerVars, flags>>

HandOver ==
  /\ worker = "collect" /\ batch # <<>>
  /\ Len(batch) = max_batch_size \/ queue = <<>>
  /\ processed' = processed \o batch
  /\ batch' = <<>>
  /\ worker' = "test"
  /\ UNCHANGED <<queue, taken, producerVars, ownerVars, flags>>

FindEmpty ==
  /\ worker = "collect" /\ batch = <<>> /\ queue = <<>>
  /\ worker' = "empty"
  /\ UNCHANGED <<queue, taken, batch, processed, producerVars, ownerVars, flags>>

(* Mutant: an empty queue is waited on without looking at running_.         *)
AfterEmpty_unchecked ==
  /\ worker = "empty"
  /\ worker' = "test"
  /\ UNCHANGED <<queue, taken, batch, processed, producerVars, ownerVars, flags>>

(* Mutant: an empty queue ends the thread.                                  *)
AfterEmpty_done ==
  /\ worker = "empty"
  /\ worker' = "done"
  /\ UNCHANGED <<queue, taken, batch, processed, producerVars, ownerVars, flags>>

(* running_ is read after the queue was found empty.                        *)
AfterEmpty ==
  /\ worker = "empty"
  /\ worker' = IF running THEN "test" ELSE "done"
  /\ UNCHANGED <<queue, taken, batch, processed, producerVars, ownerVars, flags>>

-----------------------------------------------------------------------------
(* The owner.                                                               *)

Start ==
  /\ owner = "idle" /\ ~running
  /\ running' = TRUE
  /\ max_batch_size' \in BatchSizes
  /\ worker' = "test"
  /\ UNCHANGED <<queue, taken, drain_on_stop, batch, processed, owner, drain, due, stops,
                 producerVars>>

StopRunning ==
  /\ owner = "idle" /\ running /\ stops < MaxStops
  /\ running' = FALSE
  /\ drain' \in BOOLEAN
  /\ due' = IF drain' THEN accepted ELSE 0
  /\ stops' = stops + 1
  /\ owner' = "drain"
  /\ UNCHANGED <<queue, taken, drain_on_stop, max_batch_size, producerVars, workerVars>>

StopDrain ==
  /\ owner = "drain"
  /\ drain_on_stop' = drain
  /\ owner' = "join"
  /\ UNCHANGED <<queue, taken, running, max_batch_size, drain, due, stops, producerVars,
                 workerVars>>

(* Mutant: stop() returns without waiting for the thread.                   *)
StopJoin_without_wait ==
  /\ owner = "join"
  /\ owner' = "idle"
  /\ UNCHANGED <<queue, taken, workerVars, max_batch_size, drain, due, stops,
                 producerVars, flags>>

StopJoin ==
  /\ owner = "join" /\ worker = "done"
  /\ worker' = "none"
  /\ owner' = "idle"
  /\ UNCHANGED <<queue, taken, batch, processed, max_batch_size, drain, due, stops,
                 producerVars, flags>>

-----------------------------------------------------------------------------
Producer == Submit \/ TryReserveSlot \/ PublishSlot

Worker == LoopTest \/ DrainTest \/ Collect \/ HandOver \/ FindEmpty \/ AfterEmpty

Stopping == StopDrain \/ StopJoin

Next == Producer \/ Worker \/ Start \/ StopRunning \/ Stopping

Spec == Init /\ [][Next]_vars

(* The background thread runs, and an owner inside stop() goes on.          *)
FairSpec == Spec /\ WF_vars(Worker) /\ WF_vars(Stopping)

-----------------------------------------------------------------------------
(* The queue stays within its capacity and the flags are flags.             *)
TypeOK ==
  /\ queue \in Seq(1 .. MaxMessages) /\ Len(queue) <= QueueBound
  /\ running \in BOOLEAN /\ drain_on_stop \in BOOLEAN /\ drain \in BOOLEAN
  /\ reserved \in BOOLEAN \cup {None}
  /\ worker \in {"none", "test", "drain?", "collect", "empty", "done"}
  /\ owner \in {"idle", "drain", "join"}

(* Every accepted message is handed over, in a batch or still queued, once  *)
(* and in the order of submission, over any number of stops and starts.     *)
Conserved == processed \o batch \o queue = [k \in 1 .. accepted |-> k]

(* The thread is gone whenever the owner is outside start and stop with the *)
(* processor stopped, and there whenever it is running: two threads never   *)
(* pop from the queue.                                                      *)
OneWorker == owner = "idle" => (running <=> worker # "none")

(* A processor that is not stopped processes every message it accepted.     *)
EveryMessageProcessed ==
  \A k \in 1 .. MaxMessages :
    (accepted >= k /\ running) ~> (Len(processed) >= k \/ ~running)

(* stop() returns, once the producer has stopped submitting.                *)
StopReturns == (owner # "idle") ~> (owner = "idle")

(* stop(true) returns with every message processed that was accepted before *)
(* it was called ("process remaining messages before stopping").            *)
StopDrains == (owner = "idle" /\ worker = "none") => Len(processed) >= due
=============================================================================
