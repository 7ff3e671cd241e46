---------------------- MODULE DeferredProcessorProofs ----------------------
(***************************************************************************)
(* Proofs about DeferredProcessor, for every capacity of the queue, every  *)
(* batch size and any number of messages and stops: no accepted message is *)
(* lost, repeated or overtaken, and at most one thread pops.               *)
(***************************************************************************)
EXTENDS DeferredProcessor, TLAPS

Messages == 1 .. MaxMessages

-----------------------------------------------------------------------------
(* What the steps do to the messages in their order.                        *)

(* The three places a message can be are sequences of messages.             *)
InOrder == processed \in Seq(Messages) /\ batch \in Seq(Messages) /\ queue \in Seq(Messages)

(* A message pushed stands behind all others.                               *)
LEMMA PushedLast ==
  ASSUME InOrder, NEW x \in Messages
  PROVE  processed \o batch \o Append(queue, x) = Append(processed \o batch \o queue, x)
BY DEF InOrder

(* The numbers up to the next one.                                          *)
LEMMA NextNumber ==
  ASSUME NEW n \in Nat
  PROVE  Append([k \in 1 .. n |-> k], n + 1) = [k \in 1 .. (n + 1) |-> k]
<1>1. [k \in 1 .. n |-> k] \in Seq(Nat) /\ Len([k \in 1 .. n |-> k]) = n
  OBVIOUS
<1>2. QED BY <1>1

(* A message popped moves from the queue to the batch and keeps its place.  *)
LEMMA PoppedInPlace ==
  ASSUME InOrder, queue # <<>>
  PROVE  /\ Head(queue) \in Messages /\ Tail(queue) \in Seq(Messages)
         /\ Len(Tail(queue)) = Len(queue) - 1
         /\ processed \o Append(batch, Head(queue)) \o Tail(queue) = processed \o batch \o queue
<1> DEFINE first == <<Head(queue)>>
           rest == Tail(queue)
           before == processed \o batch
<1>1. /\ first \o rest = queue /\ Head(queue) \in Messages
      /\ rest \in Seq(Messages) /\ Len(rest) = Len(queue) - 1
  BY DEF InOrder
<1>2. first \in Seq(Messages) /\ before \in Seq(Messages)
  BY <1>1 DEF InOrder
<1>3. Append(batch, Head(queue)) = batch \o first
  BY <1>1 DEF InOrder
<1>4. processed \o (batch \o first) = before \o first
  BY <1>2 DEF InOrder
<1>5. (before \o first) \o rest = before \o (first \o rest)
  <2> HIDE DEF before, first, rest
  <2>1. rest \in Seq(Messages)
    BY <1>1
  <2>2. QED BY <1>2, <2>1
<1>6. QED BY Zenon, <1>1, <1>3, <1>4, <1>5

(* A batch handed over keeps its place.                                     *)
LEMMA HandedInPlace ==
  ASSUME InOrder
  PROVE  /\ processed \o batch \in Seq(Messages) /\ <<>> \in Seq(Messages)
         /\ (processed \o batch) \o <<>> \o queue = processed \o batch \o queue
BY DEF InOrder

-----------------------------------------------------------------------------
(* What every state satisfies: the thread exists while the processor runs   *)
(* and while stop() waits for it, and messages are in order.                *)
IInv ==
  /\ TypeOK
  /\ InOrder /\ accepted \in 0 .. MaxMessages
  /\ Conserved
  /\ OneWorker
  /\ owner # "idle" => ~running /\ worker # "none"

(* No message is accepted and no thread started yet.                        *)
THEOREM IInv_Init == Init => IInv
<1> SUFFICES ASSUME Init PROVE IInv
  OBVIOUS
<1>1. processed = <<>> /\ batch = <<>> /\ queue = <<>> /\ accepted = 0
  BY DEF Init, Queue!Init
<1>2. processed \o batch \o queue = <<>>
  BY <1>1
<1>3. <<>> = [k \in 1 .. 0 |-> k]
  OBVIOUS
<1>4. Conserved
  BY <1>1, <1>2, <1>3, Zenon DEF Conserved
<1>5. InOrder
  BY <1>1 DEF InOrder
<1>6. TypeOK
  <2>1. queue \in Seq(1 .. MaxMessages) /\ Len(queue) <= QueueBound
    BY <1>1, ProcessorAssumption
  <2>2. reserved \in BOOLEAN \cup {None}
    BY Zenon DEF Init
  <2>3. QED BY Zenon, <2>1, <2>2 DEF Init, TypeOK
<1>7. QED BY <1>1, <1>4, <1>5, <1>6, ProcessorAssumption DEF Init, IInv, OneWorker

(* A push adds the next number behind all others.                           *)
LEMMA PushConserves ==
  ASSUME IInv, Push
  PROVE  /\ queue' \in Seq(Messages) /\ Len(queue') <= QueueBound
         /\ accepted' \in 0 .. MaxMessages
         /\ processed \o batch \o queue' = [k \in 1 .. accepted' |-> k]
<1> USE ProcessorAssumption
<1>1. /\ accepted + 1 \in Messages /\ queue' = Append(queue, accepted + 1)
      /\ accepted' = accepted + 1 /\ Len(queue) < QueueBound
      /\ queue \in Seq(Messages) /\ accepted \in Nat
  BY DEF IInv, TypeOK, Push, Queue!Push, Messages
<1>2. processed \o batch \o Append(queue, accepted + 1)
        = Append(processed \o batch \o queue, accepted + 1)
  BY <1>1, PushedLast DEF IInv
<1>3. processed \o batch \o queue = [k \in 1 .. accepted |-> k]
  BY DEF IInv, Conserved
<1>4. Append([k \in 1 .. accepted |-> k], accepted + 1) = [k \in 1 .. (accepted + 1) |-> k]
  BY <1>1, NextNumber, Zenon
<1>5. processed \o batch \o queue' = [k \in 1 .. accepted' |-> k]
  BY <1>1, <1>2, <1>3, <1>4, Zenon
<1>6. queue' \in Seq(Messages) /\ Len(queue') <= QueueBound /\ accepted' \in 0 .. MaxMessages
  BY <1>1 DEF Messages
<1>7. QED BY <1>5, <1>6

(* One step per action of the producer, the thread and the owner.           *)
THEOREM IInv_Next == IInv /\ [Next]_vars => IInv'
<1> SUFFICES ASSUME IInv, [Next]_vars PROVE IInv'
  OBVIOUS
<1> USE ProcessorAssumption
<1>1. CASE Submit
  BY Zenon, <1>1, PushConserves DEF IInv, InOrder, TypeOK, Messages, Conserved, OneWorker, Submit, Push, Queue!Push,
     workerVars, ownerVars, flags
<1>2. CASE TryReserveSlot
  BY <1>2 DEF IInv, InOrder, TypeOK, Messages, Conserved, OneWorker, TryReserveSlot, workerVars,
     ownerVars, flags
<1>3. CASE PublishSlot
  <2>1. CASE Push
    BY <1>3, <2>1, PushConserves DEF IInv, InOrder, TypeOK, Messages, Conserved, OneWorker, PublishSlot, workerVars,
       ownerVars, flags
  <2>2. CASE UNCHANGED <<queue, taken, accepted>>
    BY <1>3, <2>2 DEF IInv, InOrder, TypeOK, Messages, Conserved, OneWorker, PublishSlot, workerVars, ownerVars, flags
  <2>3. QED BY <1>3, <2>1, <2>2 DEF PublishSlot
<1>4. CASE LoopTest
  BY <1>4 DEF IInv, InOrder, TypeOK, Messages, Conserved, OneWorker, LoopTest, producerVars, ownerVars, flags
<1>5. CASE DrainTest
  BY <1>5 DEF IInv, InOrder, TypeOK, Messages, Conserved, OneWorker, DrainTest, producerVars, ownerVars, flags
<1>6. CASE Collect
  <2>1. /\ queue # <<>> /\ queue' = Tail(queue) /\ batch' = Append(batch, Head(queue))
        /\ processed' = processed /\ accepted' = accepted
    BY <1>6 DEF Collect, Queue!Pop, producerVars
  <2>2. /\ batch' \in Seq(Messages) /\ queue' \in Seq(Messages) /\ Len(queue') <= QueueBound
        /\ processed' \o batch' \o queue' = processed \o batch \o queue
    <3>1. /\ Head(queue) \in Messages /\ Tail(queue) \in Seq(Messages)
          /\ Len(Tail(queue)) = Len(queue) - 1
          /\ processed \o Append(batch, Head(queue)) \o Tail(queue) = processed \o batch \o queue
      BY Zenon, <2>1, PoppedInPlace DEF IInv
    <3>2. batch' \in Seq(Messages) /\ queue' \in Seq(Messages)
      BY <2>1, <3>1 DEF IInv, InOrder
    <3>3. Len(queue') <= QueueBound
      BY <2>1, <3>1 DEF IInv, TypeOK
    <3>4. QED BY Zenon, <2>1, <3>1, <3>2, <3>3
  <2>3. QED
    BY <1>6, <2>1, <2>2 DEF IInv, InOrder, TypeOK, Messages, Conserved, OneWorker, Collect, producerVars, ownerVars,
       flags
<1>7. CASE HandOver
  <2>1. /\ processed' = processed \o batch /\ batch' = <<>> /\ queue' = queue
        /\ accepted' = accepted
    BY <1>7 DEF HandOver, producerVars
  <2>2. /\ processed' \in Seq(Messages) /\ batch' \in Seq(Messages)
        /\ processed' \o batch' \o queue' = processed \o batch \o queue
    BY <2>1, HandedInPlace DEF IInv
  <2>3. QED
    BY <1>7, <2>1, <2>2 DEF IInv, InOrder, TypeOK, Messages, Conserved, OneWorker, HandOver, producerVars, ownerVars,
       flags
<1>8. CASE FindEmpty
  BY <1>8 DEF IInv, InOrder, TypeOK, Messages, Conserved, OneWorker, FindEmpty, producerVars, ownerVars, flags
<1>9. CASE AfterEmpty
  BY <1>9 DEF IInv, InOrder, TypeOK, Messages, Conserved, OneWorker, AfterEmpty, producerVars, ownerVars, flags
<1>10. CASE Start
  BY <1>10 DEF IInv, InOrder, TypeOK, Messages, Conserved, OneWorker, Start, producerVars
<1>11. CASE StopRunning
  BY Zenon, <1>11 DEF IInv, InOrder, TypeOK, Messages, Conserved, OneWorker, StopRunning, producerVars, workerVars
<1>12. CASE StopDrain
  BY <1>12 DEF IInv, InOrder, TypeOK, Messages, Conserved, OneWorker, StopDrain, producerVars, workerVars
<1>13. CASE StopJoin
  BY <1>13 DEF IInv, InOrder, TypeOK, Messages, Conserved, OneWorker, StopJoin, producerVars, flags
<1>14. CASE UNCHANGED vars
  BY <1>14 DEF IInv, InOrder, TypeOK, Messages, Conserved, OneWorker, vars
<1>15. QED
  BY <1>1, <1>2, <1>3, <1>4, <1>5, <1>6, <1>7, <1>8, <1>9, <1>10, <1>11, <1>12, <1>13, <1>14
     DEF Next, Producer, Worker, Stopping

(* The invariant holds in every state of the processor.                     *)
THEOREM IInv_Always == Spec => []IInv
<1>1. QED BY IInv_Init, IInv_Next, PTL DEF Spec

(* What the queue accepted is handed over, in a batch or queued, each       *)
(* message once and in order (submit, publish_slot and the loops of start   *)
(* and start_batch).                                                        *)
THEOREM MessagesConserved == Spec => []Conserved
<1>1. IInv => Conserved
  BY DEF IInv
<1>2. QED BY <1>1, IInv_Always, PTL

(* start() never makes a second thread beside one that still pops, and      *)
(* stop() leaves none (start, start_batch, stop).                           *)
THEOREM SingleWorker == Spec => []OneWorker
<1>1. IInv => OneWorker
  BY DEF IInv
<1>2. QED BY <1>1, IInv_Always, PTL
=============================================================================
