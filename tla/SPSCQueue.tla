----------------------------- MODULE SPSCQueue -----------------------------
(***************************************************************************)
(* The single-producer single-consumer queue (memory/spsc_queue.hpp).      *)
(*                                                                         *)
(* A step is one access to memory the other thread may touch; producer and *)
(* consumer say which access of try_push or try_pop comes next.  A load of *)
(* the other thread's index returns any value that index has had since the *)
(* last load, as the memory model of C++ allows.                           *)
(***************************************************************************)
EXTENDS Naturals, Sequences

CONSTANTS
  Capacity,   \* the template parameter, a power of 2: i & mask_ is i % Capacity
  Items,      \* what may be pushed
  None        \* the value of a slot never written

ASSUME CapacityAssumption == Capacity \in Nat /\ Capacity >= 2

ASSUME NoneAssumption == None \notin Items

VARIABLES
  head, tail,      \* head_, tail_
  cached_tail,     \* the producer's copy of tail_
  cached_head,     \* the consumer's copy of head_
  buffer,          \* buffer_
  producer, item,  \* the producer's next access, the item it pushes
  consumer, loaded,\* the consumer's next access, the item it has read
  taken            \* the last item try_pop returned

producerVars == <<head, cached_tail, producer, item>>
consumerVars == <<tail, cached_head, consumer, loaded, taken>>

vars == <<head, tail, cached_tail, cached_head, buffer, producer, item, consumer,
          loaded, taken>>

Slots == 0 .. (Capacity - 1)

(* Mutant: the mask is forgotten.                                           *)
Following_unmasked(i) == i + 1

(* (i + 1) & mask_                                                          *)
Following(i) == IF i + 1 = Capacity THEN 0 ELSE i + 1

(* (to - from) & mask_, the size of a queue that spans these indices.       *)
Distance(from, to) == IF from <= to THEN to - from ELSE (to + Capacity) - from

(* The slot of the k-th item behind an index.                               *)
SlotAt(from, k) ==
  IF from + k - 1 < Capacity THEN from + k - 1 ELSE from + k - 1 - Capacity

(* What a load may return of an index that moved from one value to another. *)
Loads(from, to) == {i \in Slots : Distance(from, i) <= Distance(from, to)}

-----------------------------------------------------------------------------
Init ==
  /\ head = 0 /\ tail = 0 /\ cached_tail = 0 /\ cached_head = 0
  /\ buffer = [i \in Slots |-> None]
  /\ producer = "idle" /\ item = None
  /\ consumer = "idle" /\ loaded = None /\ taken = None

(* Mutant: no slot is reserved, a full queue is written over.               *)
Full_unchecked(view) == FALSE

Full(view) == Following(head) = view

(* try_push(v), up to its first access to shared memory.                    *)
TryPush(v) ==
  /\ producer = "idle"
  /\ item' = v
  /\ producer' = IF Full(cached_tail) THEN "load" ELSE "write"
  /\ UNCHANGED <<head, cached_tail, buffer, consumerVars>>

(* The cached tail is refreshed; try_push returns false if still full.      *)
LoadTail ==
  /\ producer = "load"
  /\ cached_tail' \in Loads(cached_tail, tail)
  /\ producer' = IF Full(cached_tail') THEN "idle" ELSE "write"
  /\ UNCHANGED <<head, item, buffer, consumerVars>>

WriteItem ==
  /\ producer = "write"
  /\ buffer' = [buffer EXCEPT ![head] = item]
  /\ producer' = "publish"
  /\ UNCHANGED <<head, cached_tail, item, consumerVars>>

PublishItem ==
  /\ producer = "publish"
  /\ head' = Following(head)
  /\ producer' = "idle"
  /\ UNCHANGED <<cached_tail, item, buffer, consumerVars>>

-----------------------------------------------------------------------------
(* try_pop(), up to its first access to shared memory.                      *)
TryPop ==
  /\ consumer = "idle"
  /\ consumer' = IF tail = cached_head THEN "load" ELSE "read"
  /\ UNCHANGED <<tail, cached_head, loaded, taken, buffer, producerVars>>

(* Mutant: the refreshed head is not compared with the tail again.          *)
LoadHead_unchecked ==
  /\ consumer = "load"
  /\ cached_head' \in Loads(cached_head, head)
  /\ consumer' = "read"
  /\ UNCHANGED <<tail, loaded, taken, buffer, producerVars>>

(* Mutant: the cached head is not refreshed.                                *)
LoadHead_dropped ==
  /\ consumer = "load"
  /\ consumer' = "idle"
  /\ UNCHANGED <<tail, cached_head, loaded, taken, buffer, producerVars>>

(* The cached head is refreshed; try_pop returns nothing if still empty.    *)
LoadHead ==
  /\ consumer = "load"
  /\ cached_head' \in Loads(cached_head, head)
  /\ consumer' = IF tail = cached_head' THEN "idle" ELSE "read"
  /\ UNCHANGED <<tail, loaded, taken, buffer, producerVars>>

ReadItem ==
  /\ consumer = "read"
  /\ loaded' = buffer[tail]
  /\ consumer' = "release"
  /\ UNCHANGED <<tail, cached_head, taken, buffer, producerVars>>

ReleaseSlot ==
  /\ consumer = "release"
  /\ tail' = Following(tail)
  /\ taken' = loaded
  /\ consumer' = "idle"
  /\ UNCHANGED <<cached_head, loaded, buffer, producerVars>>

-----------------------------------------------------------------------------
Next ==
  \/ \E v \in Items : TryPush(v)
  \/ LoadTail \/ WriteItem \/ PublishItem
  \/ TryPop \/ LoadHead \/ ReadItem \/ ReleaseSlot

Spec == Init /\ [][Next]_vars

(* A store to an index becomes visible in the end: of the loads repeated    *)
(* for ever, some returns the present value.                                *)
LoadsPresentHead == LoadHead /\ cached_head' = head

(* The consumer waits in pop(), which calls try_pop again and again.        *)
ConsumerFairness ==
  /\ WF_vars(TryPop) /\ WF_vars(ReadItem) /\ WF_vars(ReleaseSlot)
  /\ SF_vars(LoadsPresentHead)

FairSpec == Spec /\ ConsumerFairness

-----------------------------------------------------------------------------
(* Indices are indices of the buffer and each thread is at some access of   *)
(* its own.                                                                 *)
TypeOK ==
  /\ head \in Slots /\ tail \in Slots /\ cached_tail \in Slots /\ cached_head \in Slots
  /\ buffer \in [Slots -> Items \cup {None}]
  /\ producer \in {"idle", "load", "write", "publish"}
  /\ item \in Items \cup {None}
  /\ consumer \in {"idle", "load", "read", "release"}
  /\ loaded \in Items \cup {None}
  /\ taken \in Items \cup {None}

(* The producer never writes the slot the consumer is about to read: the    *)
(* plain accesses to buffer_ are no data race.                              *)
NoSlotRace == producer = "write" /\ consumer = "read" => head # tail

(* The items between tail_ and head_, oldest first.                         *)
Contents ==
  [k \in 1 .. Distance(tail, head) |-> buffer[SlotAt(tail, k)]]

Fifo == INSTANCE BoundedFifo WITH Bound <- Capacity - 1, queue <- Contents

(* The queue is a first-in first-out queue of Capacity - 1 items: nothing   *)
(* is lost, overtaken, taken twice or taken before it was published.        *)
ImplementsFifo == Fifo!Spec

(* While the consumer waits in pop(), every published item is taken.        *)
EveryItemTaken == \A i \in Slots : (head # tail /\ tail = i) ~> (tail # i)
=============================================================================
