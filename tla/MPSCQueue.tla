----------------------------- MODULE MPSCQueue -----------------------------
(***************************************************************************)
(* The multi-producer single-consumer queue (memory/mpsc_queue.hpp).       *)
(*                                                                         *)
(* A step is one access to shared memory; pc says which access of try_push *)
(* each producer makes next, consumer the same of try_pop.  A relaxed load *)
(* of head_ returns any value head_ has had since the thread's last load.  *)
(* head_, tail_ and the slots' numbers are 64-bit counters that no run     *)
(* takes to their end, and are natural numbers here.                       *)
(***************************************************************************)
EXTENDS Integers, Sequences

CONSTANTS
  Producers,  \* the producer threads
  Capacity,   \* the template parameter, a power of 2: i & mask_ is i % Capacity
  Items,      \* what may be pushed
  None,       \* the value of a slot never written
  MaxPushes   \* bound on the number of pushes claimed

ASSUME CapacityAssumption == Capacity \in Nat /\ Capacity >= 2

ASSUME ItemsAssumption == None \notin Items /\ MaxPushes \in Nat

VARIABLES
  head, tail,        \* head_, tail_
  sequences, buffer, \* sequences_, buffer_
  pc, seen, item,    \* per producer: next access, its head variable, its item
  consumer, loaded,  \* the consumer's next access, the item it has read
  taken              \* the last item try_pop returned

producerVars == <<head, pc, seen, item>>
consumerVars == <<tail, consumer, loaded, taken>>

vars == <<head, tail, sequences, buffer, pc, seen, item, consumer, loaded, taken>>

Slots == 0 .. (Capacity - 1)

Slot(n) == n % Capacity

Init ==
  /\ head = 0 /\ tail = 0
  /\ sequences = [i \in Slots |-> i]
  /\ buffer = [i \in Slots |-> None]
  /\ pc = [p \in Producers |-> "idle"]
  /\ seen = [p \in Producers |-> 0]
  /\ item = [p \in Producers |-> None]
  /\ consumer = "idle" /\ loaded = None /\ taken = None

-----------------------------------------------------------------------------
At(p, here, next) == pc[p] = here /\ pc' = [pc EXCEPT ![p] = next]

(* try_push(v): head_ is loaded.                                            *)
TryPush(p, v) ==
  /\ At(p, "idle", "check")
  /\ item' = [item EXCEPT ![p] = v]
  /\ \E h \in seen[p] .. head : seen' = [seen EXCEPT ![p] = h]
  /\ UNCHANGED <<head, sequences, buffer, consumerVars>>

(* The slot's number says whether the slot is free, full or already claimed.*)
SlotFree(p) ==
  /\ sequences[Slot(seen[p])] = seen[p]
  /\ At(p, "check", "claim")
  /\ UNCHANGED <<head, seen, item, sequences, buffer, consumerVars>>

SlotFull(p) ==
  /\ sequences[Slot(seen[p])] < seen[p]
  /\ At(p, "check", "idle")
  /\ UNCHANGED <<head, seen, item, sequences, buffer, consumerVars>>

SlotClaimed(p) ==
  /\ sequences[Slot(seen[p])] > seen[p]
  /\ At(p, "check", "check")
  /\ \E h \in seen[p] .. head : seen' = [seen EXCEPT ![p] = h]
  /\ UNCHANGED <<head, item, sequences, buffer, consumerVars>>

(* Mutant: the head is stored without comparing it.                         *)
Claim_unchecked(p) ==
  /\ At(p, "claim", "write")
  /\ head < MaxPushes
  /\ head' = seen[p] + 1
  /\ UNCHANGED <<seen, item, sequences, buffer, consumerVars>>

Claim(p) ==
  /\ At(p, "claim", "write")
  /\ head = seen[p] /\ head < MaxPushes
  /\ head' = head + 1
  /\ UNCHANGED <<seen, item, sequences, buffer, consumerVars>>

(* compare_exchange_weak fails, for a reason or spuriously, and loads head_.*)
ClaimFails(p) ==
  /\ At(p, "claim", "check")
  /\ seen' = [seen EXCEPT ![p] = head]
  /\ UNCHANGED <<head, item, sequences, buffer, consumerVars>>

WriteItem(p) ==
  /\ At(p, "write", "publish")
  /\ buffer' = [buffer EXCEPT ![Slot(seen[p])] = item[p]]
  /\ UNCHANGED <<head, seen, item, sequences, consumerVars>>

(* Mutant: the slot is published under the number of a free slot.           *)
PublishItem_as_free(p) ==
  /\ At(p, "publish", "idle")
  /\ sequences' = [sequences EXCEPT ![Slot(seen[p])] = seen[p]]
  /\ UNCHANGED <<head, seen, item, buffer, consumerVars>>

PublishItem(p) ==
  /\ At(p, "publish", "idle")
  /\ sequences' = [sequences EXCEPT ![Slot(seen[p])] = seen[p] + 1]
  /\ UNCHANGED <<head, seen, item, buffer, consumerVars>>

-----------------------------------------------------------------------------
(* Mutant: a slot that is claimed and not yet published is taken as full.   *)
TryPop_unpublished ==
  /\ consumer = "idle"
  /\ tail < head
  /\ consumer' = "read"
  /\ UNCHANGED <<tail, loaded, taken, sequences, buffer, producerVars>>

(* try_pop(): nothing unless the slot at the tail is published.             *)
TryPop ==
  /\ consumer = "idle"
  /\ sequences[Slot(tail)] >= tail + 1
  /\ consumer' = "read"
  /\ UNCHANGED <<tail, loaded, taken, sequences, buffer, producerVars>>

ReadItem ==
  /\ consumer = "read"
  /\ loaded' = buffer[Slot(tail)]
  /\ consumer' = "release"
  /\ UNCHANGED <<tail, taken, sequences, buffer, producerVars>>

ReleaseSlot ==
  /\ consumer = "release"
  /\ sequences' = [sequences EXCEPT ![Slot(tail)] = tail + Capacity]
  /\ taken' = loaded
  /\ consumer' = "advance"
  /\ UNCHANGED <<tail, loaded, buffer, producerVars>>

AdvanceTail ==
  /\ consumer = "advance"
  /\ tail' = tail + 1
  /\ consumer' = "idle"
  /\ UNCHANGED <<loaded, taken, sequences, buffer, producerVars>>

-----------------------------------------------------------------------------
Produce(p) ==
  \/ SlotFree(p) \/ SlotFull(p) \/ SlotClaimed(p)
  \/ Claim(p) \/ ClaimFails(p) \/ WriteItem(p) \/ PublishItem(p)

Consume == TryPop \/ ReadItem \/ ReleaseSlot \/ AdvanceTail

Next ==
  \/ \E p \in Producers : Produce(p) \/ \E v \in Items : TryPush(p, v)
  \/ Consume

Spec == Init /\ [][Next]_vars

(* No producer stops between claiming and publishing a slot, and the        *)
(* consumer waits in pop().                                                 *)
FairSpec ==
  /\ Spec
  /\ WF_vars(Consume)
  /\ \A p \in Producers : WF_vars(WriteItem(p) \/ PublishItem(p))

-----------------------------------------------------------------------------
(* Counters are numbers and each thread is at some access of its own.       *)
TypeOK ==
  /\ head \in Nat /\ tail \in Nat
  /\ sequences \in [Slots -> Nat]
  /\ buffer \in [Slots -> Items \cup {None}]
  /\ pc \in [Producers -> {"idle", "check", "claim", "write", "publish"}]
  /\ seen \in [Producers -> Nat]
  /\ item \in [Producers -> Items \cup {None}]
  /\ consumer \in {"idle", "read", "release", "advance"}
  /\ loaded \in Items \cup {None} /\ taken \in Items \cup {None}

(* Two threads never have the same slot of buffer_ in their hands.          *)
NoSlotRace ==
  \A p \in Producers : pc[p] = "write" =>
    /\ \A q \in Producers \ {p} : pc[q] \in {"write", "publish"}
                                    => Slot(seen[p]) # Slot(seen[q])
    /\ consumer \in {"read", "release"} => Slot(seen[p]) # Slot(tail)

(* The position of the oldest item not taken.                               *)
First == IF consumer = "advance" THEN tail + 1 ELSE tail

(* The item at a claimed position, which its producer may yet have to write.*)
ItemAt(n) ==
  IF \E p \in Producers : pc[p] = "write" /\ seen[p] = n
  THEN item[CHOOSE p \in Producers : pc[p] = "write" /\ seen[p] = n]
  ELSE buffer[Slot(n)]

Contents == [k \in 1 .. (head - First) |-> ItemAt(First + k - 1)]

Fifo == INSTANCE BoundedFifo WITH Bound <- Capacity, queue <- Contents

(* The items pushed by all producers form one first-in first-out queue of   *)
(* Capacity items, in the order in which their slots were claimed.          *)
ImplementsFifo == Fifo!Spec

(* While the consumer waits in pop(), every claimed position is taken.      *)
EveryItemTaken == \A n \in 1 .. MaxPushes : (head >= n) ~> (tail >= n)
=============================================================================
