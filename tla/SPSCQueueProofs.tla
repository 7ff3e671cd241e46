-------------------------- MODULE SPSCQueueProofs --------------------------
(***************************************************************************)
(* Proofs about SPSCQueue, for every capacity and every set of items: its  *)
(* types, the absence of a data race on buffer_, and that it implements a  *)
(* bounded FIFO queue.                                                     *)
(***************************************************************************)
EXTENDS SPSCQueue, TLAPS

-----------------------------------------------------------------------------
(* The indices around the buffer.                                           *)

(* An index moves one slot on and stays an index.                           *)
LEMMA FollowingSlot ==
  ASSUME NEW i \in Slots
  PROVE  /\ Following(i) \in Slots /\ Following(i) # i
         /\ Distance(i, Following(i)) = 1
BY CapacityAssumption DEF Slots, Following, Distance

(* Distances are sizes a queue can have, and zero only from an index to     *)
(* itself.                                                                  *)
LEMMA DistanceSlot ==
  ASSUME NEW i \in Slots, NEW j \in Slots
  PROVE  Distance(i, j) \in Slots /\ (Distance(i, j) = 0 <=> i = j)
BY CapacityAssumption DEF Slots, Distance

(* Moving the far end on makes room of one more, unless it meets the near   *)
(* end.                                                                     *)
LEMMA FarEndMoves ==
  ASSUME NEW i \in Slots, NEW j \in Slots, Following(j) # i
  PROVE  Distance(i, Following(j)) = Distance(i, j) + 1
BY CapacityAssumption DEF Slots, Following, Distance

(* Moving the near end on takes one away, unless there was none.            *)
LEMMA NearEndMoves ==
  ASSUME NEW i \in Slots, NEW j \in Slots, i # j
  PROVE  Distance(Following(i), j) = Distance(i, j) - 1
BY CapacityAssumption DEF Slots, Following, Distance

(* A value that an index had on its way to the near end lies behind it.     *)
LEMMA LoadedBehind ==
  ASSUME NEW i \in Slots, NEW j \in Slots, NEW k \in Slots, NEW x \in Loads(i, j),
         Distance(i, j) + Distance(j, k) = Distance(i, k)
  PROVE  x \in Slots /\ Distance(x, j) + Distance(j, k) = Distance(x, k)
BY CapacityAssumption DEF Loads, Slots, Distance

(* A value that an index had on its way to the far end lies before it.      *)
LEMMA LoadedBefore ==
  ASSUME NEW i \in Slots, NEW j \in Slots, NEW k \in Slots, NEW x \in Loads(j, k),
         Distance(i, j) <= Distance(i, k)
  PROVE  x \in Slots /\ Distance(i, x) <= Distance(i, k)
BY CapacityAssumption DEF Loads, Slots, Distance

-----------------------------------------------------------------------------
(* cached_tail, tail, cached_head and head lie in this order around the     *)
(* buffer, and between two of its accesses each thread knows what its test  *)
(* has shown.                                                               *)
Inv ==
  /\ TypeOK
  /\ Distance(tail, cached_head) <= Distance(tail, head)
  /\ Distance(cached_tail, tail) + Distance(tail, head) = Distance(cached_tail, head)
  /\ producer # "idle" => item \in Items
  /\ producer \in {"write", "publish"} => Following(head) # cached_tail
  /\ producer = "publish" => buffer[head] = item
  /\ consumer \in {"read", "release"} => tail # cached_head
  /\ consumer = "release" => loaded = buffer[tail]

(* All indices start at the first slot.                                     *)
THEOREM Inv_Init == Init => Inv
BY CapacityAssumption DEF Init, Inv, TypeOK, Slots, Distance

(* A push that has room has room also as the consumer sees the queue.       *)
LEMMA RoomAhead ==
  ASSUME Inv, Following(head) # cached_tail
  PROVE  Following(head) # tail
BY CapacityAssumption DEF Inv, TypeOK, Slots, Following, Distance

(* One step per access to shared memory.                                    *)
THEOREM Inv_Next == Inv /\ [Next]_vars => Inv'
<1> SUFFICES ASSUME Inv, [Next]_vars PROVE Inv'
  OBVIOUS
<1> USE CapacityAssumption
<1>1. ASSUME NEW v \in Items, TryPush(v) PROVE Inv'
  BY <1>1 DEF Inv, TypeOK, TryPush, Full, consumerVars
<1>2. CASE LoadTail
  <2>1. /\ cached_tail' \in Slots
        /\ Distance(cached_tail', tail) + Distance(tail, head) = Distance(cached_tail', head)
    BY <1>2, LoadedBehind DEF Inv, TypeOK, LoadTail
  <2>2. QED BY <1>2, <2>1 DEF Inv, TypeOK, LoadTail, Full, Distance, consumerVars
<1>3. CASE WriteItem
  <2>1. consumer = "release" => head # tail
    BY DEF Inv, TypeOK, Slots, Distance
  <2>2. QED BY <1>3, <2>1 DEF Inv, TypeOK, WriteItem, consumerVars
<1>4. CASE PublishItem
  BY <1>4 DEF Inv, TypeOK, PublishItem, Slots, Following, Distance, consumerVars
<1>5. CASE TryPop
  BY <1>5 DEF Inv, TypeOK, TryPop, producerVars
<1>6. CASE LoadHead
  <2>1. cached_head' \in Slots /\ Distance(tail, cached_head') <= Distance(tail, head)
    BY <1>6, LoadedBefore DEF Inv, TypeOK, LoadHead
  <2>2. QED BY <1>6, <2>1 DEF Inv, TypeOK, LoadHead, Distance, producerVars
<1>7. CASE ReadItem
  BY <1>7 DEF Inv, TypeOK, ReadItem, producerVars
<1>8. CASE ReleaseSlot
  BY <1>8 DEF Inv, TypeOK, ReleaseSlot, Slots, Following, Distance, producerVars
<1>9. CASE UNCHANGED vars
  BY <1>9 DEF Inv, TypeOK, vars
<1>10. QED BY <1>1, <1>2, <1>3, <1>4, <1>5, <1>6, <1>7, <1>8, <1>9 DEF Next

(* The invariant holds in every state of the queue.                         *)
THEOREM Inv_Always == Spec => []Inv
<1>1. QED BY Inv_Init, Inv_Next, PTL DEF Spec

(* Every index stays inside the buffer.                                     *)
THEOREM TypeCorrect == Spec => []TypeOK
<1>1. Inv => TypeOK
  BY DEF Inv
<1>2. QED BY <1>1, Inv_Always, PTL

(* The plain accesses of try_push and try_pop to buffer_ never race.        *)
THEOREM NoRace == Spec => []NoSlotRace
<1>1. Inv => NoSlotRace
  BY CapacityAssumption DEF Inv, TypeOK, NoSlotRace, Slots, Distance
<1>2. QED BY <1>1, Inv_Always, PTL

-----------------------------------------------------------------------------
(* The queue implements BoundedFifo: an item enters when its slot is        *)
(* published and leaves when its slot is released.                          *)

(* The items lie in the slots from the tail on, none of them under the head.*)
LEMMA SlotsOfItems ==
  ASSUME NEW i \in Slots, NEW j \in Slots, NEW k \in 1 .. Distance(i, j)
  PROVE  /\ SlotAt(i, k) \in Slots /\ SlotAt(i, k) # j
         /\ SlotAt(i, 1) = i
         /\ SlotAt(i, Distance(i, j) + 1) = j
         /\ SlotAt(Following(i), k) = SlotAt(i, k + 1)
BY CapacityAssumption DEF Slots, SlotAt, Following, Distance

(* The slot under the head is the one behind the last item.                 *)
LEMMA SlotOfHead ==
  ASSUME NEW i \in Slots, NEW j \in Slots
  PROVE  SlotAt(i, Distance(i, j) + 1) = j
BY CapacityAssumption DEF Slots, SlotAt, Distance

(* The contents are a sequence of what was pushed.                          *)
LEMMA ContentsSeq ==
  ASSUME Inv
  PROVE  /\ Contents \in Seq(Items \cup {None})
         /\ Len(Contents) = Distance(tail, head)
         /\ Distance(tail, head) \in 0 .. (Capacity - 1)
<1>1. Distance(tail, head) \in 0 .. (Capacity - 1)
  BY DistanceSlot DEF Inv, TypeOK, Slots
<1>2. \A k \in 1 .. Distance(tail, head) : buffer[SlotAt(tail, k)] \in Items \cup {None}
  BY SlotsOfItems DEF Inv, TypeOK
<1>3. QED BY <1>1, <1>2, CapacityAssumption DEF Contents

(* Writing the slot under the head changes none of the items.               *)
LEMMA ContentsWrite ==
  ASSUME Inv, WriteItem
  PROVE  Contents' = Contents
<1>1. \A k \in 1 .. Distance(tail, head) :
        buffer'[SlotAt(tail, k)] = buffer[SlotAt(tail, k)]
  BY SlotsOfItems DEF Inv, TypeOK, WriteItem
<1>2. tail' = tail /\ head' = head
  BY DEF WriteItem, consumerVars
<1>3. Distance(tail', head') = Distance(tail, head)
      /\ \A k \in 1 .. Distance(tail, head) : SlotAt(tail', k) = SlotAt(tail, k)
  BY <1>2
<1>4. QED BY <1>1, <1>2, <1>3 DEF Contents

(* Publishing appends the item, and there was room for it.                  *)
LEMMA ContentsPublish ==
  ASSUME Inv, PublishItem
  PROVE  /\ Contents' = Append(Contents, item) /\ item \in Items
         /\ Len(Contents) < Capacity - 1
<1> DEFINE d == Distance(tail, head)
<1>1. /\ tail' = tail /\ buffer' = buffer /\ head' = Following(head)
      /\ buffer[head] = item /\ item \in Items
      /\ head \in Slots /\ tail \in Slots /\ Following(head) # tail
  BY RoomAhead DEF Inv, TypeOK, PublishItem, consumerVars
<1>2. d + 1 = Distance(tail', head') /\ d + 1 \in Slots /\ d \in Slots
  BY <1>1, FarEndMoves, FollowingSlot, DistanceSlot
<1>3. SlotAt(tail, d + 1) = head
  BY <1>1, SlotOfHead
<1>4. Contents' = [k \in 1 .. (d + 1) |-> buffer[SlotAt(tail, k)]]
  BY <1>1, <1>2 DEF Contents
<1>5. /\ Contents = [k \in 1 .. d |-> buffer[SlotAt(tail, k)]]
      /\ Contents \in Seq(Items \cup {None}) /\ Len(Contents) = d
  BY ContentsSeq DEF Contents
<1> HIDE DEF d
<1>6. Append(Contents, item) = [k \in 1 .. (d + 1) |-> buffer[SlotAt(tail, k)]]
  BY <1>1, <1>2, <1>3, <1>5 DEF Slots
<1>7. QED BY <1>1, <1>2, <1>4, <1>5, <1>6, CapacityAssumption DEF Slots

(* Releasing takes the first item off, the one that was read.               *)
LEMMA ContentsRelease ==
  ASSUME Inv, ReleaseSlot
  PROVE  /\ Contents # <<>> /\ Contents' = Tail(Contents)
         /\ taken' = Head(Contents)
<1> DEFINE d == Distance(tail, head)
<1>1. /\ tail' = Following(tail) /\ buffer' = buffer /\ head' = head
      /\ loaded = buffer[tail] /\ taken' = loaded
      /\ head \in Slots /\ tail \in Slots /\ tail # head
  BY CapacityAssumption DEF Inv, TypeOK, ReleaseSlot, producerVars, Distance, Slots
<1>2. d - 1 = Distance(tail', head') /\ d \in Slots /\ d # 0
  BY <1>1, NearEndMoves, DistanceSlot
<1>3. \A k \in 1 .. (d - 1) : SlotAt(tail', k) = SlotAt(tail, k + 1)
  BY <1>1, <1>2, SlotsOfItems DEF Slots
<1>4. SlotAt(tail, 1) = tail
  BY <1>1, <1>2, SlotsOfItems DEF Slots
<1>5. Contents' = [k \in 1 .. (d - 1) |-> buffer[SlotAt(tail, k + 1)]]
  BY <1>1, <1>2, <1>3 DEF Contents
<1>6. /\ Contents = [k \in 1 .. d |-> buffer[SlotAt(tail, k)]]
      /\ Contents \in Seq(Items \cup {None}) /\ Len(Contents) = d
  BY ContentsSeq DEF Contents
<1> HIDE DEF d
<1>7. Tail(Contents) = [k \in 1 .. (d - 1) |-> buffer[SlotAt(tail, k + 1)]]
  BY <1>2, <1>6 DEF Slots
<1>8. Contents # <<>> /\ Head(Contents) = buffer[tail]
  BY <1>2, <1>4, <1>6 DEF Slots
<1>9. QED BY <1>1, <1>5, <1>7, <1>8

(* The queue starts empty.                                                  *)
LEMMA Fifo_Init == Init => Fifo!Init
<1> SUFFICES ASSUME Init PROVE Fifo!Init
  OBVIOUS
<1>1. Distance(tail, head) = 0
  BY DEF Init, Distance
<1>2. Contents = <<>>
  BY <1>1 DEF Contents
<1>3. QED BY <1>2 DEF Init, Fifo!Init

(* Every access is a push, a pop or no step of the abstract queue.          *)
LEMMA Fifo_Next == Inv /\ [Next]_vars => [Fifo!Next]_Fifo!vars
<1> SUFFICES ASSUME Inv, [Next]_vars PROVE [Fifo!Next]_Fifo!vars
  OBVIOUS
<1>1. CASE WriteItem
  <2>1. taken' = taken
    BY <1>1 DEF WriteItem, consumerVars
  <2>2. QED BY <1>1, <2>1, ContentsWrite DEF Fifo!vars
<1>2. CASE PublishItem
  <2>1. taken' = taken
    BY <1>2 DEF PublishItem, consumerVars
  <2>2. Fifo!Push(item)
    BY <1>2, <2>1, ContentsPublish DEF Fifo!Push
  <2>3. QED BY <1>2, <2>2, ContentsPublish DEF Fifo!Next
<1>3. CASE ReleaseSlot
  <2>1. Fifo!Pop
    BY <1>3, ContentsRelease DEF Fifo!Pop
  <2>2. QED BY <2>1 DEF Fifo!Next
<1>4. CASE (\E v \in Items : TryPush(v)) \/ LoadTail \/ TryPop \/ LoadHead \/ ReadItem
           \/ UNCHANGED vars
  <2>1. tail' = tail /\ head' = head /\ buffer' = buffer /\ taken' = taken
    BY <1>4 DEF TryPush, LoadTail, TryPop, LoadHead, ReadItem, vars, producerVars,
                consumerVars
  <2>2. Contents' = Contents
    BY <2>1 DEF Contents
  <2>3. QED BY <2>1, <2>2 DEF Fifo!vars
<1>5. QED BY <1>1, <1>2, <1>3, <1>4 DEF Next

(* SPSCQueue is a bounded FIFO queue.                                       *)
THEOREM QueueImplementsFifo == Spec => ImplementsFifo
<1>1. QED BY Fifo_Init, Fifo_Next, Inv_Always, PTL DEF Spec, ImplementsFifo, Fifo!Spec
=============================================================================
