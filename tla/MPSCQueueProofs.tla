-------------------------- MODULE MPSCQueueProofs --------------------------
(***************************************************************************)
(* Proofs about MPSCQueue, for every capacity, every set of producers and  *)
(* of items and any number of pushes: no data race on buffer_, and the     *)
(* queue implements a bounded FIFO queue.                                  *)
(***************************************************************************)
EXTENDS MPSCQueue, TLAPS

-----------------------------------------------------------------------------
(* Positions and slots.                                                     *)

(* A position is so many rounds of the buffer and a slot.                   *)
LEMMA SlotOf ==
  ASSUME NEW n \in Nat
  PROVE  /\ Slot(n) \in Slots /\ n \div Capacity \in Nat
         /\ n = Capacity * (n \div Capacity) + Slot(n)
BY CapacityAssumption DEF Slot, Slots

(* Positions of a later round lie at least a round later.                   *)
LEMMA Rounds ==
  ASSUME NEW a \in Nat, NEW b \in Nat, a < b
  PROVE  Capacity * b >= Capacity * a + Capacity
<1>1. Capacity * b = Capacity * a + Capacity * (b - a)
  BY CapacityAssumption
<1>2. Capacity * (b - a) >= Capacity
  BY CapacityAssumption
<1>3. QED BY <1>1, <1>2, CapacityAssumption

(* One position is not two different slots of different rounds.             *)
LEMMA SameRound ==
  ASSUME NEW a \in Nat, NEW b \in Nat, NEW r \in Slots, NEW s \in Slots,
         Capacity * a + r = Capacity * b + s
  PROVE  a = b /\ r = s
<1>1. Capacity * a \in Nat /\ Capacity * b \in Nat
  BY CapacityAssumption
<1>2. ~(a < b)
  BY <1>1, Rounds, CapacityAssumption DEF Slots
<1>3. ~(b < a)
  BY <1>1, Rounds, CapacityAssumption DEF Slots
<1>4. a = b
  BY <1>2, <1>3
<1>5. QED BY <1>1, <1>4 DEF Slots

(* Fewer than Capacity positions in a row have different slots.             *)
LEMMA SlotsDiffer ==
  ASSUME NEW n \in Nat, NEW m \in Nat, n <= m, m < n + Capacity, Slot(n) = Slot(m)
  PROVE  n = m
<1> DEFINE a == n \div Capacity
           b == m \div Capacity
<1>1. /\ a \in Nat /\ b \in Nat /\ Slot(n) \in Slots
      /\ n = Capacity * a + Slot(n) /\ m = Capacity * b + Slot(n)
  BY SlotOf
<1> HIDE DEF a, b
<1>2. Capacity * a \in Nat /\ Capacity * b \in Nat
  BY <1>1, CapacityAssumption
<1>3. ~(a < b)
  BY <1>1, <1>2, Rounds, CapacityAssumption DEF Slots
<1>4. ~(b < a)
  BY <1>1, <1>2, Rounds, CapacityAssumption DEF Slots
<1>5. a = b
  BY <1>1, <1>3, <1>4
<1>6. QED BY <1>1, <1>5

(* The position one round later has the same slot.                          *)
LEMMA SlotAgain ==
  ASSUME NEW n \in Nat
  PROVE  Slot(n + Capacity) = Slot(n)
<1> DEFINE a == n \div Capacity
           b == (n + Capacity) \div Capacity
<1>1. /\ a \in Nat /\ b \in Nat /\ Slot(n) \in Slots /\ Slot(n + Capacity) \in Slots
      /\ n = Capacity * a + Slot(n) /\ n + Capacity = Capacity * b + Slot(n + Capacity)
  BY SlotOf, CapacityAssumption
<1> HIDE DEF a, b
<1>2. Capacity * a \in Nat /\ Capacity * b \in Nat /\ Capacity * (a + 1) = Capacity * a + Capacity
  BY <1>1, CapacityAssumption
<1>3. Capacity * (a + 1) + Slot(n) = Capacity * b + Slot(n + Capacity)
  BY <1>1, <1>2, CapacityAssumption DEF Slots
<1>4. QED BY <1>1, <1>3, SameRound

-----------------------------------------------------------------------------
(* p has claimed position seen[p] and not yet published it.                 *)
InFlight(p) == pc[p] \in {"write", "publish"}

(* The claimed positions not yet released, and the free ones behind them.   *)
Claimed == First .. (head - 1)
Free == head .. (First + Capacity - 1)

(* What a slot's number says of its position.                               *)
Numbered ==
  /\ \A n \in Claimed : \/ sequences[Slot(n)] = n + 1 /\ \A p \in Producers : InFlight(p) => seen[p] # n
                        \/ sequences[Slot(n)] = n
  /\ \A n \in Free : sequences[Slot(n)] = n

(* What a producer knows between its accesses.                              *)
ProducerKnows(p) ==
  /\ seen[p] <= head
  /\ pc[p] # "idle" => item[p] \in Items
  /\ pc[p] = "claim" => seen[p] < First + Capacity
  /\ InFlight(p) => seen[p] \in Claimed /\ sequences[Slot(seen[p])] = seen[p]
  /\ \A q \in Producers \ {p} : InFlight(p) /\ InFlight(q) => seen[p] # seen[q]

(* What the consumer knows between its accesses.                            *)
ConsumerKnows ==
  /\ consumer \in {"read", "release"} => tail < head /\ sequences[Slot(tail)] = tail + 1
  /\ consumer = "release" => loaded = buffer[Slot(tail)]

Inv ==
  /\ TypeOK
  /\ First <= head /\ head <= First + Capacity
  /\ Numbered
  /\ \A p \in Producers : ProducerKnows(p)
  /\ ConsumerKnows

(* The positions of one round, claimed or free, have different slots.       *)
LEMMA Distinct ==
  ASSUME Inv, NEW n \in First .. (First + Capacity - 1), NEW m \in First .. (First + Capacity - 1),
         Slot(n) = Slot(m)
  PROVE  n = m
<1>1. First \in Nat /\ n \in Nat /\ m \in Nat
  BY CapacityAssumption DEF Inv, TypeOK, First
<1>2. CASE n <= m
  BY <1>1, <1>2, SlotsDiffer, CapacityAssumption
<1>3. CASE m <= n
  BY <1>1, <1>3, SlotsDiffer, CapacityAssumption
<1>4. QED BY <1>1, <1>2, <1>3

(* At the start every position of the first round is free.                  *)
THEOREM Inv_Init == Init => Inv
<1> SUFFICES ASSUME Init PROVE Inv
  OBVIOUS
<1>1. \A n \in Slots : Slot(n) = n
  BY CapacityAssumption DEF Slots, Slot
<1>2. QED
  BY <1>1, CapacityAssumption DEF Init, Inv, TypeOK, First, Numbered, Claimed, Free, Slots,
     ProducerKnows, InFlight, ConsumerKnows

(* A step of a producer without a position of its own that touches nothing  *)
(* shared keeps the invariant if it keeps what this producer knows.         *)
LEMMA OwnStep ==
  ASSUME Inv, NEW p \in Producers, TypeOK',
         UNCHANGED <<head, sequences, buffer, consumerVars>>,
         \A q \in Producers \ {p} : pc'[q] = pc[q] /\ seen'[q] = seen[q] /\ item'[q] = item[q],
         ~InFlight(p), ~InFlight(p)',
         seen'[p] <= head,
         pc'[p] # "idle" => item'[p] \in Items,
         pc'[p] = "claim" => seen'[p] < First + Capacity
  PROVE  Inv'
<1>1. First' = First /\ Claimed' = Claimed /\ Free' = Free
  BY DEF First, Claimed, Free, consumerVars
<1>2. \A q \in Producers : InFlight(q)' => InFlight(q) /\ q # p /\ seen'[q] = seen[q]
  BY DEF InFlight
<1>3. Numbered'
  BY <1>1, <1>2 DEF Inv, Numbered
<1>4. ASSUME NEW q \in Producers PROVE ProducerKnows(q)'
  <2>1. CASE q = p
    BY <1>1, <2>1 DEF ProducerKnows, InFlight
  <2>2. CASE q # p
    BY <1>1, <1>2, <2>2 DEF Inv, ProducerKnows, InFlight
  <2>3. QED BY <2>1, <2>2
<1>5. ConsumerKnows'
  BY DEF Inv, ConsumerKnows, consumerVars
<1>6. QED BY <1>1, <1>3, <1>4, <1>5 DEF Inv

(* Before it has a position a producer only looks.                          *)
LEMMA Looking ==
  ASSUME Inv, NEW p \in Producers,
         \/ \E v \in Items : TryPush(p, v)
         \/ SlotFree(p) \/ SlotFull(p) \/ SlotClaimed(p) \/ ClaimFails(p)
  PROVE  Inv'
<1>0. ProducerKnows(p) /\ TypeOK
  BY DEF Inv
<1>1. ASSUME NEW v \in Items, TryPush(p, v) PROVE Inv'
  <2>1. PICK h \in seen[p] .. head : seen' = [seen EXCEPT ![p] = h]
    BY Zenon, <1>1 DEF TryPush
  <2>2. TypeOK' /\ seen'[p] <= head
    BY <1>0, <1>1, <2>1 DEF TryPush, At, TypeOK, consumerVars
  <2>3. QED BY <1>0, <1>1, <2>1, <2>2, OwnStep DEF TryPush, At, TypeOK, InFlight
<1>2. CASE SlotFree(p)
  <2>1. seen[p] < First + Capacity
    <3>1. SUFFICES ASSUME seen[p] = First + Capacity PROVE FALSE
      BY <1>0, CapacityAssumption DEF Inv, ProducerKnows, TypeOK, First
    <3>2. head = First + Capacity /\ First \in Claimed /\ First \in Nat
      BY <1>0, <3>1, CapacityAssumption DEF Inv, ProducerKnows, TypeOK, First, Claimed
    <3>3. Slot(seen[p]) = Slot(First)
      BY <3>1, <3>2, SlotAgain
    <3>4. sequences[Slot(First)] \in {First, First + 1}
      BY <3>2 DEF Inv, Numbered
    <3>5. QED BY <1>2, <3>1, <3>2, <3>3, <3>4, CapacityAssumption DEF SlotFree
  <2>2. TypeOK'
    BY <1>0, <1>2 DEF SlotFree, At, TypeOK, consumerVars
  <2>3. QED BY <1>0, <1>2, <2>1, <2>2, OwnStep DEF SlotFree, At, TypeOK, InFlight, ProducerKnows
<1>3. CASE SlotFull(p)
  <2>1. TypeOK'
    BY <1>0, <1>3 DEF SlotFull, At, TypeOK, consumerVars
  <2>2. QED BY <1>0, <1>3, <2>1, OwnStep DEF SlotFull, At, TypeOK, InFlight, ProducerKnows
<1>4. CASE SlotClaimed(p)
  <2>1. PICK h \in seen[p] .. head : seen' = [seen EXCEPT ![p] = h]
    BY Zenon, <1>4 DEF SlotClaimed
  <2>2. TypeOK' /\ seen'[p] <= head
    BY <1>0, <1>4, <2>1 DEF SlotClaimed, At, TypeOK, consumerVars
  <2>3. QED BY <1>0, <1>4, <2>1, <2>2, OwnStep DEF SlotClaimed, At, TypeOK, InFlight, ProducerKnows
<1>5. CASE ClaimFails(p)
  <2>1. TypeOK'
    BY <1>0, <1>5 DEF ClaimFails, At, TypeOK, consumerVars
  <2>2. QED BY <1>0, <1>5, <2>1, OwnStep DEF ClaimFails, At, TypeOK, InFlight, ProducerKnows
<1>6. QED BY <1>1, <1>2, <1>3, <1>4, <1>5

(* The compare-and-swap succeeds: the first free position is p's.           *)
LEMMA Claiming ==
  ASSUME Inv, NEW p \in Producers, Claim(p)
  PROVE  Inv'
<1>0. TypeOK /\ Numbered /\ ConsumerKnows /\ \A q \in Producers : ProducerKnows(q)
  BY DEF Inv
<1>1. /\ seen[p] = head /\ head' = head + 1 /\ pc'[p] = "write" /\ seen' = seen
      /\ \A q \in Producers \ {p} : pc'[q] = pc[q]
      /\ item' = item /\ sequences' = sequences /\ ~InFlight(p) /\ InFlight(p)'
  BY <1>0 DEF Claim, At, TypeOK, InFlight
<1>2. First' = First /\ First \in Nat /\ head \in Free /\ First <= head
  BY <1>0, CapacityAssumption DEF Claim, At, TypeOK, Inv, First, consumerVars, ProducerKnows, Free
<1>3. TypeOK'
  BY <1>0, <1>1 DEF Claim, At, TypeOK, consumerVars
<1>4. sequences[Slot(head)] = head
  BY <1>0, <1>2 DEF Numbered
<1>5. \A q \in Producers \ {p} : InFlight(q)' <=> InFlight(q)
  BY <1>1 DEF InFlight
<1>6. Numbered'
  <2>1. \A n \in Free' : n \in Free
    BY <1>0, <1>1, <1>2, CapacityAssumption DEF Free, TypeOK
  <2>2. \A n \in Claimed' : n = head \/ (n \in Claimed /\ n # head)
    BY <1>0, <1>1, <1>2 DEF Claimed, TypeOK
  <2>3. QED BY <1>0, <1>1, <1>4, <1>5, <2>1, <2>2 DEF Numbered
<1>7. ASSUME NEW q \in Producers PROVE ProducerKnows(q)'
  <2>0. \A n \in Claimed : n \in Claimed' /\ n # head
    BY <1>0, <1>1, <1>2 DEF Claimed, TypeOK
  <2>1. head \in Claimed'
    BY <1>0, <1>1, <1>2 DEF Claimed, TypeOK
  <2>2. CASE q = p
    <3>1. item[p] \in Items
      BY <1>0 DEF Claim, At, ProducerKnows
    <3>2. \A r \in Producers \ {p} : InFlight(r) => seen[r] # head
      BY <1>0, <2>0 DEF ProducerKnows
    <3>3. seen'[p] <= head' /\ seen'[p] \in Claimed' /\ sequences'[Slot(seen'[p])] = seen'[p]
      BY <1>0, <1>1, <1>4, <2>1 DEF TypeOK
    <3>4. QED BY <1>1, <1>5, <2>2, <3>1, <3>2, <3>3 DEF ProducerKnows
  <2>3. CASE q # p
    BY <1>0, <1>1, <1>2, <1>4, <1>5, <2>0, <2>3 DEF ProducerKnows, TypeOK
  <2>4. QED BY <2>2, <2>3
<1>8. ConsumerKnows'
  BY <1>0, <1>1 DEF ConsumerKnows, Claim, consumerVars, TypeOK
<1>9. First' <= head' /\ head' <= First' + Capacity'
  BY <1>0, <1>1, <1>2, CapacityAssumption DEF Free, TypeOK
<1>10. QED BY <1>3, <1>6, <1>7, <1>8, <1>9 DEF Inv

(* The item goes into the slot of p's position, which the consumer is not at.*)
LEMMA Writing ==
  ASSUME Inv, NEW p \in Producers, WriteItem(p)
  PROVE  Inv'
<1>0. TypeOK /\ Numbered /\ ConsumerKnows /\ \A q \in Producers : ProducerKnows(q)
  BY DEF Inv
<1>1. /\ head' = head /\ seen' = seen /\ item' = item /\ sequences' = sequences
      /\ tail' = tail /\ consumer' = consumer /\ loaded' = loaded
      /\ First' = First /\ Claimed' = Claimed /\ Free' = Free
      /\ pc[p] = "write" /\ pc'[p] = "publish" /\ \A q \in Producers \ {p} : pc'[q] = pc[q]
  BY <1>0 DEF WriteItem, At, TypeOK, consumerVars, First, Claimed, Free
<1>2. \A q \in Producers : InFlight(q)' <=> InFlight(q)
  BY <1>1 DEF InFlight
<1>3. TypeOK'
  <2>1. Slot(seen[p]) \in Slots
    BY <1>0, SlotOf DEF TypeOK
  <2>2. QED BY <1>0, <1>1, <2>1 DEF WriteItem, At, TypeOK, consumerVars
<1>4. Numbered'
  BY <1>0, <1>1, <1>2 DEF Numbered
<1>5. ASSUME NEW q \in Producers PROVE ProducerKnows(q)'
  BY <1>0, <1>1, <1>2 DEF ProducerKnows
<1>6. ConsumerKnows'
  <2>1. consumer \in {"read", "release"} => Slot(seen[p]) # Slot(tail)
    <3>1. SUFFICES ASSUME consumer \in {"read", "release"}, Slot(seen[p]) = Slot(tail) PROVE FALSE
      OBVIOUS
    <3>2. seen[p] \in Claimed /\ sequences[Slot(seen[p])] = seen[p]
      BY <1>0, <1>1 DEF ProducerKnows, InFlight
    <3>3. /\ tail \in First .. (First + Capacity - 1)
          /\ seen[p] \in First .. (First + Capacity - 1)
      BY <1>0, <3>1, <3>2, CapacityAssumption DEF Inv, First, Claimed, TypeOK
    <3>4. seen[p] = tail
      BY <3>1, <3>3, Distinct
    <3>5. QED BY <1>0, <3>1, <3>2, <3>4 DEF ConsumerKnows, TypeOK
  <2>2. consumer = "release" => buffer'[Slot(tail)] = buffer[Slot(tail)]
    <3>1. Slot(tail) \in Slots
      BY <1>0, SlotOf DEF TypeOK
    <3>2. QED BY <1>0, <2>1, <3>1 DEF WriteItem, TypeOK
  <2>3. QED BY <1>0, <1>1, <2>2 DEF ConsumerKnows
<1>7. QED BY <1>1, <1>3, <1>4, <1>5, <1>6 DEF Inv

(* Publishing changes the number of p's own slot only.                      *)
LEMMA Publishing ==
  ASSUME Inv, NEW p \in Producers, PublishItem(p)
  PROVE  Inv'
<1>0. TypeOK /\ Numbered /\ ConsumerKnows /\ \A q \in Producers : ProducerKnows(q)
  BY DEF Inv
<1>1. /\ head' = head /\ seen' = seen /\ item' = item /\ buffer' = buffer
      /\ tail' = tail /\ consumer' = consumer /\ loaded' = loaded
      /\ First' = First /\ Claimed' = Claimed /\ Free' = Free
      /\ pc[p] = "publish" /\ pc'[p] = "idle" /\ \A q \in Producers \ {p} : pc'[q] = pc[q]
  BY <1>0 DEF PublishItem, At, TypeOK, consumerVars, First, Claimed, Free
<1>2. /\ InFlight(p) /\ ~InFlight(p)'
      /\ \A q \in Producers \ {p} : InFlight(q)' <=> InFlight(q)
  BY <1>1 DEF InFlight
<1>3. /\ Slot(seen[p]) \in Slots /\ seen[p] \in Nat
      /\ sequences' = [sequences EXCEPT ![Slot(seen[p])] = seen[p] + 1]
  BY <1>0, SlotOf DEF TypeOK, PublishItem
<1>4. TypeOK'
  BY <1>0, <1>1, <1>3 DEF PublishItem, At, TypeOK, consumerVars
<1>5. seen[p] \in Claimed /\ sequences[Slot(seen[p])] = seen[p]
  BY <1>0, <1>2 DEF ProducerKnows
<1>6. ASSUME NEW n \in Claimed \cup Free, n # seen[p]
      PROVE  sequences'[Slot(n)] = sequences[Slot(n)]
  <2>1. n \in First .. (First + Capacity - 1) /\ seen[p] \in First .. (First + Capacity - 1)
    BY <1>0, <1>5, <1>6, CapacityAssumption DEF Inv, First, Claimed, Free, TypeOK
  <2>2. Slot(n) # Slot(seen[p])
    BY <1>6, <2>1, Distinct
  <2>3. n \in Nat
    BY <1>0, <2>1 DEF First, TypeOK
  <2>4. Slot(n) \in Slots
    BY <2>3, SlotOf
  <2>5. QED BY <1>0, <1>3, <2>2, <2>4 DEF TypeOK
<1>7. sequences'[Slot(seen[p])] = seen[p] + 1
  BY <1>0, <1>3 DEF TypeOK
<1>8. Numbered'
  <2>1. ASSUME NEW n \in Claimed
        PROVE  \/ /\ sequences'[Slot(n)] = n + 1
                  /\ \A q \in Producers : InFlight(q)' => seen'[q] # n
               \/ sequences'[Slot(n)] = n
    <3>1. CASE n = seen[p]
      <4>1. \A q \in Producers \ {p} : InFlight(q) => seen[q] # n
        BY <1>0, <1>2, <3>1 DEF ProducerKnows
      <4>2. QED BY <1>1, <1>2, <1>7, <3>1, <4>1
    <3>2. CASE n # seen[p]
      BY <1>0, <1>1, <1>2, <1>6, <3>2 DEF Numbered
    <3>3. QED BY <3>1, <3>2
  <2>2. ASSUME NEW n \in Free PROVE sequences'[Slot(n)] = n
    <3>1. n # seen[p]
      BY <1>0, <1>5 DEF Claimed, Free, First, TypeOK
    <3>2. QED BY <1>0, <1>6, <3>1 DEF Numbered
  <2>3. QED BY <1>1, <2>1, <2>2 DEF Numbered
<1>9. ASSUME NEW q \in Producers PROVE ProducerKnows(q)'
  <2>1. CASE q = p
    BY <1>0, <1>1, <1>2, <2>1 DEF ProducerKnows
  <2>2. CASE q # p
    <3>1. InFlight(q) => seen[q] \in Claimed /\ seen[q] # seen[p]
      BY <1>0, <1>2, <2>2 DEF ProducerKnows
    <3>2. QED BY <1>0, <1>1, <1>2, <1>6, <2>2, <3>1 DEF ProducerKnows
  <2>3. QED BY <2>1, <2>2
<1>10. ConsumerKnows'
  <2>1. SUFFICES ASSUME consumer \in {"read", "release"} PROVE sequences'[Slot(tail)] = tail + 1
    BY <1>0, <1>1 DEF ConsumerKnows
  <2>2. tail \in Claimed /\ sequences[Slot(tail)] = tail + 1
    BY <1>0, <2>1 DEF ConsumerKnows, Claimed, First, TypeOK
  <2>3. tail # seen[p]
    BY <1>0, <1>5, <2>2 DEF TypeOK
  <2>4. QED BY <1>6, <2>2, <2>3
<1>11. QED BY <1>1, <1>4, <1>8, <1>9, <1>10 DEF Inv

(* A published position at the tail is the consumer's.                      *)
LEMMA Popping ==
  ASSUME Inv, TryPop \/ ReadItem \/ AdvanceTail
  PROVE  Inv'
<1>0. TypeOK /\ Numbered /\ ConsumerKnows /\ \A q \in Producers : ProducerKnows(q)
  BY DEF Inv
<1>1. /\ UNCHANGED <<sequences, buffer, producerVars>>
      /\ First' = First /\ Claimed' = Claimed /\ Free' = Free
  BY <1>0 DEF TryPop, ReadItem, AdvanceTail, producerVars, First, Claimed, Free, TypeOK
<1>2. Numbered' /\ (\A q \in Producers : ProducerKnows(q)') /\ First' <= head'
      /\ head' <= First' + Capacity'
  BY <1>0, <1>1 DEF Inv, Numbered, ProducerKnows, InFlight, producerVars
<1>3. TypeOK'
  <2>1. Slot(tail) \in Slots
    BY <1>0, SlotOf DEF TypeOK
  <2>2. QED BY <1>0, <1>1, <2>1 DEF TypeOK, TryPop, ReadItem, AdvanceTail, producerVars
<1>4. ConsumerKnows'
  <2>1. CASE TryPop
    <3>1. tail < head
      <4>1. SUFFICES ASSUME tail = head PROVE FALSE
        BY <1>0, <2>1 DEF Inv, First, TypeOK, TryPop
      <4>2. tail \in Free
        BY <1>0, <2>1, <4>1, CapacityAssumption DEF Free, First, TypeOK, TryPop
      <4>3. QED BY <1>0, <2>1, <4>2 DEF Numbered, TryPop, TypeOK
    <3>2. tail \in Claimed
      BY <1>0, <2>1, <3>1 DEF Claimed, First, TypeOK, TryPop
    <3>3. sequences[Slot(tail)] = tail + 1
      BY <1>0, <2>1, <3>2 DEF Numbered, TryPop, TypeOK
    <3>4. QED BY <1>1, <2>1, <3>1, <3>3 DEF ConsumerKnows, TryPop, producerVars
  <2>2. CASE ReadItem
    BY <1>0, <1>1, <2>2 DEF ConsumerKnows, ReadItem, producerVars
  <2>3. CASE AdvanceTail
    BY <2>3 DEF ConsumerKnows, AdvanceTail
  <2>4. QED BY <2>1, <2>2, <2>3
<1>5. QED BY <1>2, <1>3, <1>4 DEF Inv

(* The slot at the tail is free for the position one round later.           *)
LEMMA Releasing ==
  ASSUME Inv, ReleaseSlot
  PROVE  Inv'
<1>0. TypeOK /\ Numbered /\ ConsumerKnows /\ \A q \in Producers : ProducerKnows(q)
  BY DEF Inv
<1>1. /\ head' = head /\ seen' = seen /\ item' = item /\ pc' = pc /\ buffer' = buffer
      /\ tail' = tail /\ loaded' = loaded /\ consumer = "release" /\ consumer' = "advance"
      /\ First = tail /\ First' = tail + 1 /\ tail \in Nat /\ tail < head
  BY <1>0 DEF ReleaseSlot, producerVars, First, TypeOK, ConsumerKnows
<1>2. \A q \in Producers : InFlight(q)' <=> InFlight(q)
  BY <1>1 DEF InFlight
<1>3. /\ Slot(tail) \in Slots /\ Slot(tail + Capacity) = Slot(tail)
      /\ sequences' = [sequences EXCEPT ![Slot(tail)] = tail + Capacity]
  BY <1>1, SlotOf, SlotAgain DEF ReleaseSlot
<1>4. TypeOK'
  BY <1>0, <1>1, <1>3, CapacityAssumption DEF ReleaseSlot, TypeOK, producerVars
<1>5. ASSUME NEW n \in Claimed \cup Free, n # tail
      PROVE  sequences'[Slot(n)] = sequences[Slot(n)]
  <2>1. n \in First .. (First + Capacity - 1) /\ tail \in First .. (First + Capacity - 1)
    BY <1>0, <1>1, <1>5, CapacityAssumption DEF Inv, Claimed, Free, TypeOK
  <2>2. Slot(n) # Slot(tail)
    BY <1>5, <2>1, Distinct
  <2>3. Slot(n) \in Slots
    BY <1>1, <2>1, SlotOf
  <2>4. QED BY <1>0, <1>3, <2>2, <2>3 DEF TypeOK
<1>6. \A n \in Claimed' : n \in Claimed /\ n # tail
  BY <1>0, <1>1 DEF Claimed, TypeOK
<1>7. \A n \in Free' : n = tail + Capacity \/ (n \in Free /\ n # tail)
  BY <1>0, <1>1, CapacityAssumption DEF Free, TypeOK
<1>8. Numbered'
  <2>1. sequences'[Slot(tail + Capacity)] = tail + Capacity
    BY <1>0, <1>3 DEF TypeOK
  <2>2. QED BY <1>0, <1>1, <1>2, <1>5, <1>6, <1>7, <2>1 DEF Numbered
<1>9. ASSUME NEW q \in Producers PROVE ProducerKnows(q)'
  <2>1. InFlight(q) => seen[q] \in Claimed /\ seen[q] # tail
    <3>1. SUFFICES ASSUME InFlight(q) PROVE seen[q] \in Claimed /\ seen[q] # tail
      OBVIOUS
    <3>2. seen[q] \in Claimed /\ sequences[Slot(seen[q])] = seen[q]
      BY <1>0, <3>1 DEF ProducerKnows
    <3>3. sequences[Slot(tail)] = tail + 1
      BY <1>0, <1>1 DEF ConsumerKnows
    <3>4. QED BY <1>1, <3>2, <3>3
  <2>2. InFlight(q) => seen[q] \in Claimed'
    BY <1>0, <1>1, <2>1 DEF Claimed, TypeOK
  <2>3. pc[q] = "claim" => seen[q] < First' + Capacity'
    BY <1>0, <1>1, CapacityAssumption DEF ProducerKnows, TypeOK
  <2>4. QED BY <1>0, <1>1, <1>2, <1>5, <2>1, <2>2, <2>3 DEF ProducerKnows
<1>10. ConsumerKnows'
  BY <1>1 DEF ConsumerKnows
<1>11. First' <= head' /\ head' <= First' + Capacity'
  BY <1>0, <1>1, CapacityAssumption DEF Inv, TypeOK
<1>12. QED BY <1>4, <1>8, <1>9, <1>10, <1>11 DEF Inv

(* One case per access to shared memory.                                    *)
THEOREM Inv_Next == Inv /\ [Next]_vars => Inv'
<1> SUFFICES ASSUME Inv, [Next]_vars PROVE Inv'
  OBVIOUS
<1>1. ASSUME NEW p \in Producers, Produce(p) \/ \E v \in Items : TryPush(p, v) PROVE Inv'
  BY <1>1, Looking, Claiming, Writing, Publishing DEF Produce
<1>2. CASE Consume
  BY <1>2, Popping, Releasing DEF Consume
<1>3. CASE UNCHANGED vars
  BY <1>3 DEF Inv, vars, TypeOK, First, Numbered, Claimed, Free, ProducerKnows, InFlight, ConsumerKnows
<1>4. QED BY <1>1, <1>2, <1>3 DEF Next

(* The invariant holds in every state of the queue.                         *)
THEOREM Inv_Always == Spec => []Inv
<1>1. QED BY Inv_Init, Inv_Next, PTL DEF Spec

(* Two claimed positions never share a slot, nor does a position being      *)
(* written share one with the position being read: the plain accesses of    *)
(* try_push and try_pop to buffer_ never race.                              *)
THEOREM NoRace == Spec => []NoSlotRace
<1>1. ASSUME Inv PROVE NoSlotRace
  <2>0. TypeOK /\ ConsumerKnows /\ \A q \in Producers : ProducerKnows(q)
    BY <1>1 DEF Inv
  <2>1. SUFFICES ASSUME NEW p \in Producers, pc[p] = "write"
                 PROVE  /\ \A q \in Producers \ {p} : pc[q] \in {"write", "publish"}
                                                          => Slot(seen[p]) # Slot(seen[q])
                        /\ consumer \in {"read", "release"} => Slot(seen[p]) # Slot(tail)
    BY DEF NoSlotRace
  <2>2. \A n \in Claimed : n \in First .. (First + Capacity - 1)
    BY <1>1, <2>0, CapacityAssumption DEF Inv, Claimed, First, TypeOK
  <2>3. seen[p] \in Claimed /\ sequences[Slot(seen[p])] = seen[p]
    BY <2>0, <2>1 DEF ProducerKnows, InFlight
  <2>4. ASSUME NEW q \in Producers \ {p}, pc[q] \in {"write", "publish"}
        PROVE  Slot(seen[p]) # Slot(seen[q])
    <3>1. seen[q] \in Claimed /\ seen[p] # seen[q]
      BY <2>0, <2>1, <2>4 DEF ProducerKnows, InFlight
    <3>2. QED BY <1>1, <2>2, <2>3, <3>1, Distinct
  <2>5. ASSUME consumer \in {"read", "release"} PROVE Slot(seen[p]) # Slot(tail)
    <3>1. tail \in Claimed /\ sequences[Slot(tail)] = tail + 1
      BY <2>0, <2>5 DEF ConsumerKnows, Claimed, First, TypeOK
    <3>2. seen[p] # tail
      BY <2>0, <2>3, <3>1 DEF TypeOK
    <3>3. QED BY <1>1, <2>2, <2>3, <3>1, <3>2, Distinct
  <2>6. QED BY <2>4, <2>5
<1>2. QED BY <1>1, Inv_Always, PTL

-----------------------------------------------------------------------------
(* The queue implements BoundedFifo: an item enters when its position is    *)
(* claimed and leaves when its slot is released.                            *)

(* The producer writing a position is the only one that could be chosen.    *)
LEMMA Chosen ==
  ASSUME NEW at, NEW pos, NEW n, NEW p \in Producers, at[p] = "write" /\ pos[p] = n,
         \A q \in Producers : at[q] = "write" /\ pos[q] = n => q = p
  PROVE  (CHOOSE q \in Producers : at[q] = "write" /\ pos[q] = n) = p
OBVIOUS

(* The item of a position that a producer has yet to write is that producer's.*)
LEMMA ItemToWrite ==
  ASSUME Inv, NEW p \in Producers, pc[p] = "write"
  PROVE  /\ ItemAt(seen[p]) = item[p]
         /\ \A q \in Producers : pc[q] = "write" /\ seen[q] = seen[p] => q = p
<1>1. \A q \in Producers : pc[q] = "write" /\ seen[q] = seen[p] => q = p
  BY DEF Inv, ProducerKnows, InFlight
<1>2. (CHOOSE q \in Producers : pc[q] = "write" /\ seen[q] = seen[p]) = p
  BY <1>1, Chosen
<1>3. QED BY <1>1, <1>2 DEF ItemAt

(* A step that leaves a position's writer and slot alone leaves its item.   *)
LEMMA SameItem ==
  ASSUME Inv, NEW n \in Nat,
         \A q \in Producers : (pc'[q] = "write" /\ seen'[q] = n) <=> (pc[q] = "write" /\ seen[q] = n),
         \A q \in Producers : pc[q] = "write" /\ seen[q] = n => item'[q] = item[q],
         buffer'[Slot(n)] = buffer[Slot(n)]
  PROVE  ItemAt(n)' = ItemAt(n)
<1>1. CASE \E p \in Producers : pc[p] = "write" /\ seen[p] = n
  <2>1. PICK p \in Producers : pc[p] = "write" /\ seen[p] = n
    BY <1>1
  <2>2. /\ ItemAt(n) = item[p]
        /\ \A q \in Producers : pc[q] = "write" /\ seen[q] = n => q = p
    BY <2>1, ItemToWrite
  <2>3. (CHOOSE q \in Producers : pc'[q] = "write" /\ seen'[q] = n) = p
    BY <2>1, <2>2, Chosen
  <2>4. ItemAt(n)' = item'[p]
    BY Zenon, <2>1, <2>3 DEF ItemAt
  <2>5. QED BY <2>1, <2>2, <2>4
<1>2. CASE ~ \E p \in Producers : pc[p] = "write" /\ seen[p] = n
  <2>1. ItemAt(n) = buffer[Slot(n)]
    BY <1>2 DEF ItemAt
  <2>2. ItemAt(n)' = buffer'[Slot(n)]
    BY <1>2 DEF ItemAt
  <2>3. QED BY <2>1, <2>2
<1>3. QED BY <1>1, <1>2

(* A sequence one item longer.                                              *)
LEMMA OneMore ==
  ASSUME NEW S, NEW d \in Nat, NEW s \in [1 .. d -> S], NEW t \in [1 .. (d + 1) -> S],
         \A k \in 1 .. d : t[k] = s[k]
  PROVE  t = Append(s, t[d + 1])
<1>1. s \in Seq(S) /\ Len(s) = d
  OBVIOUS
<1>2. t \in Seq(S) /\ Len(t) = d + 1
  OBVIOUS
<1>3. t[d + 1] \in S
  OBVIOUS
<1>4. QED BY <1>1, <1>2, <1>3

(* A sequence without its first item.                                       *)
LEMMA OneLess ==
  ASSUME NEW S, NEW d \in Nat \ {0}, NEW s \in [1 .. d -> S], NEW t \in [1 .. (d - 1) -> S],
         \A k \in 1 .. (d - 1) : t[k] = s[k + 1]
  PROVE  s # <<>> /\ t = Tail(s) /\ Head(s) = s[1]
<1>1. s \in Seq(S) /\ Len(s) = d
  OBVIOUS
<1>2. t \in Seq(S) /\ Len(t) = d - 1
  OBVIOUS
<1>3. QED BY <1>1, <1>2

(* The contents are a sequence of as many items as positions are claimed.   *)
LEMMA ContentsSeq ==
  ASSUME Inv
  PROVE  /\ First \in Nat /\ head \in Nat /\ First <= head
         /\ Contents \in [1 .. (head - First) -> Items \cup {None}]
         /\ \A k \in 1 .. (head - First) : Contents[k] = ItemAt(First + k - 1)
         /\ Len(Contents) = head - First /\ head - First \in 0 .. Capacity
         /\ \A k \in 1 .. (head - First) : First + k - 1 \in Claimed
<1>1. First \in Nat /\ head \in Nat /\ First <= head /\ head - First \in 0 .. Capacity
  BY CapacityAssumption DEF Inv, TypeOK, First
<1>2. ASSUME NEW n \in Claimed PROVE ItemAt(n) \in Items \cup {None}
  <2>1. n \in Nat
    BY <1>1 DEF Claimed
  <2>2. buffer[Slot(n)] \in Items \cup {None}
    BY <2>1, SlotOf DEF Inv, TypeOK
  <2>3. QED BY <2>2 DEF ItemAt, Inv, TypeOK
<1>3. \A k \in 1 .. (head - First) : First + k - 1 \in Claimed
  BY <1>1 DEF Claimed
<1>4. \A k \in 1 .. (head - First) : Contents[k] = ItemAt(First + k - 1)
  BY DEF Contents
<1>5. Contents \in [1 .. (head - First) -> Items \cup {None}]
  <2>1. \A k \in 1 .. (head - First) : ItemAt(First + k - 1) \in Items \cup {None}
    BY <1>2, <1>3, Zenon
  <2>2. QED BY <2>1 DEF Contents
<1>6. Len(Contents) = head - First
  BY <1>1 DEF Contents
<1>7. QED BY <1>1, <1>3, <1>4, <1>5, <1>6

(* The same positions with the same items are the same contents.            *)
LEMMA ContentsSame ==
  ASSUME Inv, First' = First, head' = head, \A n \in Claimed : ItemAt(n)' = ItemAt(n)
  PROVE  Contents' = Contents
<1>1. Contents' = [k \in 1 .. (head - First) |-> ItemAt(First + k - 1)']
  BY DEF Contents
<1>2. \A k \in 1 .. (head - First) : First + k - 1 \in Claimed
  BY ContentsSeq
<1>3. QED BY <1>1, <1>2 DEF Contents

(* Claiming appends the producer's item, and there was room for it.         *)
LEMMA ContentsClaim ==
  ASSUME Inv, NEW p \in Producers, Claim(p)
  PROVE  Contents' = Append(Contents, item[p]) /\ item[p] \in Items /\ Len(Contents) < Capacity
<1>0. TypeOK /\ ProducerKnows(p)
  BY DEF Inv
<1>1. /\ seen[p] = head /\ head' = head + 1 /\ pc'[p] = "write" /\ pc[p] = "claim" /\ seen' = seen
      /\ \A q \in Producers \ {p} : pc'[q] = pc[q]
      /\ item' = item /\ buffer' = buffer /\ First' = First
  BY <1>0 DEF Claim, At, TypeOK, First, consumerVars
<1>2. item[p] \in Items /\ head < First + Capacity
  BY <1>0, <1>1 DEF ProducerKnows
<1>3. ASSUME NEW n \in Claimed PROVE ItemAt(n)' = ItemAt(n)
  <2>1. n \in Nat /\ n # head
    BY <1>3, ContentsSeq DEF Claimed
  <2>2. \A q \in Producers : (pc'[q] = "write" /\ seen'[q] = n) <=> (pc[q] = "write" /\ seen[q] = n)
    BY <1>1, <2>1
  <2>3. QED BY <1>1, <2>1, <2>2, SameItem
<1>4. ASSUME NEW n \in Nat, n = head PROVE ItemAt(n)' = item[p]
  <2>1. \A q \in Producers : pc'[q] = "write" /\ seen'[q] = n => q = p
    BY <1>1, <1>4, ContentsSeq DEF Inv, ProducerKnows, InFlight, Claimed
  <2>2. (CHOOSE q \in Producers : pc'[q] = "write" /\ seen'[q] = n) = p
    BY <1>1, <1>4, <2>1, Chosen
  <2>3. QED BY Zenon, <1>1, <1>4, <2>2 DEF ItemAt
<1>5. Contents' = [k \in 1 .. (head - First + 1) |-> ItemAt(First + k - 1)']
  BY <1>1, ContentsSeq DEF Contents
<1> DEFINE d == head - First
<1>6. /\ d \in Nat /\ First \in Nat /\ Len(Contents) = d
      /\ Contents \in [1 .. d -> Items \cup {None}]
  BY ContentsSeq
<1>7. \A k \in 1 .. d : Contents'[k] = Contents[k]
  BY <1>1, <1>3, <1>5, <1>6, ContentsSeq
<1>8. Contents'[d + 1] = item[p]
  <2>1. First + (d + 1) - 1 = head /\ d + 1 \in 1 .. (d + 1) /\ head \in Nat
    BY ContentsSeq
  <2>2. QED BY <1>1, <1>4, <1>5, <1>6, <2>1
<1>9. Contents' \in [1 .. (d + 1) -> Items \cup {None}]
  <2>1. ASSUME NEW k \in 1 .. (d + 1) PROVE Contents'[k] \in Items \cup {None}
    BY <1>2, <1>6, <1>7, <1>8
  <2>2. QED BY <1>5, <2>1
<1> HIDE DEF d
<1>10. Contents' = Append(Contents, item[p])
  BY <1>6, <1>7, <1>8, <1>9, OneMore
<1>11. QED BY <1>0, <1>2, <1>6, <1>10, CapacityAssumption DEF d, TypeOK

(* Writing the item moves it from the producer to the slot.                 *)
LEMMA ContentsWrite ==
  ASSUME Inv, NEW p \in Producers, WriteItem(p)
  PROVE  Contents' = Contents
<1>0. TypeOK /\ ProducerKnows(p)
  BY DEF Inv
<1>1. /\ head' = head /\ First' = First /\ seen' = seen /\ item' = item
      /\ pc[p] = "write" /\ pc'[p] = "publish" /\ \A q \in Producers \ {p} : pc'[q] = pc[q]
      /\ buffer' = [buffer EXCEPT ![Slot(seen[p])] = item[p]] /\ seen[p] \in Claimed
  BY <1>0 DEF WriteItem, At, TypeOK, First, consumerVars, ProducerKnows, InFlight
<1>2. ASSUME NEW n \in Claimed PROVE ItemAt(n)' = ItemAt(n)
  <2>0. n \in Nat /\ Slot(n) \in Slots
    BY ContentsSeq, SlotOf DEF Claimed
  <2>1. CASE n = seen[p]
    <3>1. /\ ItemAt(n) = item[p]
          /\ \A q \in Producers : pc[q] = "write" /\ seen[q] = n => q = p
      BY <1>1, <2>1, ItemToWrite
    <3>2. ~ \E q \in Producers : pc'[q] = "write" /\ seen'[q] = n
      BY <1>1, <3>1
    <3>3. ItemAt(n)' = buffer'[Slot(n)]
      BY <3>2 DEF ItemAt
    <3>4. QED BY <1>0, <1>1, <2>0, <2>1, <3>1, <3>3 DEF TypeOK
  <2>2. CASE n # seen[p]
    <3>1. Slot(n) # Slot(seen[p])
      <4>1. n \in First .. (First + Capacity - 1) /\ seen[p] \in First .. (First + Capacity - 1)
        BY <1>1, CapacityAssumption, ContentsSeq DEF Claimed
      <4>2. QED BY <2>2, <4>1, Distinct
    <3>2. buffer'[Slot(n)] = buffer[Slot(n)]
      BY <1>0, <1>1, <2>0, <3>1 DEF TypeOK
    <3>3. \A q \in Producers : (pc'[q] = "write" /\ seen'[q] = n) <=> (pc[q] = "write" /\ seen[q] = n)
      BY <1>1, <2>2
    <3>4. QED BY <1>1, <2>0, <3>2, <3>3, SameItem
  <2>3. QED BY <2>1, <2>2
<1>3. QED BY <1>1, <1>2, ContentsSame

(* Releasing takes the first item off, the one that was read.               *)
LEMMA ContentsRelease ==
  ASSUME Inv, ReleaseSlot
  PROVE  Contents # <<>> /\ Contents' = Tail(Contents) /\ taken' = Head(Contents)
<1>0. TypeOK /\ ConsumerKnows
  BY DEF Inv
<1>1. /\ head' = head /\ seen' = seen /\ item' = item /\ pc' = pc /\ buffer' = buffer
      /\ First = tail /\ First' = First + 1 /\ tail < head /\ tail \in Nat /\ head \in Nat
      /\ taken' = buffer[Slot(tail)]
  BY <1>0 DEF ReleaseSlot, producerVars, First, TypeOK, ConsumerKnows
<1>2. ASSUME NEW n \in Nat PROVE ItemAt(n)' = ItemAt(n)
  BY <1>1, SameItem
<1>3. ItemAt(tail) = taken'
  <2>1. ~ \E q \in Producers : pc[q] = "write" /\ seen[q] = tail
    BY <1>0, <1>1 DEF Inv, ProducerKnows, InFlight, ConsumerKnows, ReleaseSlot, TypeOK
  <2>2. QED BY <1>1, <2>1 DEF ItemAt
<1> DEFINE d == head - First
<1>4. /\ d \in Nat \ {0} /\ First + 1 - 1 = tail
      /\ Contents \in [1 .. d -> Items \cup {None}]
      /\ \A k \in 1 .. d : Contents[k] = ItemAt(First + k - 1)
  BY <1>1, ContentsSeq
<1>5. Contents[1] = taken'
  BY <1>3, <1>4
<1>6. Contents' = [k \in 1 .. (d - 1) |-> ItemAt(First + k - 1)']
  BY <1>1 DEF Contents
<1>7. ASSUME NEW k \in 1 .. (d - 1) PROVE Contents'[k] = Contents[k + 1]
  <2>1. First' + k - 1 = First + (k + 1) - 1 /\ First' + k - 1 \in Nat /\ k + 1 \in 1 .. d
    BY <1>1, <1>4
  <2>2. QED BY <1>2, <1>4, <1>6, <2>1
<1>8. Contents' \in [1 .. (d - 1) -> Items \cup {None}]
  <2>1. ASSUME NEW k \in 1 .. (d - 1) PROVE Contents'[k] \in Items \cup {None}
    BY <1>4, <1>7
  <2>2. QED BY <1>6, <2>1
<1> HIDE DEF d
<1>9. QED BY <1>4, <1>5, <1>7, <1>8, OneLess

(* The other accesses of a producer change no item.                         *)
LEMMA ContentsLook ==
  ASSUME Inv, NEW p \in Producers,
         \/ \E v \in Items : TryPush(p, v)
         \/ SlotFree(p) \/ SlotFull(p) \/ SlotClaimed(p) \/ ClaimFails(p) \/ PublishItem(p)
  PROVE  Contents' = Contents /\ taken' = taken
<1>1. /\ head' = head /\ First' = First /\ buffer' = buffer /\ taken' = taken
      /\ pc[p] # "write" /\ pc'[p] # "write"
      /\ \A q \in Producers \ {p} : pc'[q] = pc[q] /\ seen'[q] = seen[q] /\ item'[q] = item[q]
  BY DEF Inv, TypeOK, TryPush, SlotFree, SlotFull, SlotClaimed, ClaimFails, PublishItem, At, First,
     consumerVars
<1>2. ASSUME NEW n \in Claimed PROVE ItemAt(n)' = ItemAt(n)
  <2>1. n \in Nat
    BY ContentsSeq DEF Claimed
  <2>2. \A q \in Producers : (pc'[q] = "write" /\ seen'[q] = n) <=> (pc[q] = "write" /\ seen[q] = n)
    BY Zenon, <1>1
  <2>3. QED BY Zenon, <1>1, <2>1, <2>2, SameItem
<1>3. QED BY <1>1, <1>2, ContentsSame

(* The other accesses of the consumer change no item either.                *)
LEMMA ContentsPop ==
  ASSUME Inv, TryPop \/ ReadItem \/ AdvanceTail \/ UNCHANGED vars
  PROVE  Contents' = Contents /\ taken' = taken
<1>1. UNCHANGED <<head, pc, seen, item, buffer, taken>> /\ First' = First
  BY DEF TryPop, ReadItem, AdvanceTail, vars, producerVars, First, Inv, TypeOK
<1>2. ASSUME NEW n \in Claimed PROVE ItemAt(n)' = ItemAt(n)
  BY <1>1 DEF ItemAt
<1>3. QED BY <1>1, <1>2, ContentsSame

(* The queue starts empty.                                                  *)
LEMMA Fifo_Init == Init => Fifo!Init
<1> SUFFICES ASSUME Init PROVE Fifo!Init
  OBVIOUS
<1>1. head - First = 0
  BY DEF Init, First
<1>2. Contents = <<>>
  BY <1>1 DEF Contents
<1>3. QED BY <1>2 DEF Init, Fifo!Init

(* Every access is a push, a pop or no step of the abstract queue.          *)
LEMMA Fifo_Next == Inv /\ [Next]_vars => [Fifo!Next]_Fifo!vars
<1> SUFFICES ASSUME Inv, [Next]_vars PROVE [Fifo!Next]_Fifo!vars
  OBVIOUS
<1>1. ASSUME NEW p \in Producers, Claim(p) PROVE Fifo!Next
  <2>1. taken' = taken
    BY <1>1 DEF Claim, consumerVars
  <2>2. Fifo!Push(item[p])
    BY <1>1, <2>1, ContentsClaim DEF Fifo!Push
  <2>3. QED BY <1>1, <2>2, ContentsClaim DEF Fifo!Next
<1>2. ASSUME NEW p \in Producers, WriteItem(p) PROVE UNCHANGED Fifo!vars
  <2>1. taken' = taken
    BY <1>2 DEF WriteItem, consumerVars
  <2>2. QED BY <1>2, <2>1, ContentsWrite DEF Fifo!vars
<1>3. ASSUME NEW p \in Producers,
             \/ \E v \in Items : TryPush(p, v)
             \/ SlotFree(p) \/ SlotFull(p) \/ SlotClaimed(p) \/ ClaimFails(p) \/ PublishItem(p)
      PROVE  UNCHANGED Fifo!vars
  BY <1>3, ContentsLook DEF Fifo!vars
<1>4. CASE ReleaseSlot
  <2>1. Fifo!Pop
    BY <1>4, ContentsRelease DEF Fifo!Pop
  <2>2. QED BY <2>1 DEF Fifo!Next
<1>5. CASE TryPop \/ ReadItem \/ AdvanceTail \/ UNCHANGED vars
  BY <1>5, ContentsPop DEF Fifo!vars
<1>6. QED BY <1>1, <1>2, <1>3, <1>4, <1>5 DEF Next, Produce, Consume

(* MPSCQueue is a bounded FIFO queue, in the order in which the positions   *)
(* were claimed, whichever producers claim them (try_push, try_pop).        *)
THEOREM QueueImplementsFifo == Spec => ImplementsFifo
<1>1. QED BY Fifo_Init, Fifo_Next, Inv_Always, PTL DEF Spec, ImplementsFifo, Fifo!Spec
=============================================================================
