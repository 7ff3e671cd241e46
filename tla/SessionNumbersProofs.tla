------------------------ MODULE SessionNumbersProofs ------------------------
(***************************************************************************)
(* The numbers of the new messages are consecutive, over failed sends,     *)
(* replays, reconnections and the replacement of an initiator that has a   *)
(* store; and what is replayed under a number is what went out under it.   *)
(*                                                                         *)
(* A call starts after a last number and sends some messages.  What holds  *)
(* all along it (Line) is that the messages sent so far are in sequence,   *)
(* that the counter, and the stored one, follow the last of them, and that *)
(* whatever is stored or replayed went out once as a new message.          *)
(***************************************************************************)
EXTENDS SessionProofs, FiniteSetTheorems, WellFoundedInduction

-----------------------------------------------------------------------------
(* Sequences of messages.                                                   *)

(* A set of places has a last one.                                          *)
LEMMA LastPlace ==
  ASSUME NEW n \in Nat, NEW P \in SUBSET (1 .. n), P # {}
  PROVE  Max(P) \in P /\ \A y \in P : Max(P) >= y
<1> DEFINE T == {n - j : j \in P}
<1>1. T \subseteq Nat /\ T # {}
  <2>1. \A j \in P : n - j \in Nat
    OBVIOUS
  <2>2. QED BY Zenon, <2>1
<1>2. PICK x \in T : \A y \in T : ~(<<y, x>> \in OpToRel(<, Nat))
  BY Zenon, <1>1, NatLessThanWellFounded, WFMin
<1>3. ASSUME NEW y \in T PROVE x <= y
  <2>1. x \in Nat /\ y \in Nat
    BY <1>1
  <2>2. y < x => <<y, x>> \in OpToRel(<, Nat)
    BY <2>1, Zenon DEF OpToRel
  <2>3. ~(y < x)
    BY <1>2, <2>2, Zenon
  <2>4. QED BY <2>1, <2>3
<1>4. PICK k \in P : x = n - k
  OBVIOUS
<1>5. ASSUME NEW y \in P PROVE k >= y
  <2>1. n - y \in T /\ y \in Int /\ k \in Int
    OBVIOUS
  <2>2. n - k <= n - y
    BY <1>3, <1>4, <2>1
  <2>3. QED BY <2>1, <2>2
<1>6. QED BY Zenon, <1>5 DEF Max

(* A set of numbers has an i-th element up to its size: the number of       *)
(* smaller elements tells its elements apart, and there are as many such    *)
(* counts as elements.                                                      *)
LEMMA Nth_in ==
  ASSUME NEW S, IsFiniteSet(S), S \subseteq Nat, NEW i \in 1 .. Cardinality(S)
  PROVE  Nth(S, i) \in S
<1> DEFINE below(q) == {r \in S : r < q}
           N == Cardinality(S)
           ranks == 0 .. (N - 1)
           rank == [q \in S |-> Cardinality(below(q))]
<1>1. N \in Nat
  BY FS_CardinalityType
<1>2. \A q \in S : below(q) \in SUBSET S /\ below(q) \cup {q} \in SUBSET S /\ q \notin below(q)
  OBVIOUS
<1>3. ASSUME NEW q \in S, NEW r \in S, q < r
      PROVE  below(q) \cup {q} \in SUBSET below(r)
  <2>1. \A p \in S : p < q => p < r
    BY <1>3
  <2>2. QED BY Zenon, <1>3, <2>1
<1>4. \A q, r \in S : q # r => q < r \/ r < q
  OBVIOUS
<1>5. (\E q \in S : Cardinality(below(q)) = i - 1) => Nth(S, i) \in S
  BY DEF Nth
<1> HIDE DEF below
<1>6. ASSUME NEW q \in S
      PROVE  /\ IsFiniteSet(below(q)) /\ Cardinality(below(q)) \in Nat
             /\ Cardinality(below(q) \cup {q}) = Cardinality(below(q)) + 1
  <2>1. IsFiniteSet(below(q))
    BY <1>2, FS_Subset
  <2>2. QED BY <1>2, <2>1, FS_CardinalityType, FS_AddElement
<1>7. ASSUME NEW q \in S PROVE rank[q] \in ranks
  <2>1. Cardinality(below(q) \cup {q}) <= N
    BY <1>2, FS_Subset
  <2>2. Cardinality(below(q)) + 1 <= N /\ Cardinality(below(q)) \in Nat
    BY <1>6, <2>1
  <2>3. QED BY <1>1, <2>2
<1>8. ASSUME NEW q \in S, NEW r \in S, q < r PROVE rank[q] < rank[r]
  <2>1. Cardinality(below(q) \cup {q}) <= Cardinality(below(r))
    BY Zenon, <1>3, <1>6, <1>8, FS_Subset
  <2>2. Cardinality(below(q)) + 1 <= Cardinality(below(r))
    BY <1>6, <2>1
  <2>3. Cardinality(below(q)) \in Nat /\ Cardinality(below(r)) \in Nat
    BY Zenon, <1>6
  <2>4. QED BY <2>2, <2>3
<1>9. rank \in Injection(S, ranks)
  <2>1. rank \in [S -> ranks]
    BY <1>7
  <2> HIDE DEF rank
  <2>2. ASSUME NEW q \in S, NEW r \in S, rank[q] = rank[r] PROVE q = r
    <3>1. rank[q] \in Int /\ rank[r] \in Int
      BY <1>1, <2>1
    <3>2. ~(q < r) /\ ~(r < q)
      BY <1>8, <2>2, <3>1
    <3>3. QED BY <1>4, <3>2
  <2>3. DOMAIN rank = S
    BY <2>1
  <2>4. QED BY <2>1, <2>2, <2>3, Zenon DEF Injection, IsInjective
<1>10. IsFiniteSet(ranks) /\ Cardinality(ranks) = N
  <2> HIDE DEF N
  <2>1. /\ IsFiniteSet(0 .. (N - 1))
        /\ Cardinality(0 .. (N - 1)) = IF 0 > N - 1 THEN 0 ELSE (N - 1) - 0 + 1
    BY <1>1, FS_Interval
  <2>2. QED BY <1>1, <2>1
<1>11. i - 1 \in ranks
  BY <1>1
<1>12. rank \in Surjection(S, ranks)
  <2> HIDE DEF rank, ranks
  <2>1. QED BY <1>9, <1>10, FS_Injection
<1>13. PICK q \in S : rank[q] = i - 1
  BY Zenon, <1>11, <1>12 DEF Surjection
<1>14. QED BY <1>5, <1>13

(* What is sent later does not change the numbers of the earlier places.    *)
LEMMA LastOf_prefix ==
  ASSUME NEW tx, Len(tx) \in Nat, NEW ux, \A i \in 1 .. Len(tx) : ux[i] = tx[i],
         NEW P \in SUBSET (1 .. Len(tx)), NEW before
  PROVE  LastOf(ux, P, before) = LastOf(tx, P, before)
<1>1. CASE P = {}
  BY <1>1 DEF LastOf
<1>2. CASE P # {}
  <2>1. Max(P) \in P
    BY Zenon, <1>2, LastPlace
  <2>2. QED BY Zenon, <1>2, <2>1 DEF LastOf
<1>3. QED BY <1>1, <1>2

(* Replays and gap fills are not numbered.                                  *)
LEMMA NotNew ==
  ASSUME NEW tx, Len(tx) \in Nat, NEW ux, Len(ux) \in Nat, Len(ux) >= Len(tx),
         \A i \in 1 .. Len(tx) : ux[i] = tx[i],
         \A i \in (Len(tx) + 1) .. Len(ux) : ~IsNew(ux[i]), NEW before
  PROVE  /\ LastOf(ux, NewAt(ux), before) = LastOf(tx, NewAt(tx), before)
         /\ InSequence(tx, before) => InSequence(ux, before)
<1>1. NewAt(ux) = NewAt(tx) /\ NewAt(tx) \in SUBSET (1 .. Len(tx))
  BY DEF NewAt
<1>2. ASSUME NEW P \in SUBSET NewAt(tx)
      PROVE  LastOf(ux, P, before) = LastOf(tx, P, before)
  BY <1>1, LastOf_prefix
<1>3. ASSUME InSequence(tx, before), NEW i \in NewAt(ux)
      PROVE  LET prev == LastOf(ux, {j \in NewAt(ux) : j < i}, before)
             IN prev = 0 \/ ux[i].seq = next_outbound(prev)
  <2> DEFINE P == {j \in NewAt(tx) : j < i}
  <2>1. LastOf(ux, P, before) = LastOf(tx, P, before)
    BY <1>2
  <2>2. i \in NewAt(tx) /\ ux[i] = tx[i]
    BY <1>1
  <2>3. LastOf(tx, P, before) = 0 \/ tx[i].seq = next_outbound(LastOf(tx, P, before))
    BY Zenon, <1>3, <2>2 DEF InSequence
  <2> HIDE DEF P
  <2>4. QED BY <1>1, <2>1, <2>2, <2>3 DEF P
<1>4. QED BY <1>1, <1>2, <1>3 DEF InSequence

(* A new message is numbered after the last one.                            *)
LEMMA OneNew ==
  ASSUME NEW tx, Len(tx) \in Nat, NEW ux, Len(ux) = Len(tx) + 1,
         \A i \in 1 .. Len(tx) : ux[i] = tx[i], IsNew(ux[Len(ux)]), NEW before
  PROVE  /\ LastOf(ux, NewAt(ux), before) = ux[Len(ux)].seq
         /\ LET last0 == LastOf(tx, NewAt(tx), before) IN
            InSequence(tx, before) /\ (last0 = 0 \/ ux[Len(ux)].seq = next_outbound(last0))
              => InSequence(ux, before)
<1> DEFINE n == Len(ux)
           last0 == LastOf(tx, NewAt(tx), before)
<1>1. NewAt(ux) = NewAt(tx) \cup {n} /\ NewAt(tx) \in SUBSET (1 .. Len(tx)) /\ n \in NewAt(ux)
  BY DEF NewAt
<1>2. Max(NewAt(ux)) = n
  <2>1. \A y \in NewAt(ux) : n >= y /\ y \in Int
    BY DEF NewAt
  <2>2. QED BY <1>1, <2>1 DEF Max
<1>3. LastOf(ux, NewAt(ux), before) = ux[n].seq
  BY <1>1, <1>2 DEF LastOf
<1>4. ASSUME NEW P \in SUBSET NewAt(tx)
      PROVE  LastOf(ux, P, before) = LastOf(tx, P, before)
  BY <1>1, LastOf_prefix
<1>5. ASSUME InSequence(tx, before), last0 = 0 \/ ux[n].seq = next_outbound(last0),
             NEW i \in NewAt(ux)
      PROVE  LET prev == LastOf(ux, {j \in NewAt(ux) : j < i}, before)
             IN prev = 0 \/ ux[i].seq = next_outbound(prev)
  <2>1. CASE i = n
    <3>1. {j \in NewAt(ux) : j < i} = NewAt(tx)
      BY <1>1, <2>1
    <3>2. QED BY Zenon, <1>4, <1>5, <2>1, <3>1
  <2>2. CASE i # n
    <3> DEFINE P == {j \in NewAt(tx) : j < i}
    <3>1. i \in NewAt(tx) /\ ux[i] = tx[i] /\ {j \in NewAt(ux) : j < i} = P
      BY <1>1, <2>2
    <3>2. LastOf(ux, P, before) = LastOf(tx, P, before)
      BY <1>4
    <3>3. LastOf(tx, P, before) = 0 \/ tx[i].seq = next_outbound(LastOf(tx, P, before))
      BY Zenon, <1>5, <3>1 DEF InSequence
    <3> HIDE DEF P
    <3>4. QED BY Zenon, <3>1, <3>2, <3>3
  <2>3. QED BY <2>1, <2>2
<1>6. QED BY Zenon, <1>3, <1>5 DEF InSequence

-----------------------------------------------------------------------------
(* The store keeps a finite number of messages, each under a number.        *)

FiniteStore(st) == IsFiniteSet(Keys(st)) /\ Keys(st) \subseteq Nat

(* Besides m, the store u keeps nothing that st did not keep.               *)
OnlyFrom(st, m, u) ==
  \A q \in Keys(u) : u.msgs[q] = m \/ (q \in Keys(st) /\ u.msgs[q] = st.msgs[q])

(* store() adds at most one message and evicts at most one.                 *)
LEMMA Store_adds ==
  ASSUME NEW st, StoreOK(st), FiniteStore(st), NEW k \in Nat, NEW m
  PROVE  FiniteStore(store(st, k, m)) /\ OnlyFrom(st, m, store(st, k, m))
<1> DEFINE Fin(u) == "msgs" \in DOMAIN u /\ FiniteStore(u) /\ OnlyFrom(st, m, u)
           room == IF AtCapacity(st, m) THEN evict_oldest(st) ELSE st
<1>1. Fin(st)
  BY DEF StoreOK, StoreFields, OnlyFrom
<1>2. Fin(evict_oldest(st))
  <2>1. CASE st.min_seq \notin Keys(st)
    BY <1>1, <2>1 DEF evict_oldest
  <2>2. CASE st.min_seq \in Keys(st)
    <3> DEFINE e == evict_oldest(st)
    <3>1. /\ Keys(e) = Keys(st) \ {st.min_seq}
          /\ \A q \in Keys(st) \ {st.min_seq} : e.msgs[q] = st.msgs[q]
      BY <1>1, <2>2 DEF evict_oldest, Keys
    <3>2. IsFiniteSet(Keys(st) \ {st.min_seq})
      BY FS_RemoveElement DEF FiniteStore
    <3>3. DOMAIN e = DOMAIN st
      BY <2>2 DEF evict_oldest
    <3> HIDE DEF e
    <3>4. FiniteStore(e) /\ OnlyFrom(st, m, e)
      BY <1>1, <3>1, <3>2 DEF FiniteStore, OnlyFrom
    <3>5. QED BY <1>1, <3>3, <3>4 DEF e
  <2>3. QED BY <2>1, <2>2
<1>3. Fin(room)
  BY <1>1, <1>2
<1>4. ASSUME NEW u, Fin(u), NEW n PROVE Fin([u EXCEPT !.pool_used = n])
  BY <1>4 DEF FiniteStore, Keys, OnlyFrom
<1>5. ASSUME NEW u, Fin(u) PROVE Fin(Insert(u, k, m))
  <2> DEFINE v == Insert(u, k, m)
  <2>1. IsFiniteSet(Keys(u) \cup {k}) /\ Keys(u) \cup {k} \subseteq Nat
    BY <1>5, FS_AddElement DEF FiniteStore
  <2>2. /\ Keys(v) = Keys(u) \cup {k} /\ DOMAIN v = DOMAIN u
        /\ \A q \in Keys(u) \cup {k} : v.msgs[q] = IF q = k THEN m ELSE u.msgs[q]
    BY <1>5 DEF Insert, Keys
  <2> HIDE DEF v
  <2>3. FiniteStore(v) /\ OnlyFrom(st, m, v)
    BY <1>5, <2>1, <2>2 DEF FiniteStore, OnlyFrom
  <2>4. QED BY <1>5, <2>2, <2>3 DEF v
<1> HIDE DEF Fin, room
<1>6. Fin(store(st, k, m))
  BY <1>1, <1>3, <1>4, <1>5 DEF store, room
<1>7. QED BY <1>6 DEF Fin

(* A message that was sent advances the counter by one, and nothing else is *)
(* added to the store.                                                      *)
LEMMA SendNew_counter ==
  ASSUME NEW t, SessionOK(t), FiniteStore(t.st), NEW type, NEW x, NEW y
  PROVE  LET r == SendNew(t, type, x, y) IN
         /\ FiniteStore(r.st)
         /\ OnlyFrom(t.st, Message(type, t.outb, x, y), r.st)
         /\ Sends(t) => r.outb = next_outbound(t.outb)
<1> DEFINE m == Message(type, t.outb, x, y)
           n == [t EXCEPT !.outb = next_outbound(@)]
           u == transmit(n, m)
           kept == store(u.st, rollback_outbound(u.outb), m)
           v == [u EXCEPT !.st = set_next_sender_seq_num(kept, u.outb)]
           w == [u EXCEPT !.outb = rollback_outbound(@)]
<1>1. /\ n.outb = next_outbound(t.outb) /\ n.st = t.st /\ n.calls = t.calls
      /\ n.fails = t.fails /\ DOMAIN n = SessionFields
  BY DEF SessionOK, SessionFields
<1> HIDE DEF n, m
<1>2. u.outb = n.outb /\ u.st = n.st /\ DOMAIN u = SessionFields
  BY <1>1 DEF transmit, message_sent, SessionFields
<1>3. Sends(n) <=> Sends(t)
  BY <1>1 DEF Sends
<1> HIDE DEF u
<1>4. /\ FiniteStore(u.st) /\ FiniteStore(kept) /\ OnlyFrom(u.st, m, kept)
      /\ "msgs" \in DOMAIN kept
  <2>1. StoreOK(u.st) /\ FiniteStore(u.st)
    BY <1>1, <1>2 DEF SessionOK
  <2>0. rollback_outbound(u.outb) \in Nat
    <3>1. t.outb \in SeqNums
      BY DEF SessionOK
    <3>2. rollback_outbound(u.outb) = t.outb
      BY <1>1, <1>2, <3>1, Counters
    <3>3. QED BY <3>1, <3>2, SeqNumAssumption DEF SeqNums, INITIAL_SEQ_NUM
  <2>2. FiniteStore(kept) /\ OnlyFrom(u.st, m, kept)
    BY <2>0, <2>1, Store_adds
  <2>3. "msgs" \in DOMAIN u.st
    BY <2>1 DEF StoreOK, StoreFields
  <2>4. DOMAIN evict_oldest(u.st) = DOMAIN u.st
    BY DEF evict_oldest
  <2>5. DOMAIN kept = DOMAIN u.st
    BY <2>4 DEF store, Insert
  <2>6. QED BY <2>1, <2>2, <2>3, <2>5
<1> HIDE DEF kept
<1>5. FiniteStore(v.st) /\ OnlyFrom(u.st, m, v.st) /\ v.outb = u.outb
  <2> DEFINE after == set_next_sender_seq_num(kept, u.outb)
  <2>1. after.msgs = kept.msgs
    BY <1>4 DEF set_next_sender_seq_num
  <2>2. v.st = after /\ v.outb = u.outb
    BY <1>2 DEF SessionFields
  <2> HIDE DEF after
  <2>3. QED BY <1>4, <2>1, <2>2 DEF FiniteStore, OnlyFrom, Keys
<1>6. w.st = u.st
  BY <1>2 DEF SessionFields
<1>7. SendNew(t, type, x, y) = IF Sends(n) THEN IF u.cfg.store THEN v ELSE u ELSE w
  BY DEF SendNew, send_message, Persist, n, m, u, kept
<1>8. OnlyFrom(u.st, m, u.st)
  BY DEF OnlyFrom
<1> HIDE DEF v, w
<1>9. QED BY <1>1, <1>2, <1>3, <1>4, <1>5, <1>6, <1>7, <1>8 DEF m

-----------------------------------------------------------------------------
(* Along a call.                                                            *)

(* The counters follow the number l of the last new message; 0: none.       *)
Follows(t, l) ==
  /\ l \in SeqNums \cup {0}
  /\ l # 0 => /\ t.outb = next_outbound(l)
              /\ t.cfg.store => t.st.next_sender_seq = next_outbound(l)

(* m went out as a new message: in an earlier call, or in this one.         *)
Sent(tx, m) ==
  \/ m \in log
  \/ \E i \in NewAt(tx) : tx[i] = m

(* r is what mark_poss_dup() makes of m.                                    *)
Repeats(r, m) == mark_poss_dup(m) # <<>> /\ r = mark_poss_dup(m)[1]

(* What is stored went out as a new message, and what is replayed is such a *)
(* message marked as a possible duplicate.                                  *)
Traced(st, tx) ==
  /\ \A q \in Keys(st) : Sent(tx, st.msgs[q])
  /\ \A i \in 1 .. Len(tx) :
       tx[i].dup => \E m : Sent(tx, m) /\ Repeats(tx[i], m)

(* What was sent since start is in sequence, the counters follow it, and    *)
(* it is traced.                                                            *)
Line(start, t) ==
  /\ SessionOK(t) /\ FiniteStore(t.st)
  /\ \E M : t.tx \in Seq(M)
  /\ InSequence(t.tx, start)
  /\ Follows(t, LastOf(t.tx, NewAt(t.tx), start))
  /\ Traced(t.st, t.tx)

(* What was sent stays sent.                                                *)
LEMMA Sent_stays ==
  ASSUME NEW tx, Len(tx) \in Nat, NEW ux, Len(ux) \in Nat, Len(ux) >= Len(tx),
         \A i \in 1 .. Len(tx) : ux[i] = tx[i], NEW m, Sent(tx, m)
  PROVE  Sent(ux, m)
<1>1. ASSUME NEW i \in NewAt(tx) PROVE i \in NewAt(ux) /\ ux[i] = tx[i]
  BY DEF NewAt
<1>2. QED BY <1>1 DEF Sent

(* A new message, and what a store keeps after it.                          *)
LEMMA Traced_new ==
  ASSUME NEW st, NEW tx, Traced(st, tx), Len(tx) \in Nat,
         NEW ux, Len(ux) = Len(tx) + 1, \A i \in 1 .. Len(tx) : ux[i] = tx[i],
         IsNew(ux[Len(ux)]), NEW u, OnlyFrom(st, ux[Len(ux)], u)
  PROVE  Traced(u, ux)
<1> DEFINE n == Len(ux)
<1>1. n \in NewAt(ux) /\ ~ux[n].dup
  BY DEF NewAt, IsNew
<1>2. ASSUME NEW m, Sent(tx, m) PROVE Sent(ux, m)
  BY <1>2, Sent_stays
<1>3. Sent(ux, ux[n])
  BY <1>1 DEF Sent
<1>4. ASSUME NEW q \in Keys(u) PROVE Sent(ux, u.msgs[q])
  BY <1>2, <1>3 DEF OnlyFrom, Traced
<1>5. ASSUME NEW i \in 1 .. n, ux[i].dup
      PROVE  \E m : Sent(ux, m) /\ Repeats(ux[i], m)
  <2>1. i \in 1 .. Len(tx)
    BY <1>1, <1>5
  <2>2. QED BY <1>2, <1>5, <2>1 DEF Traced
<1>6. QED BY <1>4, <1>5 DEF Traced

(* Gap fills, and replays of what is traced.                                *)
LEMMA Traced_again ==
  ASSUME NEW st, NEW tx, Traced(st, tx), Len(tx) \in Nat,
         NEW ux, Len(ux) \in Nat, Len(ux) >= Len(tx), \A i \in 1 .. Len(tx) : ux[i] = tx[i],
         \A i \in (Len(tx) + 1) .. Len(ux) :
            ux[i].dup => \E m : Sent(tx, m) /\ Repeats(ux[i], m)
  PROVE  Traced(st, ux)
<1>1. ASSUME NEW m, Sent(tx, m) PROVE Sent(ux, m)
  BY <1>1, Sent_stays
<1>2. ASSUME NEW i \in 1 .. Len(ux), ux[i].dup
      PROVE  \E m : Sent(tx, m) /\ Repeats(ux[i], m)
  <2>1. i \in 1 .. Len(tx) \/ i \in (Len(tx) + 1) .. Len(ux)
    OBVIOUS
  <2>2. QED BY <1>2, <2>1 DEF Traced
<1>3. QED BY <1>1, <1>2 DEF Traced

(* What touches neither counter, store nor messages.                        *)
LEMMA Line_same ==
  ASSUME NEW start, NEW t, Line(start, t), NEW r, SessionOK(r),
         r.cfg = t.cfg, r.outb = t.outb, r.st = t.st, r.tx = t.tx
  PROVE  Line(start, r)
BY DEF Line, Follows

(* A new message.                                                           *)
LEMMA Line_SendNew ==
  ASSUME NEW start, NEW t, Line(start, t), NEW type, type # "SequenceReset", NEW x, NEW y
  PROVE  Line(start, SendNew(t, type, x, y))
<1> DEFINE r == SendNew(t, type, x, y)
           m == Message(type, t.outb, x, y)
           ux == Append(t.tx, m)
           l == LastOf(t.tx, NewAt(t.tx), start)
<1>1. SessionOK(t) /\ FiniteStore(t.st) /\ InSequence(t.tx, start) /\ Follows(t, l)
  BY DEF Line
<1>2. /\ SessionOK(r) /\ r.cfg = t.cfg
      /\ Sends(t) /\ t.cfg.store => r.st.next_sender_seq = r.outb
      /\ ~Sends(t) => r.outb = t.outb /\ r.st = t.st
  BY <1>1, Session_SendNew
<1>3. (Sends(t) => r.tx = ux) /\ (~Sends(t) => r.tx = t.tx)
  BY <1>1, Session_SendNew
<1>4. /\ FiniteStore(r.st) /\ (Sends(t) => r.outb = next_outbound(t.outb))
      /\ OnlyFrom(t.st, m, r.st)
  BY <1>1, SendNew_counter
<1>5. m.seq = t.outb /\ IsNew(m) /\ t.outb \in SeqNums
  BY <1>1 DEF Message, IsNew, SessionOK
<1> HIDE DEF r, m
<1>6. CASE ~Sends(t)
  <2>1. r.tx = t.tx /\ r.outb = t.outb /\ r.st = t.st
    BY <1>2, <1>3, <1>6
  <2>2. Line(start, r)
    BY <1>2, <2>1, Line_same
  <2>3. QED BY <2>2 DEF r
<1>7. CASE Sends(t)
  <2>1. PICK M : t.tx \in Seq(M)
    BY DEF Line
  <2>2. ux \in Seq(M \cup {m})
    <3>1. t.tx \in Seq(M \cup {m})
      BY <2>1
    <3>2. QED BY <3>1
  <2>3. /\ Len(t.tx) \in Nat /\ Len(ux) = Len(t.tx) + 1 /\ ux[Len(ux)] = m
        /\ \A i \in 1 .. Len(t.tx) : ux[i] = t.tx[i]
    BY <2>1
  <2> HIDE DEF ux
  <2>4. l = 0 \/ m.seq = next_outbound(l)
    BY <1>1, <1>5 DEF Follows
  <2>5. LastOf(ux, NewAt(ux), start) = m.seq /\ InSequence(ux, start)
    <3> DEFINE tx == t.tx
    <3>1. /\ Len(tx) \in Nat /\ Len(ux) = Len(tx) + 1 /\ IsNew(ux[Len(ux)])
          /\ \A i \in 1 .. Len(tx) : ux[i] = tx[i]
      BY <1>5, <2>3
    <3>2. /\ InSequence(tx, start)
          /\ LastOf(tx, NewAt(tx), start) = 0
             \/ ux[Len(ux)].seq = next_outbound(LastOf(tx, NewAt(tx), start))
      BY <1>1, <2>3, <2>4
    <3> HIDE DEF tx
    <3>3. LastOf(ux, NewAt(ux), start) = ux[Len(ux)].seq /\ InSequence(ux, start)
      BY <3>1, <3>2, OneNew
    <3>4. QED BY <2>3, <3>3
  <2>6. Follows(r, m.seq)
    BY <1>2, <1>4, <1>5, <1>7 DEF Follows
  <2>7. Traced(r.st, ux)
    <3> DEFINE tx == t.tx
    <3>1. Traced(t.st, tx)
      BY DEF Line
    <3>2. /\ Len(tx) \in Nat /\ Len(ux) = Len(tx) + 1 /\ IsNew(ux[Len(ux)])
          /\ \A i \in 1 .. Len(tx) : ux[i] = tx[i]
      BY <1>5, <2>3
    <3>3. OnlyFrom(t.st, ux[Len(ux)], r.st)
      BY <1>4, <2>3
    <3> HIDE DEF tx
    <3>4. QED BY <3>1, <3>2, <3>3, Traced_new
  <2>8. Line(start, r)
    BY <1>2, <1>3, <1>4, <1>7, <2>2, <2>5, <2>6, <2>7 DEF Line
  <2>9. QED BY <2>8 DEF r
<1>8. QED BY <1>6, <1>7

(* Messages that are not new.                                               *)
LEMMA Line_again ==
  ASSUME NEW start, NEW t, Line(start, t), NEW M, NEW w \in Seq(M),
         \A i \in 1 .. Len(w) : ~IsNew(w[i]),
         \A i \in 1 .. Len(w) : w[i].dup => \E m : Sent(t.tx, m) /\ Repeats(w[i], m),
         NEW r, SessionOK(r), r.cfg = t.cfg, r.outb = t.outb, r.st = t.st, r.tx = t.tx \o w
  PROVE  Line(start, r)
<1> DEFINE tx == t.tx
           ux == tx \o w
<1>1. PICK N : tx \in Seq(N)
  BY DEF Line
<1>2. ux \in Seq(M \cup N)
  <2>1. tx \in Seq(M \cup N) /\ w \in Seq(M \cup N)
    BY <1>1
  <2>2. QED BY <2>1
<1>3. /\ Len(tx) \in Nat /\ Len(w) \in Nat /\ Len(ux) = Len(tx) + Len(w)
      /\ \A i \in 1 .. Len(tx) : ux[i] = tx[i]
  BY <1>1
<1>4. ASSUME NEW i \in (Len(tx) + 1) .. Len(ux)
      PROVE  /\ ~IsNew(ux[i])
             /\ ux[i].dup => \E m : Sent(tx, m) /\ Repeats(ux[i], m)
  <2>1. i - Len(tx) \in 1 .. Len(w) /\ ux[i] = w[i - Len(tx)]
    BY <1>1, <1>3
  <2>2. QED BY Zenon, <2>1
<1> HIDE DEF ux
<1>5. /\ LastOf(ux, NewAt(ux), start) = LastOf(tx, NewAt(tx), start)
      /\ InSequence(ux, start)
  <2>1. Len(ux) \in Nat /\ Len(ux) >= Len(tx) /\ InSequence(tx, start)
    BY <1>3 DEF Line
  <2> HIDE DEF tx
  <2>2. QED BY Zenon, <1>3, <1>4, <2>1, NotNew
<1>6. Traced(t.st, ux)
  <2>1. Len(ux) \in Nat /\ Len(ux) >= Len(tx) /\ Traced(t.st, tx)
    BY <1>3 DEF Line
  <2> HIDE DEF tx
  <2>2. QED BY Zenon, <1>3, <1>4, <2>1, Traced_again
<1>7. r.tx = ux
  BY DEF ux
<1>8. QED BY <1>2, <1>5, <1>6, <1>7 DEF Line, Follows

(* What a repeated message has in common with the first one.                *)
LEMMA Repeated ==
  ASSUME NEW m, NEW r, Repeats(r, m)
  PROVE  /\ r.dup /\ r.orig /\ r.seq = m.seq /\ r.x = m.x /\ r.y = m.y
         /\ r.type = CharOf(m) /\ (Fits(m) => ~r.cut)
<1> DEFINE c == [type |-> CharOf(m), seq |-> m.seq, dup |-> TRUE, orig |-> TRUE,
                 comp |-> TRUE, time |-> TRUE, cut |-> ~Fits(m), x |-> m.x, y |-> m.y]
<1>1. mark_poss_dup(m) = <<c>>
  BY Zenon DEF Repeats, mark_poss_dup
<1>2. <<c>>[1] = c
  OBVIOUS
<1>3. r = c
  BY Zenon, <1>1, <1>2 DEF Repeats
<1>4. QED BY Zenon, <1>3

(* The elements of a part of an interval, one after the other.              *)
LEMMA Places ==
  ASSUME NEW n \in Nat, NEW S \in SUBSET (1 .. n)
  PROVE  /\ Cardinality(S) \in Nat
         /\ \A j \in 1 .. Cardinality(S) : Nth(S, j) \in S
<1>1. IsFiniteSet(1 .. n)
  BY FS_Interval
<1>2. IsFiniteSet(S)
  BY Zenon, <1>1, FS_Subset
<1>3. S \subseteq Nat
  OBVIOUS
<1>4. QED BY Zenon, <1>2, <1>3, FS_CardinalityType, Nth_in

(* A replay carries PossDupFlag and takes no number.                        *)
LEMMA Line_Replay ==
  ASSUME NEW start, NEW t, Line(start, t), NEW kept, Len(kept) \in Nat,
         \A i \in 1 .. Len(kept) : Sent(t.tx, kept[i])
  PROVE  Line(start, Replay(t, kept))
<1> DEFINE marked == {i \in 1 .. Len(kept) : mark_poss_dup(kept[i]) # <<>>}
           sent == {i \in 1 .. Cardinality(marked) : (t.calls + i) \notin t.fails}
           at(j) == Nth(marked, Nth(sent, j))
           w == [j \in 1 .. Cardinality(sent) |-> mark_poss_dup(kept[at(j)])[1]]
           r == Replay(t, kept)
           u == message_sent([t EXCEPT !.calls = @ + Cardinality(marked), !.tx = @ \o w])
<1>1. /\ Cardinality(marked) \in Nat
      /\ \A j \in 1 .. Cardinality(marked) : Nth(marked, j) \in marked
  BY Zenon, Places
<1>2. /\ Cardinality(sent) \in Nat
      /\ \A j \in 1 .. Cardinality(sent) : Nth(sent, j) \in 1 .. Cardinality(marked)
  <2> DEFINE k == Cardinality(marked)
  <2>1. k \in Nat
    BY <1>1
  <2> HIDE DEF k
  <2>2. /\ Cardinality({i \in 1 .. k : (t.calls + i) \notin t.fails}) \in Nat
        /\ \A j \in 1 .. Cardinality({i \in 1 .. k : (t.calls + i) \notin t.fails}) :
             Nth({i \in 1 .. k : (t.calls + i) \notin t.fails}, j)
               \in {i \in 1 .. k : (t.calls + i) \notin t.fails}
    BY Zenon, <2>1, Places
  <2>3. QED BY Zenon, <2>2 DEF k
<1>3. r \in {t, u}
  BY DEF Replay
<1> HIDE DEF r, sent
<1>4. ASSUME NEW j \in 1 .. Cardinality(sent)
      PROVE  Sent(t.tx, kept[at(j)]) /\ mark_poss_dup(kept[at(j)]) # <<>>
  <2>1. at(j) \in marked
    BY <1>1, <1>2
  <2> HIDE DEF at
  <2>2. QED BY <2>1
<1> HIDE DEF at, marked
<1>5. ASSUME NEW j \in 1 .. Cardinality(sent)
      PROVE  Sent(t.tx, kept[at(j)]) /\ Repeats(w[j], kept[at(j)]) /\ ~IsNew(w[j])
  <2>1. w[j] = mark_poss_dup(kept[at(j)])[1]
    OBVIOUS
  <2> HIDE DEF w
  <2>2. Repeats(w[j], kept[at(j)])
    BY <1>4, <2>1 DEF Repeats
  <2>3. QED BY <1>4, <2>2, Repeated DEF IsNew
<1>6. w \in Seq({w[j] : j \in 1 .. Cardinality(sent)}) /\ Len(w) = Cardinality(sent)
  BY <1>2
<1> HIDE DEF w
<1>7. /\ SessionOK(u) /\ u.cfg = t.cfg /\ u.outb = t.outb /\ u.st = t.st
      /\ u.tx = t.tx \o w
  BY Zenon DEF Line, message_sent, SessionOK, SessionFields
<1> HIDE DEF u
<1>8. Line(start, u)
  BY Zenon, <1>5, <1>6, <1>7, Line_again
<1>9. QED BY <1>3, <1>8 DEF r

(* The gap fill that answers a ResendRequest takes no number.               *)
LEMMA Line_GapFill ==
  ASSUME NEW start, NEW t, Line(start, t), NEW begin
  PROVE  Line(start, GapFill(t, begin))
<1> DEFINE m == Message("SequenceReset", begin, t.outb, 1)
           r == GapFill(t, begin)
<1>1. ~IsNew(m) /\ ~m.dup
  BY DEF IsNew, Message
<1>2. /\ SessionOK(r) /\ r.cfg = t.cfg /\ r.outb = t.outb /\ r.st = t.st
      /\ r.tx \in {t.tx, Append(t.tx, m)}
  BY Zenon DEF Line, GapFill, transmit, message_sent, SessionOK, SessionFields
<1> HIDE DEF r, m
<1>3. PICK M : t.tx \in Seq(M)
  BY DEF Line
<1>4. /\ Append(t.tx, m) = t.tx \o <<m>> /\ <<m>> \in Seq({m})
      /\ \A i \in 1 .. Len(<<m>>) : ~IsNew(<<m>>[i]) /\ ~<<m>>[i].dup
  BY <1>1, <1>3
<1>5. CASE r.tx = t.tx
  BY <1>2, <1>5, Line_same DEF r
<1>6. CASE r.tx = Append(t.tx, m)
  BY Zenon, <1>2, <1>4, <1>6, Line_again DEF r
<1>7. QED BY <1>2, <1>5, <1>6

(* The small steps the methods are made of.                                 *)
LEMMA Line_steps ==
  ASSUME NEW start, NEW t, Line(start, t), NEW x
  PROVE  /\ Line(start, transition(t, x)) /\ Line(start, Notify(t, x))
         /\ Line(start, reset_timer(t)) /\ Line(start, message_received(t))
         /\ Line(start, [t EXCEPT !.app = x])
         /\ Line(start, [t EXCEPT !.interval = x])
         /\ Line(start, [t EXCEPT !.pending = TRUE])
         /\ x \in Words => Line(start, [t EXCEPT !.inb = x])
<1>0. SessionOK(t)
  BY DEF Line
<1> DEFINE Same(r) == SessionOK(r) /\ r.cfg = t.cfg /\ r.outb = t.outb /\ r.st = t.st /\ r.tx = t.tx
<1>1. Same(transition(t, x))
  BY <1>0, Session_transition
<1>2. /\ Same(Notify(t, x)) /\ Same(reset_timer(t)) /\ Same(message_received(t))
      /\ Same([t EXCEPT !.interval = x]) /\ Same([t EXCEPT !.pending = TRUE])
  BY <1>0, Session_alike DEF Alike
<1>3. Same([t EXCEPT !.app = x])
  BY <1>0 DEF SessionOK, SessionFields
<1>4. x \in Words => Same([t EXCEPT !.inb = x])
  BY <1>0 DEF SessionOK, SessionFields
<1>5. ASSUME NEW r, Same(r) PROVE Line(start, r)
  BY <1>5, Line_same
<1> HIDE DEF Same
<1>6. QED BY <1>1, <1>2, <1>3, <1>4, <1>5

(* Every handler, with every early return and every failed send.            *)
LEMMA Line_handle_message ==
  ASSUME NEW start, NEW t, Line(start, t), NEW m, PeerOK(m)
  PROVE  Line(start, IF m.type \in AdminTypes THEN handle_admin_message(t, m)
                     ELSE handle_app_message(t, m))
<1> DEFINE Good(r) == Line(start, r)
<1>1. ASSUME NEW a, Good(a), NEW x
      PROVE  /\ Good(transition(a, x)) /\ Good(Notify(a, x)) /\ Good(reset_timer(a))
             /\ Good([a EXCEPT !.app = x]) /\ Good([a EXCEPT !.interval = x])
             /\ x \in Words => Good([a EXCEPT !.inb = x])
  BY Zenon, <1>1, Line_steps
<1>2. ASSUME NEW a, Good(a), NEW type \in {"Logon", "Logout", "Heartbeat", "Reject"}, NEW x, NEW y
      PROVE  Good(SendNew(a, type, x, y))
  BY <1>2, Line_SendNew
<1>3. ASSUME m.type = "Logon" PROVE Good(handle_logon(t, m))
  BY Zenon, <1>1, <1>2 DEF handle_logon
<1>4. Good(handle_logout(t))
  BY Zenon, <1>1, <1>2 DEF handle_logout
<1>5. Good(handle_resend_request(t, m))
  <2> DEFINE kept == IF t.cfg.store THEN retrieve_range(t.st, m.x, m.y) ELSE <<>>
  <2>1. /\ Len(kept) \in Nat
        /\ \A i \in 1 .. Len(kept) : Sent(t.tx, kept[i])
    <3> DEFINE upto == IF m.y = 0 THEN t.st.max_seq ELSE m.y
               found == {q \in Keys(t.st) : m.x <= q /\ q <= upto}
               range == [i \in 1 .. Cardinality(found) |-> t.st.msgs[Nth(found, i)]]
    <3>1. IsFiniteSet(found) /\ found \subseteq Nat /\ found \subseteq Keys(t.st)
      BY FS_Subset DEF Line, FiniteStore
    <3>2. retrieve_range(t.st, m.x, m.y) = range
      BY DEF retrieve_range
    <3> HIDE DEF found
    <3>3. /\ Cardinality(found) \in Nat
          /\ \A i \in 1 .. Cardinality(found) : Nth(found, i) \in Keys(t.st)
      BY Zenon, <3>1, FS_CardinalityType, Nth_in
    <3>4. Len(range) = Cardinality(found)
      BY <3>3
    <3>5. \A i \in 1 .. Cardinality(found) : Sent(t.tx, range[i])
      BY <3>3 DEF Line, Traced
    <3> HIDE DEF range
    <3>6. QED BY <3>2, <3>3, <3>4, <3>5
  <2>2. handle_resend_request(t, m) \in {t, Replay(t, kept), GapFill(t, m.x)}
    BY DEF handle_resend_request
  <2> HIDE DEF kept
  <2>3. QED BY <2>1, <2>2, Line_Replay, Line_GapFill
<1>6. ASSUME m.type = "SequenceReset" PROVE Good(handle_sequence_reset(t, m))
  BY Zenon, <1>1, <1>2, <1>6 DEF handle_sequence_reset, send_reject, PeerOK
<1>7. /\ Good(handle_test_request(t)) /\ Good(handle_app_message(t, m))
      /\ Good(Notify(t, "error")) /\ Good(t)
  BY Zenon, <1>1, <1>2 DEF handle_test_request, handle_app_message
<1> HIDE DEF Good
<1>8. Good(IF m.type \in AdminTypes THEN handle_admin_message(t, m) ELSE handle_app_message(t, m))
  BY <1>3, <1>4, <1>5, <1>6, <1>7 DEF handle_admin_message, AdminTypes, PeerOK, MsgTypes
<1>9. QED BY <1>8 DEF Good

(* on_data_received(), with each of its early returns, stays on the line.   *)
LEMMA Line_on_data_received ==
  ASSUME NEW start, NEW t, Line(start, t), NEW m, PeerOK(m)
  PROVE  Line(start, on_data_received(t, m)) /\ Line(start, on_bad_data_received(t))
<1> DEFINE Good(r) == Line(start, r)
           a == message_received(t)
           expected == validate_inbound(a.inb, m.seq)
           next == [a EXCEPT !.inb = expected,
                             !.st = IF a.cfg.store
                                    THEN set_next_target_seq_num(@, expected) ELSE @]
           h(b) == IF m.type \in AdminTypes THEN handle_admin_message(b, m)
                   ELSE handle_app_message(b, m)
<1>1. Good(a)
  BY Zenon, Line_steps
<1> HIDE DEF a
<1>2. SessionOK(a) /\ StoreOK(a.st) /\ FiniteStore(a.st)
  BY <1>1 DEF Line, SessionOK
<1>3. expected \in Words
  BY <1>2, Inbound DEF SessionOK, PeerOK
<1> HIDE DEF expected
<1>4. Good(next)
  <2> DEFINE st2 == IF a.cfg.store THEN set_next_target_seq_num(a.st, expected) ELSE a.st
  <2>1. /\ StoreOK(st2) /\ st2.next_sender_seq = a.st.next_sender_seq
        /\ Keys(st2) = Keys(a.st) /\ st2.msgs = a.st.msgs
    BY <1>2, <1>3 DEF StoreOK, StoreFields, set_next_target_seq_num, Keys
  <2>2. next = [a EXCEPT !.inb = expected, !.st = st2]
    OBVIOUS
  <2> HIDE DEF st2
  <2>3. /\ SessionOK(next) /\ next.cfg = a.cfg /\ next.outb = a.outb /\ next.tx = a.tx
        /\ next.st = st2
    BY Zenon, <1>2, <1>3, <2>1, <2>2 DEF SessionOK, SessionFields
  <2> HIDE DEF next
  <2>4. QED BY Zenon, <1>1, <2>1, <2>3 DEF Line, Follows, FiniteStore, Traced
<1>5. Good(handle_sequence_gap(a, m.seq))
  BY <1>1, Line_SendNew DEF handle_sequence_gap
<1>6. \/ ProcessMessage(a, m) = handle_sequence_error(a)
      \/ \E b \in {a, handle_sequence_gap(a, m.seq), next} : ProcessMessage(a, m) = h(b)
  BY DEF ProcessMessage, SequenceResult, expected
<1>7. Good(handle_sequence_error(a)) /\ Good(handle_parse_error(a))
  BY Zenon, <1>1, Line_steps DEF handle_sequence_error, handle_parse_error
<1>8. Good(ProcessMessage(a, m))
  <2>1. ASSUME NEW b, Good(b) PROVE Good(h(b))
    BY <2>1, Line_handle_message
  <2> HIDE DEF h, next, Good
  <2>2. QED BY <1>1, <1>4, <1>5, <1>6, <1>7, <2>1
<1>9. ASSUME NEW reason
      PROVE  /\ Good(send_reject(a, m.seq, reason))
             /\ Good(send_logout_and_disconnect(send_reject(a, m.seq, reason)))
  <2>1. Good(send_reject(a, m.seq, reason))
    BY <1>1, Line_SendNew DEF send_reject
  <2>2. Good(SendNew(send_reject(a, m.seq, reason), "Logout", Absent, Absent))
    BY <2>1, Line_SendNew
  <2>3. QED BY Zenon, <2>1, <2>2, Line_steps DEF send_logout_and_disconnect
<1> HIDE DEF Good
<1>10. Good(on_data_received(t, m)) /\ Good(on_bad_data_received(t))
  BY <1>7, <1>8, <1>9 DEF on_data_received, on_bad_data_received, a
<1>11. QED BY <1>10 DEF Good

(* The calls of the engine and of the application.                          *)
LEMMA Line_calls ==
  ASSUME NEW start, NEW t, Line(start, t), NEW body
  PROVE  /\ Line(start, on_timer_tick(t)) /\ Line(start, send_app_message(t, body))
         /\ Line(start, initiate_logout(t))
<1>1. ASSUME NEW type \in {"TestRequest", "Heartbeat", "App", "Logout"}, NEW x
      PROVE  Line(start, SendNew(t, type, x, Absent))
  BY Line_SendNew
<1>2. Line(start, send_test_request(t))
  BY Zenon, <1>1, Line_steps DEF send_test_request
<1>3. Line(start, on_timer_tick(t))
  BY Zenon, <1>1, <1>2, Line_steps DEF on_timer_tick, send_heartbeat
<1>4. QED BY Zenon, <1>1, <1>3, Line_steps DEF send_app_message, initiate_logout

-----------------------------------------------------------------------------
(* From call to call.                                                       *)

(* A new initiator that has not yet taken its numbers from the store.       *)
Unnumbered ==
  /\ ~connected /\ s.cfg.role = "initiator" /\ s.cfg.store
  /\ s.outb = INITIAL_SEQ_NUM

(* What is stored went out.                                                 *)
Logged(st) == \A q \in Keys(st) : st.msgs[q] \in log

(* The inductive invariant: what the last number tells of the counters, and *)
(* the log of the messages in the store.                                    *)
NInv ==
  /\ IInv /\ FiniteStore(s.st)
  /\ inOrder
  /\ ReplaysAreFaithful /\ Logged(s.st)
  /\ last \in SeqNums \cup {0}
  /\ last # 0 => /\ s.cfg.store => s.st.next_sender_seq = next_outbound(last)
                 /\ s.outb = next_outbound(last) \/ Unnumbered

(* After a call whose messages are traced, the store is logged and what was *)
(* replayed is a copy of what the log holds.                                *)
LEMMA Logged_after ==
  ASSUME NEW start, NEW r, SessionOK(r), Traced(r.st, r.tx), Observe(r, start)
  PROVE  ReplaysAreFaithful' /\ Logged(s.st)'
<1>1. /\ again' = {r.tx[i] : i \in {j \in 1 .. Len(r.tx) : r.tx[j].dup}}
      /\ log' = {m \in log \cup {r.tx[i] : i \in NewAt(r.tx)} :
                  \/ \E q \in Keys(r.st) : r.st.msgs[q] = m
                  \/ \E c \in again' : c.seq = m.seq}
  BY DEF Observe
<1>2. s'.st = r.st
  BY Session_Return DEF Observe
<1>3. ASSUME NEW q \in Keys(r.st) PROVE r.st.msgs[q] \in log'
  BY <1>1 DEF Traced, Sent
<1>4. ASSUME NEW c \in again'
      PROVE  \E m \in log' : /\ c.seq = m.seq /\ c.x = m.x /\ c.y = m.y /\ c.orig
                             /\ CharOf(m) = m.type => c.type = m.type
                             /\ Fits(m) => ~c.cut
  <2>1. PICK m : Sent(r.tx, m) /\ Repeats(c, m)
    BY <1>1 DEF Traced
  <2>2. m \in log'
    BY <1>1, <2>1, Repeated DEF Sent
  <2>3. QED BY <2>1, <2>2, Repeated
<1>5. QED BY <1>2, <1>3, <1>4 DEF Logged, Keys, ReplaysAreFaithful

(* A call that ends on the line it started on.                              *)
LEMMA NInv_after ==
  ASSUME NInv, IInv', NEW start, NEW r, Line(start, r), Observe(r, start)
  PROVE  NInv'
<1> DEFINE l == LastOf(r.tx, NewAt(r.tx), start)
<1>1. s' = Return(r) /\ last' = l /\ inOrder' = (inOrder /\ InSequence(r.tx, start))
  BY DEF Observe
<1>2. SessionOK(r) /\ FiniteStore(r.st) /\ InSequence(r.tx, start) /\ Follows(r, l)
  BY DEF Line
<1>3. s'.cfg = r.cfg /\ s'.outb = r.outb /\ s'.st = r.st
  BY <1>1, <1>2, Session_Return
<1> HIDE DEF l
<1>4. inOrder'
  BY Zenon, <1>1, <1>2 DEF NInv
<1>5. ReplaysAreFaithful' /\ Logged(s.st)'
  BY <1>2, Logged_after DEF Line
<1>6. QED BY <1>1, <1>2, <1>3, <1>4, <1>5 DEF NInv, Follows

(* At the start of a call the log traces the store.                         *)
LEMMA Logged_traced ==
  ASSUME NEW st, Logged(st)
  PROVE  Traced(st, <<>>)
<1>1. \A q \in Keys(st) : Sent(<<>>, st.msgs[q])
  BY DEF Logged, Sent
<1>2. QED BY <1>1 DEF Traced

(* Nothing has been sent yet.                                               *)
LEMMA Line_start ==
  ASSUME NEW start, NEW t, SessionOK(t), FiniteStore(t.st), t.tx = <<>>, Follows(t, start),
         Logged(t.st)
  PROVE  Line(start, t)
<1>1. NewAt(<<>>) = {}
  BY DEF NewAt
<1>2. <<>> \in Seq({})
  OBVIOUS
<1>3. LastOf(<<>>, {}, start) = start /\ InSequence(<<>>, start)
  BY <1>1 DEF LastOf, InSequence
<1>4. Traced(t.st, <<>>)
  BY Logged_traced
<1>5. QED BY Zenon, <1>1, <1>2, <1>3, <1>4 DEF Line

(* A call on an open connection starts on the line.                         *)
LEMMA NInv_before ==
  ASSUME NInv, connected, NEW t, Alike(s, t)
  PROVE  Line(last, t)
<1>1. SessionOK(t) /\ FiniteStore(t.st) /\ t.tx = <<>> /\ Follows(t, last) /\ Logged(t.st)
  BY DEF NInv, IInv, Alike, Follows, Unnumbered
<1>2. QED BY <1>1, Line_start

(* Nothing has been sent and nothing is stored.                             *)
THEOREM NInv_Init == Init => NInv
<1> SUFFICES ASSUME Init PROVE NInv
  OBVIOUS
<1>1. PICK c \in Configs : s = NewSession(c, NewStore)
  BY DEF Init
<1>2. Keys(s.st) = {}
  BY <1>1 DEF NewSession, NewStore, Keys
<1>3. FiniteStore(s.st) /\ Logged(s.st)
  BY <1>2, FS_EmptySet DEF FiniteStore, Logged
<1>4. ReplaysAreFaithful
  BY DEF Init, ReplaysAreFaithful
<1>5. QED BY <1>3, <1>4, IInv_Init DEF NInv, Init

(* The numbers a Logon starts from continue the line, or begin a new one.   *)
LEMMA NInv_Connect ==
  ASSUME NInv, IInv', Connect
  PROVE  NInv'
<1> DEFINE start == IF s.cfg.reset_seq_num_on_logon THEN 0 ELSE last
<1>1. PICK fails \in FailSets : Observe(initiate_logon(Call(on_connect(s), fails)), start)
  BY DEF Connect
<1> DEFINE a == on_connect(s)
           b == Call(a, fails)
           n == LogonNumbers(b)
           r == initiate_logon(b)
<1>0. SessionOK(s) /\ FiniteStore(s.st) /\ s.tx = <<>> /\ Logged(s.st)
  BY DEF NInv, IInv
<1>2. /\ SessionOK(a) /\ a.cfg = s.cfg /\ a.outb = s.outb /\ a.st = s.st /\ a.tx = <<>>
      /\ a.state = "SocketConnected"
  <2>1. s.state \in {"Disconnected", "Reconnecting", "Error"}
    BY DEF Connect, NInv, IInv
  <2>2. QED BY <1>0, <2>1, Session_transition DEF on_connect, next_state
<1> HIDE DEF a
<1>3. /\ SessionOK(b) /\ b.cfg = s.cfg /\ b.outb = s.outb /\ b.st = s.st /\ b.tx = <<>>
      /\ b.state = "SocketConnected"
  <2>1. Alike(a, b)
    BY Zenon, <1>2, Session_alike
  <2>2. QED BY <1>2, <2>1 DEF Alike
<1>4. Observe(r, start)
  BY <1>1 DEF a
<1> HIDE DEF b
<1>5. /\ SessionOK(n) /\ n.cfg = b.cfg /\ n.st = b.st /\ n.tx = b.tx
      /\ s.cfg.reset_seq_num_on_logon => n.outb = INITIAL_SEQ_NUM
      /\ ~s.cfg.reset_seq_num_on_logon /\ s.cfg.store =>
           n.outb = IF b.st.next_sender_seq > INITIAL_SEQ_NUM
                    THEN b.st.next_sender_seq ELSE b.outb
      /\ ~s.cfg.reset_seq_num_on_logon /\ ~s.cfg.store => n.outb = b.outb
  <2> DEFINE o == IF b.st.next_sender_seq > INITIAL_SEQ_NUM THEN b.st.next_sender_seq ELSE b.outb
             i == IF b.st.next_target_seq > INITIAL_SEQ_NUM THEN b.st.next_target_seq ELSE b.inb
  <2>1. /\ INITIAL_SEQ_NUM \in SeqNums /\ INITIAL_SEQ_NUM \in Words
        /\ o \in SeqNums /\ i \in Words
    <3>1. INITIAL_SEQ_NUM \in SeqNums /\ INITIAL_SEQ_NUM \in Words
      BY SeqNumAssumption DEF SeqNums, Words, UINT32_MAX, INITIAL_SEQ_NUM
    <3>2. /\ b.outb \in SeqNums /\ b.inb \in Words
          /\ b.st.next_sender_seq \in SeqNums /\ b.st.next_target_seq \in Words
      BY <1>3 DEF SessionOK, StoreOK
    <3>3. QED BY <3>1, <3>2
  <2>2. n = IF b.cfg.reset_seq_num_on_logon
            THEN [b EXCEPT !.outb = INITIAL_SEQ_NUM, !.inb = INITIAL_SEQ_NUM]
            ELSE IF b.cfg.store THEN [b EXCEPT !.outb = o, !.inb = i] ELSE b
    BY DEF LogonNumbers
  <2> HIDE DEF n, o, i
  <2>3. ASSUME NEW p \in SeqNums, NEW q \in Words
        PROVE  LET u == [b EXCEPT !.outb = p, !.inb = q] IN
               SessionOK(u) /\ u.cfg = b.cfg /\ u.st = b.st /\ u.tx = b.tx /\ u.outb = p
    BY Zenon, <1>3, Session_renumber DEF SessionOK, SessionFields
  <2>4. CASE s.cfg.reset_seq_num_on_logon
    <3>1. n = [b EXCEPT !.outb = INITIAL_SEQ_NUM, !.inb = INITIAL_SEQ_NUM]
      BY <1>3, <2>2, <2>4
    <3>2. SessionOK(n) /\ n.cfg = b.cfg /\ n.st = b.st /\ n.tx = b.tx /\ n.outb = INITIAL_SEQ_NUM
      BY Zenon, <2>1, <2>3, <3>1
    <3>3. QED BY <2>4, <3>2
  <2>5. CASE ~s.cfg.reset_seq_num_on_logon /\ s.cfg.store
    <3>1. n = [b EXCEPT !.outb = o, !.inb = i]
      BY <1>3, <2>2, <2>5
    <3>2. SessionOK(n) /\ n.cfg = b.cfg /\ n.st = b.st /\ n.tx = b.tx /\ n.outb = o
      BY Zenon, <2>1, <2>3, <3>1
    <3>3. QED BY <2>5, <3>2 DEF o
  <2>6. CASE ~s.cfg.reset_seq_num_on_logon /\ ~s.cfg.store
    <3>1. n = b
      BY <1>3, <2>2, <2>6
    <3>2. QED BY <1>3, <2>6, <3>1
  <2>7. QED BY <2>4, <2>5, <2>6
<1> HIDE DEF n
<1>6. Follows(n, start)
  <2>1. CASE s.cfg.reset_seq_num_on_logon
    BY <2>1 DEF Follows
  <2>2. CASE ~s.cfg.reset_seq_num_on_logon /\ last = 0
    BY <2>2 DEF Follows
  <2>3. CASE ~s.cfg.reset_seq_num_on_logon /\ last # 0 /\ ~s.cfg.store
    BY <1>3, <1>5, <2>3 DEF NInv, Unnumbered, Follows
  <2>4. CASE ~s.cfg.reset_seq_num_on_logon /\ last # 0 /\ s.cfg.store
    <3>1. /\ s.st.next_sender_seq = next_outbound(last) /\ last \in SeqNums
          /\ s.outb = next_outbound(last) \/ s.outb = INITIAL_SEQ_NUM
      BY <2>4 DEF NInv, Unnumbered
    <3>2. next_outbound(last) \in SeqNums /\ INITIAL_SEQ_NUM = 1
      BY <3>1, Counters DEF INITIAL_SEQ_NUM
    <3>3. next_outbound(last) > INITIAL_SEQ_NUM \/ next_outbound(last) = INITIAL_SEQ_NUM
      BY <3>2, SeqNumAssumption DEF SeqNums
    <3>4. n.outb = next_outbound(last)
      BY <1>3, <1>5, <2>4, <3>1, <3>3
    <3>5. QED BY <1>3, <1>5, <2>4, <3>1, <3>4 DEF Follows
  <2>5. QED BY <2>1, <2>2, <2>3, <2>4
<1>7. Line(start, n)
  BY <1>0, <1>3, <1>5, <1>6, Line_start
<1>8. Line(start, r)
  <2> DEFINE u == SendNew(n, "Logon", b.cfg.heart_bt_int, Flag(b.cfg.reset_seq_num_on_logon))
  <2>1. Line(start, u)
    BY <1>7, Line_SendNew
  <2>2. r = IF Sends(b) THEN transition(u, "LogonSent") ELSE u
    BY <1>3 DEF initiate_logon, n
  <2> HIDE DEF u, r
  <2>3. Line(start, transition(u, "LogonSent"))
    BY Zenon, <2>1, Line_steps
  <2>4. QED BY <2>1, <2>2, <2>3
<1> HIDE DEF r, start
<1>9. QED BY <1>4, <1>8, NInv_after

(* One step per action: every call continues the line or begins a new one.  *)
THEOREM NInv_Next == NInv /\ [Next]_vars => NInv'
<1> SUFFICES ASSUME NInv, [Next]_vars PROVE NInv'
  OBVIOUS
<1>0. /\ IInv' /\ IInv /\ SessionOK(s) /\ s.tx = <<>> /\ FiniteStore(s.st)
      /\ Logged(s.st)
  BY IInv_Next DEF NInv, IInv
<1>1. CASE Connect
  BY <1>0, <1>1, NInv_Connect
<1>2. CASE ConnectionLost \/ EndOfConnection
  <2>1. PICK r \in {s, on_disconnect(s)} : Observe(r, last)
    BY <1>2 DEF ConnectionLost, EndOfConnection
  <2>2. connected /\ Alike(s, s)
    BY Zenon, <1>0, <1>2, Session_alike DEF ConnectionLost, EndOfConnection
  <2>3. Line(last, s)
    BY <2>2, NInv_before
  <2>4. Line(last, on_disconnect(s))
    BY Zenon, <2>3, Line_steps DEF on_disconnect
  <2>5. QED BY <1>0, <2>1, <2>3, <2>4, NInv_after
<1>3. CASE Restart
  <2> DEFINE n == NewSession(s.cfg, s.st)
             start == IF s.cfg.store THEN last ELSE 0
  <2>1. Observe(n, start) /\ s.cfg.role = "initiator" /\ connected' = FALSE
    BY <1>3 DEF Restart
  <2>2. SessionOK(n) /\ n.tx = <<>> /\ n.cfg = s.cfg
    BY <1>0, Session_New DEF SessionOK
  <2>3. n.st = s.st /\ n.outb = INITIAL_SEQ_NUM
    BY DEF NewSession
  <2> HIDE DEF n
  <2>4. s'.cfg = s.cfg /\ s'.st = s.st /\ s'.outb = INITIAL_SEQ_NUM
    BY Zenon, <2>1, <2>2, <2>3, Session_Return DEF Observe
  <2>5. LastOf(<<>>, NewAt(<<>>), start) = start /\ InSequence(<<>>, start)
    BY DEF LastOf, InSequence, NewAt
  <2>6. last' = start /\ inOrder'
    BY Zenon, <2>1, <2>2, <2>5 DEF Observe, NInv
  <2>7. ReplaysAreFaithful' /\ Logged(s.st)'
    <3>1. Traced(n.st, <<>>)
      BY <1>0, <2>3, Logged_traced
    <3>2. QED BY Zenon, <2>1, <2>2, <3>1, Logged_after
  <2>8. QED BY <1>0, <2>1, <2>4, <2>6, <2>7 DEF NInv, Unnumbered
<1>4. CASE Accept
  <2> DEFINE n == NewSession(s.cfg, s.st)
  <2>1. Observe(on_connect(n), 0)
    BY <1>4 DEF Accept
  <2>2. SessionOK(n) /\ n.tx = <<>> /\ FiniteStore(n.st) /\ Logged(n.st)
    <3>1. n.st = s.st
      BY DEF NewSession
    <3>2. QED BY <1>0, <3>1, Session_New DEF SessionOK
  <2> HIDE DEF n
  <2>3. Line(0, n)
    BY <2>2, Line_start DEF Follows
  <2>4. Line(0, on_connect(n))
    BY Zenon, <2>3, Line_steps DEF on_connect
  <2>5. QED BY <1>0, <2>1, <2>4, NInv_after
<1>5. ASSUME NEW m \in PeerMessages, Receive(m) PROVE NInv'
  <2>1. PICK fails \in FailSets : Observe(on_data_received(Call(s, fails), m), last)
    BY <1>5 DEF Receive, Handle
  <2>2. PeerOK(m)
    BY SessionAssumption DEF PeerOK
  <2>3. Line(last, Call(s, fails))
    BY <1>0, <1>5, Called, NInv_before DEF Receive
  <2>4. QED BY Zenon, <1>0, <2>1, <2>2, <2>3, Line_on_data_received, NInv_after
<1>6. CASE ReceiveBad
  <2>1. Observe(on_bad_data_received(s), last)
    BY <1>6 DEF ReceiveBad, Handle
  <2>2. Line(last, s)
    BY Zenon, <1>0, <1>6, Session_alike, NInv_before DEF ReceiveBad
  <2>3. Line(last, on_bad_data_received(s))
    BY Zenon, <2>2, Line_steps DEF on_bad_data_received, handle_parse_error
  <2>4. QED BY <1>0, <2>1, <2>3, NInv_after
<1>7. ASSUME NEW body \in Bodies, SendApp(body) PROVE NInv'
  <2>1. PICK fails \in FailSets : Observe(send_app_message(Call(s, fails), body), last)
    BY <1>7 DEF SendApp, Handle
  <2>2. Line(last, Call(s, fails))
    BY <1>0, <1>7, Called, NInv_before DEF SendApp
  <2>3. QED BY Zenon, <1>0, <2>1, <2>2, Line_calls, NInv_after
<1>8. CASE Logout
  <2>1. PICK fails \in FailSets : Observe(initiate_logout(Call(s, fails)), last)
    BY <1>8 DEF Logout, Handle
  <2>2. Line(last, Call(s, fails))
    BY <1>0, <1>8, Called, NInv_before DEF Logout
  <2>3. QED BY <1>0, <2>1, <2>2, Line_calls, NInv_after
<1>9. CASE Elapsed \/ Tick
  <2>1. PICK e \in {s, Elapse(s)}, fails \in FailSets :
          Observe(on_timer_tick(Call(e, fails)), last)
    BY <1>9 DEF Elapsed, Tick, Handle
  <2>2. Alike(s, e) /\ SessionOK(e)
    <3>1. Alike(s, s) /\ Alike(s, Elapse(s))
      BY Zenon, <1>0, Session_alike
    <3>2. QED BY <3>1 DEF Alike
  <2>3. Alike(e, Call(e, fails))
    BY Zenon, <2>2, Session_alike
  <2>4. Alike(s, Call(e, fails))
    BY <2>2, <2>3 DEF Alike
  <2>5. Line(last, Call(e, fails))
    BY Zenon, <1>9, <2>4, NInv_before DEF Elapsed, Tick
  <2>6. QED BY <1>0, <2>1, <2>5, Line_calls, NInv_after
<1>10. CASE FallSilent
  BY <1>0, <1>10 DEF FallSilent, monitors, NInv, Unnumbered, Logged, ReplaysAreFaithful
<1>11. CASE UNCHANGED vars
  BY <1>0, <1>11 DEF vars, NInv, Unnumbered, Logged, ReplaysAreFaithful
<1>12. QED
  BY <1>1, <1>2, <1>3, <1>4, <1>5, <1>6, <1>7, <1>8, <1>9, <1>10, <1>11 DEF Next

(* The new messages a session puts on the wire carry consecutive numbers,   *)
(* for every maximum of the counter, every limit of the store, every peer   *)
(* and every pattern of failing sends.                                      *)
THEOREM NumbersConsecutive == Spec => []NewNumbersConsecutive
<1>1. NInv => NewNumbersConsecutive
  BY DEF NInv, NewNumbersConsecutive
<1>2. QED BY <1>1, NInv_Init, NInv_Next, PTL DEF Spec

(* Every message a session sends again in answer to a ResendRequest went    *)
(* out before under its number, whatever was evicted from the store,        *)
(* whichever sends failed, however often the counter wrapped or was reset   *)
(* and the session or the connection was replaced in between; it is whole   *)
(* if it fits, and has its type if that is a single character.              *)
THEOREM ReplaysStayFaithful == Spec => []ReplaysAreFaithful
<1>1. NInv => ReplaysAreFaithful
  BY DEF NInv
<1>2. QED BY <1>1, NInv_Init, NInv_Next, PTL DEF Spec
=============================================================================
