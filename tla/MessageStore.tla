---------------------------- MODULE MessageStore ----------------------------
(***************************************************************************)
(* The in-memory message store (store/memory_message_store.hpp).  A store  *)
(* is a record; each method is a function from the store before to the     *)
(* store after.  Every method runs under the store's lock or touches one   *)
(* atomic, so a call is one step.                                          *)
(*                                                                         *)
(* Message bytes come from a monotonic pool: erasing a message gives none  *)
(* back, only reset() does.                                                *)
(***************************************************************************)
EXTENDS SequenceManager, FiniteSets, Sequences

CONSTANTS
  MaxMessages,    \* Config::max_messages
  MaxBytes,       \* Config::max_bytes
  PoolBytes,      \* Config::pool_size_bytes
  EvictOldest,    \* Config::evict_oldest
  SizeOf(_)       \* size in bytes of a message

ASSUME StoreAssumption ==
  /\ MaxMessages \in Nat /\ MaxBytes \in Nat /\ PoolBytes \in Nat
  /\ EvictOldest \in BOOLEAN

NewStore ==
  [msgs |-> [q \in {} |-> 0], total_bytes |-> 0, pool_used |-> 0,
   min_seq |-> UINT32_MAX, max_seq |-> 0,
   next_sender_seq |-> 1, next_target_seq |-> 1]

Keys(st) == DOMAIN st.msgs

(* The loop that recomputes min_seq_: the least key, or UINT32_MAX.         *)
LeastKey(f) ==
  IF DOMAIN f = {} THEN UINT32_MAX
  ELSE CHOOSE q \in DOMAIN f : \A r \in DOMAIN f : q <= r

(* The oldest message is the one with the smallest sequence number; nothing *)
(* happens when min_seq_ is not the key of a message.                       *)
evict_oldest(st) ==
  IF st.min_seq \notin Keys(st) THEN st
  ELSE LET rest == [q \in Keys(st) \ {st.min_seq} |-> st.msgs[q]] IN
       [st EXCEPT !.msgs = rest,
                  !.total_bytes = @ - SizeOf(st.msgs[st.min_seq]),
                  !.min_seq = LeastKey(rest)]

AtCapacity(st, m) ==
  \/ Cardinality(Keys(st)) >= MaxMessages
  \/ st.total_bytes + SizeOf(m) > MaxBytes

Insert(st, seq, m) ==
  [st EXCEPT !.msgs = [q \in Keys(st) \cup {seq} |-> IF q = seq THEN m ELSE st.msgs[q]],
             !.total_bytes = @ + SizeOf(m),
             !.pool_used = @ + SizeOf(m),
             !.min_seq = IF seq < @ THEN seq ELSE @,
             !.max_seq = IF seq > @ THEN seq ELSE @]

(* One message is evicted when the store is at a limit, then the bytes are  *)
(* taken from the pool, then the message is inserted unless the key exists. *)
(* A refusal after the eviction does not bring the evicted message back.    *)
store(st, seq, m) ==
  LET full == AtCapacity(st, m)
      room == IF full THEN evict_oldest(st) ELSE st
  IN CASE full /\ ~(EvictOldest /\ Keys(st) # {})    -> st
       [] room.pool_used + SizeOf(m) > PoolBytes     -> room
       [] seq \in Keys(room)                         -> [room EXCEPT !.pool_used = @ + SizeOf(m)]
       [] OTHER                                      -> Insert(room, seq, m)

(* The i-th of the numbers of S in ascending order.                         *)
Nth(S, i) == CHOOSE q \in S : Cardinality({r \in S : r < q}) = i - 1

(* The messages kept between begin and end, in order; end 0 is max_seq_.    *)
retrieve_range(st, begin, end) ==
  LET last == IF end = 0 THEN st.max_seq ELSE end
      found == {q \in Keys(st) : begin <= q /\ q <= last}
  IN [i \in 1 .. Cardinality(found) |-> st.msgs[Nth(found, i)]]

set_next_sender_seq_num(st, seq) == [st EXCEPT !.next_sender_seq = seq]

set_next_target_seq_num(st, seq) == [st EXCEPT !.next_target_seq = seq]
=============================================================================
