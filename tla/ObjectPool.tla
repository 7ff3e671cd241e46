----------------------------- MODULE ObjectPool -----------------------------
(***************************************************************************)
(* memory/object_pool.hpp: ObjectPool hands out slots from a list threaded *)
(* through the free slots themselves, PoolPtr owns a slot and returns it,  *)
(* GrowingObjectPool adds a chunk when its list is empty.  A slot that got *)
(* into the list twice, or stayed in it while in use, would be handed out  *)
(* to two owners.  Neither pool is shared between threads.                 *)
(***************************************************************************)
EXTENDS Integers, Sequences, FiniteSets, Functions

CONSTANTS Capacity,    \* slots of ObjectPool
          ChunkSize,   \* slots of one chunk of GrowingObjectPool
          MaxChunks,   \* bound on the chunks
          Handles      \* the PoolPtr objects of the program

VARIABLES free_list_,   \* ObjectPool's list, first slot first
          available_,
          constructed,  \* slots that hold a live object
          ptr_,         \* ptr_[h]: the slot of PoolPtr h, or nullptr
          raw,          \* slots the program holds as plain pointers
          growing       \* GrowingObjectPool: its list, counters and slots in use

vars == <<free_list_, available_, constructed, ptr_, raw, growing>>

Slots == 1 .. Capacity

nullptr == 0

foreign == -1   \* a pointer that is not from this pool

Upto(n) == [i \in 1 .. n |-> i]

Init == /\ free_list_ = Upto(Capacity) /\ available_ = Capacity
        /\ constructed = {} /\ raw = {}
        /\ ptr_ = [h \in Handles |-> nullptr]
        /\ growing = [free |-> <<>>, allocated |-> 0, chunks |-> 0, used |-> {}]

(***************************************************************************)
(* ObjectPool.                                                             *)
(***************************************************************************)
Pool == [free |-> free_list_, available |-> available_, live |-> constructed]

Becomes(p) == free_list_' = p.free /\ available_' = p.available /\ constructed' = p.live

\* The slot allocate returns, and the pool it leaves.
next_free(p) == IF p.free = <<>> THEN nullptr ELSE Head(p.free)

allocated(p) == IF p.free = <<>> THEN p
                ELSE [free |-> Tail(p.free), available |-> p.available - 1,
                      live |-> p.live \cup {Head(p.free)}]

\* deallocate ignores nullptr and pointers outside storage_.
deallocated(p, slot) == IF slot \notin Slots THEN p
                        ELSE [free |-> <<slot>> \o p.free, available |-> p.available + 1,
                              live |-> p.live \ {slot}]

allocate == /\ Becomes(allocated(Pool))
            /\ raw' = raw \cup ({next_free(Pool)} \ {nullptr})
            /\ UNCHANGED <<ptr_, growing>>

deallocate(slot) == /\ slot \in (raw \cap constructed) \cup {nullptr, foreign}
                    /\ Becomes(deallocated(Pool, slot))
                    /\ raw' = raw \ {slot}
                    /\ UNCHANGED <<ptr_, growing>>

\* allocate_raw leaves construction to the caller.
allocate_raw == /\ Becomes([allocated(Pool) EXCEPT !.live = constructed])
                /\ raw' = raw \cup ({next_free(Pool)} \ {nullptr})
                /\ UNCHANGED <<ptr_, growing>>

\* deallocate_raw expects the caller to have destroyed the object.
deallocate_raw(slot) == /\ slot \in (raw \ constructed) \cup {nullptr, foreign}
                        /\ Becomes(deallocated(Pool, slot))
                        /\ raw' = raw \ {slot}
                        /\ UNCHANGED <<ptr_, growing>>

Rebuilt(live) == [free |-> Upto(Capacity), available |-> Capacity, live |-> live]

\* reset "invalidates all pointers": the program calls it with no PoolPtr in
\* use and forgets its plain ones.  Objects are abandoned, not destroyed.
reset == /\ \A h \in Handles : ptr_[h] = nullptr
         /\ Becomes(Rebuilt({})) /\ raw' = {}
         /\ UNCHANGED <<ptr_, growing>>

\* clear first destroys what is not in the free list.
clear == /\ \A h \in Handles : ptr_[h] = nullptr
         /\ Becomes(Rebuilt(constructed \ (Slots \ Range(free_list_)))) /\ raw' = {}
         /\ UNCHANGED <<ptr_, growing>>

(***************************************************************************)
(* PoolPtr.                                                                *)
(***************************************************************************)
\* h = make_pooled(pool): the object is allocated before the handle's old one
\* is returned.
make_pooled(h) == /\ Becomes(deallocated(allocated(Pool), ptr_[h]))
                  /\ ptr_' = [ptr_ EXCEPT ![h] = next_free(Pool)]
                  /\ UNCHANGED <<raw, growing>>

\* An assignment that leaves the source its pointer.
MovedPtrs_kept(h, g) == [ptr_ EXCEPT ![h] = ptr_[g]]

MovedPtrs(h, g) == [ptr_ EXCEPT ![h] = ptr_[g], ![g] = nullptr]

\* h = std::move(g), also with h and g the same; PoolPtr h{std::move(g)} is
\* the case of an empty h.
MoveAssign(h, g) ==
    /\ \/ /\ h = g
          /\ UNCHANGED <<free_list_, available_, constructed, ptr_>>
       \/ /\ h # g
          /\ Becomes(deallocated(Pool, ptr_[h]))
          /\ ptr_' = MovedPtrs(h, g)
    /\ UNCHANGED <<raw, growing>>

\* The program takes the pointer over.
release(h) == /\ raw' = raw \cup ({ptr_[h]} \ {nullptr})
              /\ ptr_' = [ptr_ EXCEPT ![h] = nullptr]
              /\ UNCHANGED <<free_list_, available_, constructed, growing>>

\* PoolPtr::reset, and its destructor.
PoolPtr_reset(h) == /\ Becomes(deallocated(Pool, ptr_[h]))
                    /\ ptr_' = [ptr_ EXCEPT ![h] = nullptr]
                    /\ UNCHANGED <<raw, growing>>

(***************************************************************************)
(* GrowingObjectPool.  The slots of chunk c are c * ChunkSize + 1 onwards. *)
(***************************************************************************)
grow(g) == [g EXCEPT !.chunks = @ + 1,
                     !.free = [i \in 1 .. ChunkSize |-> g.chunks * ChunkSize + i] \o @]

Growing_allocate ==
    /\ growing.free = <<>> => growing.chunks < MaxChunks
    /\ LET g == IF growing.free = <<>> THEN grow(growing) ELSE growing
       IN  growing' = [g EXCEPT !.free = Tail(@), !.allocated = @ + 1, !.used = @ \cup {Head(g.free)}]
    /\ UNCHANGED <<free_list_, available_, constructed, ptr_, raw>>

Growing_deallocate(slot) ==
    /\ slot \in growing.used
    /\ growing' = [growing EXCEPT !.free = <<slot>> \o @, !.allocated = @ - 1, !.used = @ \ {slot}]
    /\ UNCHANGED <<free_list_, available_, constructed, ptr_, raw>>

Next == \/ allocate \/ allocate_raw \/ reset \/ clear \/ Growing_allocate
        \/ \E slot \in Slots \cup {nullptr, foreign} : deallocate(slot) \/ deallocate_raw(slot)
        \/ \E h \in Handles : \/ make_pooled(h) \/ release(h) \/ PoolPtr_reset(h)
                              \/ \E g \in Handles : MoveAssign(h, g)
        \/ \E slot \in growing.used : Growing_deallocate(slot)

Spec == Init /\ [][Next]_vars

Held == {ptr_[h] : h \in Handles} \ {nullptr}

\* Every slot is once in the free list, or has one owner: a PoolPtr or a
\* plain pointer of the program.  The counters count them, and no object
\* lives in a free slot (allocate, deallocate, PoolPtr's moves, grow).
SlotsExact ==
    /\ IsInjective(free_list_) /\ Len(free_list_) = available_
    /\ \A h, g \in Handles : h # g /\ ptr_[h] = ptr_[g] => ptr_[h] = nullptr
    /\ Held \cap raw = {}
    /\ Held \cup raw = Slots \ Range(free_list_)
    /\ Held \subseteq constructed /\ constructed \subseteq Held \cup raw
    /\ IsInjective(growing.free) /\ Cardinality(growing.used) = growing.allocated
    /\ growing.used = (1 .. (growing.chunks * ChunkSize)) \ Range(growing.free)
=============================================================================
