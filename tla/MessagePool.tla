----------------------------- MODULE MessagePool ----------------------------
(***************************************************************************)
(* memory/buffer_pool.hpp: MessagePool keeps three FixedPools of blocks of *)
(* growing size.  A request that finds its tier empty is served from the   *)
(* next one, and a block goes back to the tier whose storage holds it.     *)
(* PooledBuffer owns a block and returns it.                               *)
(***************************************************************************)
EXTENDS Integers, SequencesExt, FiniteSetsExt

CONSTANTS BlockSize,   \* BlockSize[t]: SMALL_SIZE, MEDIUM_SIZE, LARGE_SIZE
          NumBlocks,   \* NumBlocks[t]: SMALL_COUNT, MEDIUM_COUNT, LARGE_COUNT
          Requests,    \* the sizes asked for
          Buffers      \* the PooledBuffer objects of the program

VARIABLES pools,     \* pools[t]: tier t's free blocks and allocated_count_
          buffer_,   \* buffer_[b]: the block PooledBuffer b owns, or Empty
          asked      \* asked[b]: the size b was asked for (history)

vars == <<pools, buffer_, asked>>

Tiers == 1 .. 3

Empty == [tier |-> 0, block |-> 0]

\* FixedPool's constructor chains the blocks in order.
Init == /\ pools = [t \in Tiers |-> [free |-> [i \in 1 .. NumBlocks[t] |-> i], allocated |-> 0]]
        /\ buffer_ = [b \in Buffers |-> Empty]
        /\ asked = [b \in Buffers |-> 0]

\* The tiers that could serve the request; allocate takes the smallest.
Serving(size) == {t \in Tiers : size <= BlockSize[t] /\ pools[t].free # <<>>}

allocate(size) == IF Serving(size) = {} THEN Empty
                  ELSE LET t == Min(Serving(size)) IN [tier |-> t, block |-> Head(pools[t].free)]

\* FixedPool::allocate takes block out of its tier.
Taken(ps, block) == IF block = Empty THEN ps
                    ELSE [ps EXCEPT ![block.tier].free = Tail(@), ![block.tier].allocated = @ + 1]

\* A pool that returns every block to the small tier.
owner_small(block) == 1

\* The tier whose storage holds the block.
owner(block) == block.tier

\* MessagePool::deallocate.
deallocate(ps, block) ==
    IF block = Empty THEN ps
    ELSE [ps EXCEPT ![owner(block)].free = <<block.block>> \o @, ![owner(block)].allocated = @ - 1]

\* b = PooledBuffer{pool, pool.allocate(size)}: the new block is taken before
\* the old one goes back.
Acquire(b, size) ==
    /\ pools' = deallocate(Taken(pools, allocate(size)), buffer_[b])
    /\ buffer_' = [buffer_ EXCEPT ![b] = allocate(size)]
    /\ asked' = [asked EXCEPT ![b] = size]

\* b = std::move(c), also onto itself; PooledBuffer b{std::move(c)} is the
\* case of an empty b.
MoveAssign(b, c) ==
    \/ /\ b = c
       /\ UNCHANGED vars
    \/ /\ b # c
       /\ pools' = deallocate(pools, buffer_[b])
       /\ buffer_' = [buffer_ EXCEPT ![b] = buffer_[c], ![c] = Empty]
       /\ asked' = [asked EXCEPT ![b] = asked[c]]

\* ~PooledBuffer
Destroy(b) == /\ pools' = deallocate(pools, buffer_[b])
              /\ buffer_' = [buffer_ EXCEPT ![b] = Empty]
              /\ UNCHANGED asked

Next == \E b \in Buffers : \/ Destroy(b)
                           \/ \E size \in Requests : Acquire(b, size)
                           \/ \E c \in Buffers : MoveAssign(b, c)

Spec == Init /\ [][Next]_vars

Owned(t) == {b \in Buffers : buffer_[b].tier = t}

\* Every block of every tier is once in its free list or owned by one
\* PooledBuffer, which is as large as was asked for, and the counters agree
\* (MessagePool::allocate falling through the tiers, deallocate by address).
BlocksExact ==
    /\ \A t \in Tiers :
           /\ IsInjective(pools[t].free)
           /\ {buffer_[b].block : b \in Owned(t)} = (1 .. NumBlocks[t]) \ ToSet(pools[t].free)
           /\ Cardinality(Owned(t)) = pools[t].allocated
           /\ pools[t].allocated + Len(pools[t].free) = NumBlocks[t]
    /\ \A b \in Buffers : buffer_[b] # Empty => asked[b] <= BlockSize[buffer_[b].tier]
=============================================================================
