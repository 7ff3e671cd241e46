--------------------------- MODULE ThreadLocalPool --------------------------
(***************************************************************************)
(* util/thread_local_pool.hpp: each thread has its own pool of Capacity    *)
(* objects; PooledPtr takes one from the pool of the running thread, or    *)
(* from the heap, and gives it back to the pool of the thread it is        *)
(* destroyed on.  A PooledPtr can be moved to another thread: its object   *)
(* then goes back to a pool that does not own it, which counts it as an    *)
(* invalid release and drops it.                                           *)
(***************************************************************************)
EXTENDS Integers, SequencesExt, FiniteSetsExt, Functions

CONSTANTS Threads, Capacity,
          Ptrs,         \* the PooledPtr objects of the program
          MaxAcquires   \* bound on the calls of acquire, per thread

VARIABLES free_stack_,   \* free_stack_[t]: the indices below free_count_, top last
          stats_,        \* stats_[t]
          ptr_,          \* ptr_[p]: nullptr, a heap object, or object idx of pool of
          lost           \* objects no pointer and no pool refers to any more (history)

vars == <<free_stack_, stats_, ptr_, lost>>

nullptr == [kind |-> "null", of |-> 0, idx |-> 0]

heap == [kind |-> "heap", of |-> 0, idx |-> 0]

object(t, i) == [kind |-> "pool", of |-> t, idx |-> i]

NoStats == [acquires |-> 0, releases |-> 0, pool_exhausted |-> 0,
            invalid_releases |-> 0, double_releases |-> 0]

Init == /\ free_stack_ = [t \in Threads |-> [i \in 1 .. Capacity |-> i - 1]]
        /\ stats_ = [t \in Threads |-> NoStats]
        /\ ptr_ = [p \in Ptrs |-> nullptr]
        /\ lost = {}

(***************************************************************************)
(* PooledPtr::release on thread t, as a function of the pool.              *)
(***************************************************************************)
Pool(t) == [stack |-> free_stack_[t], stats |-> stats_[t]]

count(pool, counter) == [pool EXCEPT !.stats[counter] = @ + 1]

\* A release that divides the distance by the object's size without regard
\* to its sign: an object of another thread's pool passes for one of t's.
InPool_signless(t, obj) == TRUE

\* The distance to objects_[0] is an index of this pool.
InPool(t, obj) == obj.of = t

\* ThreadLocalPool::release
released(t, pool, obj) ==
    IF ~InPool(t, obj) THEN count(pool, "invalid_releases")
    ELSE IF Len(pool.stack) >= Capacity THEN count(pool, "double_releases")
    ELSE count([pool EXCEPT !.stack = Append(@, obj.idx)], "releases")

\* What p's object leaves behind when t releases it.
dropped(t, pool, obj) == IF obj.kind = "pool" THEN released(t, pool, obj) ELSE pool

Becomes(t, pool) == /\ free_stack_' = [free_stack_ EXCEPT ![t] = pool.stack]
                    /\ stats_' = [stats_ EXCEPT ![t] = pool.stats]

Forgets(t, obj) == lost' = lost \cup {o \in {obj} : o.kind = "pool" /\ o.of # t}

(***************************************************************************)
(* Operations of thread t.                                                 *)
(***************************************************************************)
acquired(pool) == IF pool.stack = <<>> THEN count(pool, "pool_exhausted")
                  ELSE count([pool EXCEPT !.stack = Front(@)], "acquires")

top(t) == IF free_stack_[t] = <<>> THEN nullptr ELSE object(t, Last(free_stack_[t]))

CanCount(t) == stats_[t].acquires + stats_[t].pool_exhausted < MaxAcquires

\* p = PooledPtr::acquire(): from the heap when the pool is empty, and the
\* heap may fail.  The old object of p is released after.
acquire(t, p) ==
    /\ CanCount(t)
    /\ \E new \in IF top(t) = nullptr THEN {heap, nullptr} ELSE {top(t)} :
           ptr_' = [ptr_ EXCEPT ![p] = new]
    /\ Becomes(t, dropped(t, acquired(Pool(t)), ptr_[p]))
    /\ Forgets(t, ptr_[p])

acquire_pooled_only(t, p) ==
    /\ CanCount(t)
    /\ ptr_' = [ptr_ EXCEPT ![p] = top(t)]
    /\ Becomes(t, dropped(t, acquired(Pool(t)), ptr_[p]))
    /\ Forgets(t, ptr_[p])

\* release and ~PooledPtr
release(t, p) ==
    /\ ptr_[p] # nullptr
    /\ ptr_' = [ptr_ EXCEPT ![p] = nullptr]
    /\ Becomes(t, dropped(t, Pool(t), ptr_[p]))
    /\ Forgets(t, ptr_[p])

\* p = std::move(q) on thread t; PooledPtr p{std::move(q)} is the case of an
\* empty p.
MoveAssign(t, p, q) ==
    \/ /\ p = q
       /\ UNCHANGED vars
    \/ /\ p # q
       /\ ptr_' = [ptr_ EXCEPT ![p] = ptr_[q], ![q] = nullptr]
       /\ Becomes(t, dropped(t, Pool(t), ptr_[p]))
       /\ Forgets(t, ptr_[p])

Next == \E t \in Threads, p \in Ptrs :
            \/ acquire(t, p) \/ acquire_pooled_only(t, p) \/ release(t, p)
            \/ \E q \in Ptrs : MoveAssign(t, p, q)

Spec == Init /\ [][Next]_vars

Held(t) == {p \in Ptrs : ptr_[p].kind = "pool" /\ ptr_[p].of = t}

LostOf(t) == {o \in lost : o.of = t}

\* However PooledPtrs travel between threads, no object has two owners: it
\* is once in its own pool's stack, or held by one PooledPtr, or lost; and
\* the counters tell how many were lost (ThreadLocalPool::release).
ObjectsExact ==
    /\ \A t \in Threads :
           /\ IsInjective(free_stack_[t])
           /\ {ptr_[p].idx : p \in Held(t)} \cup {o.idx : o \in LostOf(t)}
                  = (0 .. (Capacity - 1)) \ ToSet(free_stack_[t])
           /\ Cardinality(Held(t)) + Cardinality(LostOf(t)) + Len(free_stack_[t]) = Capacity
           /\ stats_[t].acquires - stats_[t].releases = Capacity - Len(free_stack_[t])
           /\ stats_[t].double_releases = 0
    /\ SumFunction([t \in Threads |-> stats_[t].invalid_releases]) = Cardinality(lost)
=============================================================================
