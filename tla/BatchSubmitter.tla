--------------------------- MODULE BatchSubmitter ---------------------------
(***************************************************************************)
(* transport/batch_submitter.hpp: BatchSubmitter, AutoFlushBatchSubmitter, *)
(* ScatterGatherSend and LinkedOperations over one IoUringContext.  Each   *)
(* prepares entries of the same submission ring and counts its own; one    *)
(* call of submit hands the kernel every entry of the ring.                *)
(*                                                                         *)
(* The ring and the kernel are external.  Nothing in the header keeps one  *)
(* object from preparing or submitting while another builds a chain, or    *)
(* the iovec list from being filled again while its entry still waits.     *)
(***************************************************************************)
EXTENDS Integers, SequencesExt, FiniteSetsExt

CONSTANTS Entries,        \* submission ring entries
          MaxBatchSize,
          MAX_IOVECS,
          MaxOps          \* bound on the operations queued

VARIABLES sqes, sqhead, sqtail,            \* the ring: its entries, and those between head and tail wait
          count_,                          \* count_[c]: the counter of object c
          total_submitted_, total_flushes_,
          iovecs_,                         \* the list of ScatterGatherSend
          last_sqe_,                       \* place of the last entry of the chain, or -1
          chain,                           \* the chain being built (history)
          accepted,                        \* the operations accepted, in order (history)
          wire,                            \* the operations the kernel took, in order (history)
          disturbed,                       \* the chains others came between or the kernel cut (history)
          refilled,                        \* the writevs whose list changed while they waited (history)
          cleared                          \* the operations that clear() was called on (history)

histories == <<disturbed, refilled, cleared>>

vars == <<sqes, sqhead, sqtail, count_, total_submitted_, total_flushes_, iovecs_, last_sqe_,
          chain, accepted, wire, histories>>

Objects == {"batch", "auto", "scatter", "linked"}

Empty == [id |-> 0, link |-> FALSE, iovcnt |-> 0]

Init == /\ sqes = [i \in 0 .. (Entries - 1) |-> Empty] /\ sqhead = 0 /\ sqtail = 0
        /\ count_ = [c \in Objects |-> 0]
        /\ total_submitted_ = 0 /\ total_flushes_ = 0
        /\ iovecs_ = [k \in 1 .. MAX_IOVECS |-> "unset"] /\ last_sqe_ = -1
        /\ chain = 1 /\ accepted = <<>> /\ wire = <<>>
        /\ disturbed = {} /\ refilled = {} /\ cleared = {}

(***************************************************************************)
(* The ring.                                                               *)
(***************************************************************************)
HasEntry(head) == sqtail - head < Entries

Waiting == {sqes[i % Entries].id : i \in sqhead .. (sqtail - 1)}

WaitingBy(c) == {n \in Waiting : accepted[n].by = c}

\* The operation by, in chain (0: none), sending buffers of the iovec list.
Operation(by, inChain, buffers) == [by |-> by, chain |-> inChain, buffers |-> buffers]

\* ring with the entry of operation n prepared at the tail; prep clears the flags.
Prepared(ring, n, iovcnt) == [ring EXCEPT ![sqtail % Entries] =
                                  [id |-> n, link |-> FALSE, iovcnt |-> iovcnt]]

\* What io_uring_submit may return: an error, or how many entries the kernel
\* took, which may be fewer than there are.
Returns == {-1} \cup (IF sqtail = sqhead THEN {0} ELSE 1 .. (sqtail - sqhead))

\* The kernel takes n entries, reading an iovec list as it is now; a link at
\* the last of them ties it to nothing.
Taken(n) == [i \in 1 .. n |->
               LET e == sqes[(sqhead + i - 1) % Entries]
               IN  [id |-> e.id, tied |-> e.link /\ i < n, buffers |-> SubSeq(iovecs_, 1, e.iovcnt)]]

Chained(i) == /\ i < Len(accepted) /\ accepted[i].chain > 0
              /\ accepted[i].chain = accepted[i + 1].chain

\* The chains that the kernel cuts by taking ret entries.
Cut(ret) == {accepted[i].chain : i \in {i \in {Len(wire) + ret} : ret > 0 /\ Chained(i)}}

\* IoUringContext::submit
ctx_submit(ret) == IF ret > 0 THEN /\ wire' = wire \o Taken(ret)
                                   /\ sqhead' = sqhead + ret
                              ELSE UNCHANGED <<wire, sqhead>>

\* The chain that is open.
Open == IF count_["linked"] > 0 THEN {chain} ELSE {}

\* Somebody else submits, or prepares an entry.
OthersSubmit(ret) == /\ ctx_submit(ret)
                     /\ disturbed' = disturbed \cup Cut(ret) \cup (IF ret > 0 THEN Open ELSE {})
                     /\ UNCHANGED <<refilled, cleared>>

OthersPrepare == /\ disturbed' = disturbed \cup Open
                 /\ UNCHANGED <<refilled, cleared>>

(***************************************************************************)
(* BatchSubmitter.                                                         *)
(***************************************************************************)
\* queue_send, queue_recv, queue_send_fixed, queue_recv_fixed, queue_nop.
queue == /\ Len(accepted) < MaxOps
         /\ count_["batch"] < MaxBatchSize /\ HasEntry(sqhead)
         /\ sqes' = Prepared(sqes, Len(accepted) + 1, 0) /\ sqtail' = sqtail + 1
         /\ count_' = [count_ EXCEPT !["batch"] = @ + 1]
         /\ accepted' = Append(accepted, Operation("batch", 0, <<>>))
         /\ OthersPrepare
         /\ UNCHANGED <<sqhead, total_submitted_, total_flushes_, iovecs_, last_sqe_, chain, wire>>

\* submit, and the first half of submit_and_wait.
submit == /\ count_["batch"] > 0
          /\ \E ret \in Returns : OthersSubmit(ret)
          /\ count_' = [count_ EXCEPT !["batch"] = 0]
          /\ UNCHANGED <<sqes, sqtail, total_submitted_, total_flushes_, iovecs_, last_sqe_, chain, accepted>>

\* clear forgets the count; the entries stay in the ring.
clear == /\ count_["batch"] > 0
         /\ count_' = [count_ EXCEPT !["batch"] = 0]
         /\ cleared' = cleared \cup WaitingBy("batch")
         /\ UNCHANGED <<sqes, sqhead, sqtail, total_submitted_, total_flushes_, iovecs_, last_sqe_,
                        chain, accepted, wire, disturbed, refilled>>

(***************************************************************************)
(* AutoFlushBatchSubmitter.                                                *)
(***************************************************************************)
\* flush counts the batch, not what the kernel says it took; an error loses the count.
Flushed == \E ret \in Returns :
    /\ OthersSubmit(ret)
    /\ total_submitted_' = IF ret >= 0 THEN total_submitted_ + count_["auto"] ELSE total_submitted_
    /\ total_flushes_' = IF ret >= 0 THEN total_flushes_ + 1 ELSE total_flushes_

flush == /\ count_["auto"] > 0
         /\ Flushed
         /\ count_' = [count_ EXCEPT !["auto"] = 0]
         /\ UNCHANGED <<sqes, sqtail, iovecs_, last_sqe_, chain, accepted>>

\* queue_send, queue_recv and queue_nop flush a full batch first; they return
\* false when the ring has no entry even then.
auto_queue ==
    /\ Len(accepted) < MaxOps
    /\ LET full == count_["auto"] >= MaxBatchSize
           base == IF full THEN 0 ELSE count_["auto"]
       IN  /\ \/ full /\ Flushed
              \/ ~full /\ OthersPrepare /\ UNCHANGED <<wire, sqhead, total_submitted_, total_flushes_>>
           /\ \/ /\ HasEntry(sqhead')
                 /\ sqes' = Prepared(sqes, Len(accepted) + 1, 0) /\ sqtail' = sqtail + 1
                 /\ count_' = [count_ EXCEPT !["auto"] = base + 1]
                 /\ accepted' = Append(accepted, Operation("auto", 0, <<>>))
              \/ /\ ~HasEntry(sqhead')
                 /\ count_' = [count_ EXCEPT !["auto"] = base]
                 /\ UNCHANGED <<sqes, sqtail, accepted>>
    /\ UNCHANGED <<iovecs_, last_sqe_, chain>>

(***************************************************************************)
(* ScatterGatherSend.                                                      *)
(***************************************************************************)
\* iovecs_[count_++] = data, in the list that an earlier writev may still be waiting with.
add(data) == /\ Len(accepted) < MaxOps
             /\ count_["scatter"] < MAX_IOVECS
             /\ iovecs_' = [iovecs_ EXCEPT ![count_["scatter"] + 1] = data]
             /\ count_' = [count_ EXCEPT !["scatter"] = @ + 1]
             /\ refilled' = refilled \cup WaitingBy("scatter")
             /\ UNCHANGED <<sqes, sqhead, sqtail, total_submitted_, total_flushes_, last_sqe_, chain,
                            accepted, wire, disturbed, cleared>>

scatter_submit == /\ Len(accepted) < MaxOps
                  /\ count_["scatter"] > 0 /\ HasEntry(sqhead)
                  /\ sqes' = Prepared(sqes, Len(accepted) + 1, count_["scatter"])
                  /\ sqtail' = sqtail + 1
                  /\ count_' = [count_ EXCEPT !["scatter"] = 0]
                  /\ accepted' = Append(accepted, Operation("scatter", 0, SubSeq(iovecs_, 1, count_["scatter"])))
                  /\ OthersPrepare
                  /\ UNCHANGED <<sqhead, total_submitted_, total_flushes_, iovecs_, last_sqe_, chain, wire>>

reset == /\ count_["scatter"] > 0
         /\ count_' = [count_ EXCEPT !["scatter"] = 0]
         /\ UNCHANGED <<sqes, sqhead, sqtail, total_submitted_, total_flushes_, iovecs_, last_sqe_,
                        chain, accepted, wire, histories>>

(***************************************************************************)
(* LinkedOperations.                                                       *)
(***************************************************************************)
\* chain_send and chain_recv flag the entry before the new one.
chain_op == /\ Len(accepted) < MaxOps /\ HasEntry(sqhead)
            /\ LET ring == Prepared(sqes, Len(accepted) + 1, 0)
               IN  sqes' = IF last_sqe_ = -1 THEN ring ELSE [ring EXCEPT ![last_sqe_].link = TRUE]
            /\ last_sqe_' = sqtail % Entries /\ sqtail' = sqtail + 1
            /\ count_' = [count_ EXCEPT !["linked"] = @ + 1]
            /\ accepted' = Append(accepted, Operation("linked", chain, <<>>))
            /\ UNCHANGED <<sqhead, total_submitted_, total_flushes_, iovecs_, chain, wire, histories>>

\* A submit that leaves last_sqe_ at the entry it handed over.
linked_submit_stale ==
    /\ count_["linked"] > 0
    /\ \E ret \in Returns : ctx_submit(ret) /\ disturbed' = disturbed \cup Cut(ret)
    /\ count_' = [count_ EXCEPT !["linked"] = 0] /\ chain' = chain + 1
    /\ UNCHANGED <<sqes, sqtail, total_submitted_, total_flushes_, iovecs_, last_sqe_, accepted,
                   refilled, cleared>>

linked_submit ==
    /\ count_["linked"] > 0
    /\ \E ret \in Returns : ctx_submit(ret) /\ disturbed' = disturbed \cup Cut(ret)
    /\ count_' = [count_ EXCEPT !["linked"] = 0] /\ chain' = chain + 1
    /\ last_sqe_' = -1
    /\ UNCHANGED <<sqes, sqtail, total_submitted_, total_flushes_, iovecs_, accepted,
                   refilled, cleared>>

Next == \/ queue \/ submit \/ clear \/ flush \/ auto_queue \/ scatter_submit \/ reset
        \/ \E data \in {"a", "b"} : add(data)
        \/ chain_op \/ linked_submit

Spec == Init /\ [][Next]_vars

By(c, n) == Cardinality({i \in 1 .. n : accepted[i].by = c})

\* The kernel gets every accepted operation once and in the order accepted,
\* however the four objects share the ring and however little it takes at a
\* time; those it has not got yet wait in the ring.  A writev has the buffers
\* added for it unless the list was filled again while it waited.  Two
\* operations are tied together exactly when they were chained together, unless
\* others prepared or submitted in the middle of the chain or the kernel took
\* only part of it; without such a chain no stranger is tied to anything.
\* total_submitted_ counts no operation twice.
BatchesExact ==
    /\ \A i \in DOMAIN wire :
          /\ wire[i].id = i
          /\ i \notin refilled => wire[i].buffers = accepted[i].buffers
          /\ accepted[i].chain > 0 /\ accepted[i].chain \notin disturbed => (wire[i].tied <=> Chained(i))
          /\ accepted[i].chain = 0 /\ wire[i].tied => disturbed # {}
    /\ Waiting = (Len(wire) + 1) .. Len(accepted)
    /\ total_submitted_ + count_["auto"] <= By("auto", Len(accepted))

\* "Clear queued operations without submitting" (batch_submitter.hpp): the
\* kernel never gets what was cleared.  It does: the entries stay in the ring.
ClearedNeverSubmitted == \A i \in DOMAIN wire : wire[i].id \notin cleared

\* "Returns number of operations submitted" (batch_submitter.hpp, submit): what
\* AutoFlushBatchSubmitter adds up has reached the kernel.  Not when the kernel
\* took only part of the ring.
SubmittedReached == total_submitted_ <= By("auto", Len(wire))

\* "Chain operations so they execute in order" (batch_submitter.hpp,
\* LinkedOperations): the kernel ties every two neighbours of a chain.  Not
\* when another object prepares or submits in the middle of the chain.
ChainsHold == \A i \in DOMAIN wire : Chained(i) => wire[i].tied
=============================================================================
