-------------------------- MODULE IoUringTransport --------------------------
(***************************************************************************)
(* transport/io_uring_transport.hpp: the transport over io_uring.  The     *)
(* application thread submits operations and takes completions from one    *)
(* queue; the kernel (external) completes operations in any order.  A      *)
(* connection keeps a receive pending, so send and receive wait while two  *)
(* operations are in flight, and take whatever completion comes first.     *)
(*                                                                         *)
(* Bytes are counted, not named.  IORING_OP_PROVIDE_BUFFERS is an          *)
(* enumerator, so ProvidedBufferGroup::init compiles to "return false" and *)
(* the multishot paths are never taken.  The application connects only     *)
(* while it is not connected.                                              *)
(***************************************************************************)
EXTENDS Integers, SequencesExt, FiniteSetsExt

CONSTANTS RECV_BUFFER_SIZE,        \* capacity of recv_buffer_
          NumBuffers,              \* buffers of RegisteredBufferPool
          UseRegisteredBuffers,    \* config_.use_registered_buffers
          MaxOps                   \* bound on the operations submitted

VARIABLES state_,               \* ConnectionState of the socket
          pc,                   \* the call the application thread waits in, or "idle"
          ops,                  \* operations the kernel has not completed
          cq,                   \* the completion queue
          submitted,            \* operations submitted so far
          recv_pending_,
          recv_buffer_,         \* bytes in the receive buffer
          initialized_,         \* of RegisteredBufferPool
          use_fixed_buffers_,
          free_indices_,
          buf_idx               \* the registered buffer of the waiting call, or -1

vars == <<state_, pc, ops, cq, submitted, recv_pending_, recv_buffer_, initialized_,
          use_fixed_buffers_, free_indices_, buf_idx>>

EFAULT == -14

ECONNREFUSED == -111

Init == /\ state_ = "Disconnected" /\ pc = "idle"
        /\ ops = {} /\ cq = <<>> /\ submitted = 0
        /\ recv_pending_ = FALSE /\ recv_buffer_ = 0
        /\ initialized_ = FALSE /\ use_fixed_buffers_ = FALSE /\ free_indices_ = <<>> /\ buf_idx = -1

is_connected == state_ = "Connected"

(***************************************************************************)
(* IoUringSocket's submit_connect, submit_write[_fixed] and                *)
(* submit_read[_fixed]: get_sqe, a prep call, and the submit after it.     *)
(***************************************************************************)
submit(kind, fixed) == /\ submitted < MaxOps
                       /\ submitted' = submitted + 1
                       /\ ops' = ops \cup {[id |-> submitted', kind |-> kind, fixed |-> fixed]}

\* RegisteredBufferPool::acquire pops the last index, release pushes one.
acquire == IF free_indices_ = <<>> THEN -1 ELSE Last(free_indices_)

Without(idx) == IF idx = -1 THEN free_indices_ ELSE Front(free_indices_)

release(idx) == IF idx = -1 THEN free_indices_ ELSE Append(free_indices_, idx)

(***************************************************************************)
(* The kernel completes an operation.  A fixed operation names its buffer  *)
(* by index and gives nullptr, an address outside it: EFAULT.  A receive   *)
(* gives at least one byte, or none at the end of the stream.              *)
(***************************************************************************)
Results(o) == CASE o.fixed             -> {EFAULT}
                [] o.kind = "connect"  -> {0, ECONNREFUSED}
                [] o.kind = "send"     -> {1}
                [] OTHER               -> 0 .. RECV_BUFFER_SIZE

complete(o) == /\ ops' = ops \ {o}
               /\ \E res \in Results(o) : cq' = Append(cq, [kind |-> o.kind, res |-> res])
               /\ UNCHANGED <<state_, pc, submitted, recv_pending_, recv_buffer_, initialized_,
                              use_fixed_buffers_, free_indices_, buf_idx>>

(***************************************************************************)
(* IoUringTransport.                                                       *)
(***************************************************************************)
\* At most one receive of the transport's own, while the buffer has room.  It
\* takes a registered buffer when there is one, and never releases it.
submit_recv(pending, buffered, fixed, free) ==
    \/ /\ pending \/ buffered >= RECV_BUFFER_SIZE
       /\ recv_pending_' = pending /\ free_indices_' = free
       /\ UNCHANGED <<ops, submitted>>
    \/ /\ ~pending /\ buffered < RECV_BUFFER_SIZE
       /\ recv_pending_' = TRUE
       /\ LET registered == fixed /\ free # <<>>
          IN  /\ free_indices_' = IF registered THEN Front(free) ELSE free
              /\ submit("recv", registered)

connect == /\ pc = "idle" /\ ~is_connected
           /\ submit("connect", FALSE)
           /\ state_' = "Connecting" /\ pc' = "connect"
           /\ UNCHANGED <<cq, recv_pending_, recv_buffer_, initialized_, use_fixed_buffers_,
                          free_indices_, buf_idx>>

\* The first completion is taken for the connect's.  RegisteredBufferPool::init
\* may fail, and refuses a second time.
connect_done ==
    /\ pc = "connect" /\ cq # <<>>
    /\ cq' = Tail(cq) /\ pc' = "idle"
    /\ state_' = IF Head(cq).res = 0 THEN "Connected" ELSE "Error"
    /\ \/ /\ Head(cq).res < 0
          /\ UNCHANGED <<ops, submitted, recv_pending_, initialized_, use_fixed_buffers_, free_indices_>>
       \/ /\ Head(cq).res >= 0
          /\ \E ok \in IF UseRegisteredBuffers /\ ~initialized_ THEN BOOLEAN ELSE {FALSE} :
                /\ use_fixed_buffers_' = ok
                /\ initialized_' = (initialized_ \/ ok)
                /\ submit_recv(recv_pending_, recv_buffer_, ok,
                               IF ok THEN [i \in 1 .. NumBuffers |-> i - 1] ELSE free_indices_)
    /\ UNCHANGED <<recv_buffer_, buf_idx>>

disconnect == /\ pc = "idle" /\ is_connected
              /\ state_' = "Disconnected"
              /\ UNCHANGED <<pc, ops, cq, submitted, recv_pending_, recv_buffer_, initialized_,
                             use_fixed_buffers_, free_indices_, buf_idx>>

\* send, and receive when recv_buffer_ is empty, submit and wait.
Call(kind) ==
    /\ pc = "idle" /\ is_connected
    /\ pc' = kind
    /\ buf_idx' = IF use_fixed_buffers_ THEN acquire ELSE -1
    /\ free_indices_' = Without(buf_idx')
    /\ submit(kind, buf_idx' # -1)
    /\ UNCHANGED <<state_, cq, recv_pending_, recv_buffer_, initialized_, use_fixed_buffers_>>

send == Call("send")

receive == recv_buffer_ = 0 /\ Call("recv")

receive_buffered == /\ pc = "idle" /\ is_connected /\ recv_buffer_ > 0
                    /\ \E n \in 1 .. recv_buffer_ : recv_buffer_' = recv_buffer_ - n
                    /\ UNCHANGED <<state_, pc, ops, cq, submitted, recv_pending_, initialized_,
                                   use_fixed_buffers_, free_indices_, buf_idx>>

\* ctx_.wait(&cqe): the call returns with the first completion there is.
call_done == /\ pc \in {"send", "recv"} /\ cq # <<>>
             /\ cq' = Tail(cq) /\ pc' = "idle"
             /\ free_indices_' = release(buf_idx) /\ buf_idx' = -1
             /\ UNCHANGED <<state_, ops, submitted, recv_pending_, recv_buffer_, initialized_,
                            use_fixed_buffers_>>

\* One turn of poll: process_cqe takes a positive result for the pending
\* receive's, commits that many bytes and submits the next receive.
poll == /\ pc = "idle" /\ cq # <<>>
        /\ cq' = Tail(cq)
        /\ \/ /\ recv_pending_ /\ Head(cq).res > 0
              /\ recv_buffer_' = Min({recv_buffer_ + Head(cq).res, RECV_BUFFER_SIZE})
              /\ submit_recv(FALSE, recv_buffer_', use_fixed_buffers_, free_indices_)
           \/ /\ ~recv_pending_ \/ Head(cq).res <= 0
              /\ UNCHANGED <<recv_pending_, recv_buffer_, free_indices_, ops, submitted>>
        /\ UNCHANGED <<state_, pc, initialized_, use_fixed_buffers_, buf_idx>>

Next == \/ connect \/ connect_done \/ disconnect \/ send \/ receive \/ receive_buffered
        \/ call_done \/ poll
        \/ \E o \in ops : complete(o)

Spec == Init /\ [][Next]_vars

\* send blocks until its data is written: once no call is waiting, no write is
\* in flight and none has a completion untaken (ITransport::send, "Send data
\* (blocking)").
SendBlocks ==
    pc = "idle" => /\ \A o \in ops : o.kind # "send"
                   /\ \A i \in DOMAIN cq : cq[i].kind # "send"
=============================================================================
