----------------------------- MODULE RingBuffer -----------------------------
(***************************************************************************)
(* transport/socket.hpp, RingBuffer: the receive and send buffers of a     *)
(* connection.  head_ and tail_ are size_t counters that are only masked   *)
(* on access and wrap at the width of the integer; io_uring fills the      *)
(* buffer in place, through write_span and commit_write.                   *)
(***************************************************************************)
EXTENDS Integers, Sequences

CONSTANTS Size,    \* a power of 2
          Width,   \* 2^w for counters of w bits, a multiple of Size
          Bytes    \* the number of different bytes

VARIABLES buffer_, head_, tail_,
          arriving,   \* the byte that arrives next (the peer's stream counts)
          queue       \* the bytes written and not yet consumed (history)

vars == <<buffer_, head_, tail_, arriving, queue>>

Init == /\ buffer_ = [i \in 0 .. (Size - 1) |-> 0]
        /\ head_ = 0 /\ tail_ = 0 /\ arriving = 0 /\ queue = <<>>

size == (tail_ - head_) % Width

available == Size - size

Least(a, b) == IF a < b THEN a ELSE b

\* The next n bytes of the stream.
Stream(n) == [i \in 1 .. n |-> (arriving + i - 1) % Bytes]

\* buffer_ with data stored from place i on, each place masked.
Stored(i, data) ==
    [j \in DOMAIN buffer_ |->
        LET k == ((j - i) % Size) + 1 IN IF k <= Len(data) THEN data[k] ELSE buffer_[j]]

Arrived(n) == /\ tail_' = (tail_ + n) % Width
              /\ arriving' = (arriving + n) % Bytes
              /\ queue' = queue \o Stream(n)
              /\ UNCHANGED head_

\* A write that does not look at the room.
Room_all(n) == n

Room(n) == Least(n, available)

\* write stores what fits.
write(n) == /\ buffer_' = Stored(tail_, Stream(Room(n)))
            /\ Arrived(Room(n))

\* The first n bytes, as read, peek and read_span's users see them.
peek(n) == [i \in 1 .. Least(n, size) |-> buffer_[(head_ + i - 1) % Size]]

Consumed(n) == /\ head_' = (head_ + n) % Width
               /\ queue' = SubSeq(queue, n + 1, Len(queue))
               /\ UNCHANGED <<buffer_, tail_, arriving>>

\* read and skip consume what is there.
read(n) == Consumed(Least(n, size))

skip(n) == Consumed(Least(n, size))

read_span ==
    LET start == head_ % Size
        end   == tail_ % Size
    IN  IF start < end THEN [at |-> start, len |-> end - start]
        ELSE IF size > 0 THEN [at |-> start, len |-> Size - start]
        ELSE [at |-> 0, len |-> 0]

write_span ==
    LET end == tail_ % Size
    IN  [at |-> end, len |-> IF end + available <= Size THEN available ELSE Size - end]

\* A receive fills n bytes of write_span, and commit_write(n) adds them.
receive(n) == /\ n <= write_span.len
              /\ buffer_' = Stored(write_span.at, Stream(n))
              /\ Arrived(Least(n, available))

clear == /\ head_' = 0 /\ tail_' = 0 /\ queue' = <<>>
         /\ UNCHANGED <<buffer_, arriving>>

Next == \/ clear
        \/ \E n \in 1 .. (Size + 1) : write(n) \/ read(n) \/ skip(n) \/ receive(n)

Spec == Init /\ [][Next]_vars

\* The buffer is a queue of at most Size bytes, also when the counters wrap:
\* the bytes come out in the order they went in, read_span is a front part
\* of them, and write_span is free room, empty only when there is none.
RingInOrder ==
    /\ size = Len(queue) /\ size <= Size
    /\ peek(Size) = queue
    /\ read_span.len <= size /\ (size > 0 => read_span.len > 0)
    /\ \A i \in 1 .. read_span.len : buffer_[read_span.at + i - 1] = queue[i]
    /\ write_span.len <= available /\ (available > 0 => write_span.len > 0)
    /\ write_span.at + write_span.len <= Size
=============================================================================
