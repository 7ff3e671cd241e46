----------------------------- MODULE SocketBridge -----------------------------
(***************************************************************************)
(* SocketBridge (engine/socket_bridge.hpp): the bytes of a connection      *)
(* arrive in any portions, are kept in a buffer, and are handed to the     *)
(* session message by message.                                             *)
(*                                                                         *)
(* frames is what the peer sends on this connection, one message after the *)
(* other: a frame is its tokens and whether its BodyLength is right.       *)
(* received counts the tokens read from the socket and delivered lists the *)
(* messages handed to the session, as pairs of places in the stream.       *)
(* buffer_ holds the place in the stream of the token in each cell.        *)
(***************************************************************************)
EXTENDS StreamParser, SequencesExt

CONSTANTS
  BufferSize,    \* the template parameter
  FrameLists     \* what a peer may send on one connection

ASSUME BridgeAssumption == BufferSize \in Nat \ {0}

VARIABLES frames, received, buffer, read_pos, write_pos, delivered, socket

vars == <<frames, received, buffer, read_pos, write_pos, delivered, socket>>

Stream == FlattenSeq([n \in 1 .. Len(frames) |-> frames[n].tokens])

Empty == [p \in 0 .. (BufferSize - 1) |-> 0]

Init ==
  /\ frames \in FrameLists
  /\ received = 0 /\ buffer = Empty /\ read_pos = 0 /\ write_pos = 0
  /\ delivered = <<>> /\ socket = "connected"

-----------------------------------------------------------------------------
(* The cells from..to-1 of a buffer, as tokens.                             *)
Contents(buf, from, to) == [n \in 1 .. (to - from) |-> Stream[buf[from + n - 1]]]

(* The loop of drain_buffered(): read_pos and the messages handed over when *)
(* feed() consumes nothing more.                                            *)
RECURSIVE Dispatch(_, _, _, _)
Dispatch(buf, from, to, done) ==
  LET fed  == feed(Contents(buf, from, to))
      msgs == [n \in 1 .. Len(fed.pending) |->
                 <<buf[from + fed.pending[n][1] - 1], buf[from + fed.pending[n][2] - 1]>>]
  IN IF from = to \/ fed.consumed = 0 THEN [read_pos |-> from, delivered |-> done]
     ELSE Dispatch(buf, from + fed.consumed, to, done \o msgs)

(* Mutant: the buffer is moved down only when it is used up.                *)
Compacts_late(from, to) == from >= BufferSize

Compacts(from, to) == from > BufferSize \div 2

(* Mutant: one token less is moved.                                         *)
Moved_short(buf, from, to) ==
  [p \in DOMAIN buf |-> IF p < to - from - 1 THEN buf[p + from] ELSE buf[p]]

(* memmove() of what is left to the front.                                  *)
Moved(buf, from, to) ==
  [p \in DOMAIN buf |-> IF p < to - from THEN buf[p + from] ELSE buf[p]]

drain_buffered(buf, to) ==
  LET r    == Dispatch(buf, read_pos, to, delivered)
      from == r.read_pos
  IN /\ delivered' = r.delivered
     /\ \/ /\ from = to
           /\ read_pos' = 0 /\ write_pos' = 0 /\ buffer' = buf
        \/ /\ from # to /\ Compacts(from, to)
           /\ read_pos' = 0 /\ write_pos' = to - from /\ buffer' = Moved(buf, from, to)
        \/ /\ from # to /\ ~Compacts(from, to)
           /\ read_pos' = from /\ write_pos' = to /\ buffer' = buf

(* poll_once() with data: any portion that fits is read.                    *)
Poll ==
  /\ socket = "connected" /\ write_pos < BufferSize
  /\ \E n \in 1 .. Len(Stream) - received :
       /\ write_pos + n <= BufferSize
       /\ received' = received + n
       /\ LET buf == [p \in DOMAIN buffer |->
                        IF p \in write_pos .. (write_pos + n - 1)
                        THEN received + p - write_pos + 1 ELSE buffer[p]]
          IN drain_buffered(buf, write_pos + n)
  /\ UNCHANGED <<frames, socket>>

(* poll_once() when the peer has closed: recv() says so, if it is called.   *)
PollClosed ==
  /\ socket = "connected" /\ write_pos < BufferSize /\ received = Len(Stream)
  /\ socket' = "closed"
  /\ drain_buffered(buffer, write_pos)
  /\ UNCHANGED <<frames, received>>

(* The connection is lost, perhaps inside a message; another is made and    *)
(* has a bridge of its own.                                                 *)
Reconnect ==
  /\ received' = 0 /\ buffer' = Empty /\ read_pos' = 0 /\ write_pos' = 0
  /\ delivered' = <<>> /\ socket' = "connected"
  /\ UNCHANGED frames

Next == Poll \/ PollClosed \/ Reconnect

Spec == Init /\ [][Next]_vars

-----------------------------------------------------------------------------
(* The places of the stream where frame n begins and ends.                  *)
EndOf(n) == FoldLeft(LAMBDA sum, f : sum + Len(f.tokens), 0, SubSeq(frames, 1, n))
StartOf(n) == EndOf(n - 1) + 1

(* The sound messages that have arrived to the last token.                  *)
Arrived ==
  LET whole == SelectSeq([n \in 1 .. Len(frames) |-> n],
                         LAMBDA n : frames[n].sound /\ EndOf(n) <= received)
  IN [k \in 1 .. Len(whole) |-> <<StartOf(whole[k]), EndOf(whole[k])>>]

(* In whatever portions the bytes arrive, the session has been given        *)
(* exactly the sound messages that are complete, in order and each as soon  *)
(* as its last byte is there; those with a wrong BodyLength are skipped.    *)
DeliveredOnArrival == delivered = Arrived

(* What lies between the two positions is the part of the stream received   *)
(* last, without a hole, over all moves of the buffer.                      *)
BufferInOrder ==
  /\ read_pos <= write_pos /\ write_pos <= BufferSize
  /\ \A p \in read_pos .. (write_pos - 1) : buffer[p] = received - (write_pos - 1 - p)

(* The buffer never fills with the front of a message, after which nothing  *)
(* more would be read, not even the end of the connection: there is room    *)
(* for the next read as long as no message is longer than half of it.       *)
RoomToRead == write_pos < BufferSize
=============================================================================
