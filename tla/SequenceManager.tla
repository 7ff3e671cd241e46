--------------------------- MODULE SequenceManager ---------------------------
(***************************************************************************)
(* The sequence numbers of a session (session/sequence.hpp).  A manager is *)
(* a pair of unsigned 32-bit counters; here each operation is a function   *)
(* of the counter it reads.  Outbound numbers wrap at MAX_SEQ_NUM, the     *)
(* inbound expectation only at the width of the integer.                   *)
(*                                                                         *)
(* A sequence number (SeqNum, types/field_types.hpp) is one of             *)
(* 1 .. MAX_SEQ_NUM, held in an unsigned integer of UINT32 values.         *)
(***************************************************************************)
EXTENDS Integers

CONSTANTS
  MAX_SEQ_NUM,   \* SeqNum::MAX_VALUE, 2^31 - 1 in the code
  UINT32         \* number of values of uint32_t, 2^32 in the code

ASSUME SeqNumAssumption ==
  /\ MAX_SEQ_NUM \in Nat
  /\ UINT32 \in Nat
  /\ 1 < MAX_SEQ_NUM
  /\ MAX_SEQ_NUM < UINT32

INITIAL_SEQ_NUM == 1

UINT32_MAX == UINT32 - 1

SeqNums == INITIAL_SEQ_NUM .. MAX_SEQ_NUM

Words == 0 .. UINT32_MAX

-----------------------------------------------------------------------------
(* The counter after next_outbound(), which returns the number before it.   *)
next_outbound(n) == IF n >= MAX_SEQ_NUM THEN INITIAL_SEQ_NUM ELSE n + 1

(* Mutant: a rollback that forgets the wrap.                                *)
rollback_without_wrap(n) == n - 1

(* The counter after rollback_outbound().                                   *)
rollback_outbound(n) == IF n <= INITIAL_SEQ_NUM THEN MAX_SEQ_NUM ELSE n - 1

(* validate_inbound(received): the verdict, and the expectation after it.   *)
SequenceResult(expected, received) ==
  CASE received = expected -> "Ok"
    [] received > expected -> "GapDetected"
    [] OTHER -> "TooLow"

(* Mutant: the expectation advances twice.                                  *)
validate_inbound_twice(expected, received) ==
  IF received = expected THEN (expected + 2) % UINT32 ELSE expected

validate_inbound(expected, received) ==
  IF received = expected THEN (expected + 1) % UINT32 ELSE expected

gap_range(expected, received) ==
  IF received > expected THEN <<expected, received - 1>> ELSE <<0, 0>>
=============================================================================
