---------------------------- MODULE BoundedFifo ----------------------------
(***************************************************************************)
(* What the queues of memory/ promise: a first-in first-out queue of at    *)
(* most Bound items.  queue holds the items not yet taken, taken the last  *)
(* item a consumer got.                                                    *)
(***************************************************************************)
EXTENDS Naturals, Sequences

CONSTANTS Items, Bound, None

VARIABLES queue, taken

vars == <<queue, taken>>

Init == queue = <<>> /\ taken = None

Push(v) ==
  /\ Len(queue) < Bound
  /\ queue' = Append(queue, v)
  /\ UNCHANGED taken

Pop ==
  /\ queue # <<>>
  /\ taken' = Head(queue)
  /\ queue' = Tail(queue)

Next == Pop \/ \E v \in Items : Push(v)

Spec == Init /\ [][Next]_vars
=============================================================================
