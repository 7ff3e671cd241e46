----------------------------- MODULE StreamParser -----------------------------
(***************************************************************************)
(* Framing: find_message_boundary (parser/simd_scanner.hpp) and            *)
(* StreamParser::feed (parser/runtime_parser.hpp).                         *)
(*                                                                         *)
(* A stream is a sequence of tokens, the pieces of text the scanner tells  *)
(* apart: Begin is "8=FIX.x.y", Length(n) is "<SOH>9=n<SOH>", Trailer is   *)
(* "<SOH>10=", End is "ccc<SOH>" and Text is anything else.  A token that  *)
(* has arrived in part is to the scanner as one that has not: it asks for  *)
(* the end of each before it takes it.  BodyLength counts the tokens       *)
(* between the Length field and the trailer.                               *)
(***************************************************************************)
EXTENDS Integers, Sequences, FiniteSetsExt

CONSTANTS
  MAX_MESSAGE_SIZE,   \* how far a trailer is looked for
  MAX_PENDING         \* messages one feed() may find

ASSUME ParserAssumption == MAX_MESSAGE_SIZE \in Nat /\ MAX_PENDING \in Nat \ {0}

Token(kind, n) == [kind |-> kind, n |-> n]

Begin == Token("begin", 0)
Trailer == Token("trailer", 0)
End == Token("end", 0)
Text == Token("text", 0)
Length(n) == Token("length", n)

(* The first of a set of positions, or none when there is none.             *)
FirstOf(S, none) == IF S = {} THEN none ELSE Min(S)

-----------------------------------------------------------------------------
(* Positions count from 1 and an end is the last position of a message,     *)
(* which is the code's end offset.                                          *)

Complete(start, end) == [start |-> start, end |-> end, complete |-> TRUE, corrupt |-> FALSE]
Corrupt(start, end) == [start |-> start, end |-> end, complete |-> FALSE, corrupt |-> TRUE]
Incomplete == [start |-> 0, end |-> 0, complete |-> FALSE, corrupt |-> FALSE]

(* The trailers of data that have arrived with their checksum.              *)
Candidates(data, start, limit) ==
  {p \in (start + 1) .. (limit - 1) : data[p] = Trailer /\ data[p + 1] = End}

(* Mutant: BodyLength is not compared.                                      *)
LengthMatches_unchecked(data, start, limit, p) == TRUE

LengthMatches(data, start, limit, p) ==
  LET fields == {j \in start .. limit : data[j].kind = "length"}
  IN fields = {} \/ data[Min(fields)].n = p - Min(fields) - 1

(* The first message of data: at the first trailer that fits the declared   *)
(* length.  If there are only trailers that do not fit, the first of them   *)
(* ends a frame to be skipped.                                              *)
find_message_boundary(data) ==
  LET start  == FirstOf({p \in DOMAIN data : data[p] = Begin}, 0)
      limit  == IF start - 1 + MAX_MESSAGE_SIZE < Len(data)
                THEN start - 1 + MAX_MESSAGE_SIZE ELSE Len(data)
      all    == Candidates(data, start, limit)
      fit    == {p \in all : LengthMatches(data, start, limit, p)}
  IN IF start = 0 THEN Incomplete
     ELSE IF fit # {} THEN Complete(start, Min(fit) + 1)
     ELSE IF all # {} THEN Corrupt(start, Min(all) + 1)
     ELSE Incomplete

(* feed(): the messages at the front of data, as pairs of offsets, and the  *)
(* number of tokens consumed.  No more than MAX_PENDING are kept.           *)
RECURSIVE FeedFrom(_, _, _)
FeedFrom(data, consumed, pending) ==
  LET rest     == SubSeq(data, consumed + 1, Len(data))
      boundary == find_message_boundary(rest)
      found    == <<consumed + boundary.start, consumed + boundary.end>>
  IN IF consumed = Len(data) \/ Len(pending) >= MAX_PENDING
     THEN [consumed |-> consumed, pending |-> pending]
     ELSE IF boundary.complete
     THEN FeedFrom(data, found[2], Append(pending, found))
     ELSE IF boundary.corrupt THEN FeedFrom(data, found[2], pending)
     ELSE [consumed |-> consumed, pending |-> pending]

feed(data) == FeedFrom(data, 0, <<>>)
=============================================================================
