---- MODULE MessageAssembler ----
(***************************************************************************)
(* MessageAssembler (messages/common/trailer.hpp): a buffer of             *)
(* MAX_MESSAGE_SIZE bytes that fields are appended to.  Bytes that do not  *)
(* fit are dropped one by one, so a message that overflows ends in part of *)
(* a field (cut) or between two fields, and never has its trailer.         *)
(***************************************************************************)
EXTENDS FixText, FiniteSetsExt

CONSTANT MAX_MESSAGE_SIZE

Field(t, v) == [tag |-> t, v |-> v]

\* Bytes of tag=value<SOH>; BodyLength has six digits and CheckSum three.
FieldSize(f) == CASE f.tag = 9 -> 9
                  [] f.tag = 10 -> 7
                  [] OTHER -> Digits(Abs(f.tag)) + 1 + Width(f.v) + 1

SizeOf(fs) == SumFunction([i \in DOMAIN fs |-> FieldSize(fs[i])])

\* The sum that calculate_checksum takes modulo 256.
calculate_checksum(fs) == SumFunction([i \in DOMAIN fs |-> Abs(fs[i].tag) + ByteSum(fs[i].v)]) % 256

\* A plausible slip: a field that does not fit is left out as a whole.
append_field_skip(a, f) ==
    IF a.size + FieldSize(f) <= MAX_MESSAGE_SIZE + (IF f.tag = 10 THEN 7 ELSE 0)
    THEN [a EXCEPT !.fields = Append(@, f), !.size = @ + FieldSize(f)]
    ELSE [a EXCEPT !.truncated = TRUE]

append_field(a, f) ==
    IF a.size + FieldSize(f) <= MAX_MESSAGE_SIZE
    THEN [a EXCEPT !.fields = Append(@, f), !.size = @ + FieldSize(f)]
    ELSE [a EXCEPT !.cut = @ \/ a.size < MAX_MESSAGE_SIZE, !.size = MAX_MESSAGE_SIZE, !.truncated = TRUE]

\* start(begin_string): the previous message is forgotten.
start(begin_string) ==
    LET empty == [fields |-> <<>>, size |-> 0, cut |-> FALSE, truncated |-> FALSE]
    IN append_field(append_field(empty, Field(8, begin_string)), Field(9, Num(0)))

AppendAll(a, fs) == LET Step[i \in 0..Len(fs)] == IF i = 0 THEN a ELSE append_field(Step[i - 1], fs[i])
                    IN Step[Len(fs)]

\* finish(): BodyLength is patched when its placeholder is there, then the trailer is appended.
finish(a) ==
    LET head == SizeOf(SubSeq(a.fields, 1, 2))
        patched == IF Len(a.fields) < 2 THEN a ELSE [a EXCEPT !.fields[2].v = Num(a.size - head)]
    IN append_field(patched, Field(10, Num(calculate_checksum(patched.fields))))
====
