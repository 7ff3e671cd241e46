------------------------------ MODULE SbeCodec ------------------------------
(***************************************************************************)
(* sbe/: the binary encoding of NewOrderSingle and ExecutionReport.  A     *)
(* codec is a view of a buffer: a header of 8 bytes, then fields at fixed  *)
(* offsets, written in any order and read in place.                        *)
(*                                                                         *)
(* One buffer is used for message after message, of either type, so that a *)
(* message starts over what the last one left.  A byte is a number below   *)
(* 256, a string a sequence of bytes, and an int64 the sequence of its     *)
(* eight bytes, lowest first, which is what memcpy stores.                 *)
(***************************************************************************)
EXTENDS Integers, SequencesExt

CONSTANTS Strings, Chars, Int64s,   \* values given to the fields
          MaxCalls                  \* bound on the calls of encoders

VARIABLES buffer,       \* bytes at 0 .. MAX_MESSAGE_SIZE - 1
          codec,        \* the codec whose encodeHeader was called last
          truncated_,   \* of that codec
          given,        \* given[f]: <<the value>> given to f since then, or <<>> (history)
          cut,          \* a string longer than its field was given since then (history)
          calls

vars == <<buffer, codec, truncated_, given, cut, calls>>

Field(kind, at, size) == [kind |-> kind, at |-> at, size |-> size]

NewOrderSingle ==
    [clOrdId |-> Field("string", 0, 20), symbol |-> Field("string", 20, 8),
     side |-> Field("char", 28, 1), ordType |-> Field("char", 29, 1),
     price |-> Field("int64", 32, 8), orderQty |-> Field("int64", 40, 8),
     transactTime |-> Field("int64", 48, 8)]

ExecutionReport ==
    [orderId |-> Field("string", 0, 20), execId |-> Field("string", 20, 20),
     clOrdId |-> Field("string", 40, 20), symbol |-> Field("string", 60, 8),
     side |-> Field("char", 68, 1), execType |-> Field("char", 69, 1), ordStatus |-> Field("char", 70, 1),
     price |-> Field("int64", 72, 8), orderQty |-> Field("int64", 80, 8),
     lastPx |-> Field("int64", 88, 8), lastQty |-> Field("int64", 96, 8),
     leavesQty |-> Field("int64", 104, 8), cumQty |-> Field("int64", 112, 8),
     avgPx |-> Field("int64", 120, 8), transactTime |-> Field("int64", 128, 8)]

HEADER_SIZE == 8

Codecs == [NewOrderSingle  |-> [fields |-> NewOrderSingle, TEMPLATE_ID |-> 1, BLOCK_LENGTH |-> 56],
           ExecutionReport |-> [fields |-> ExecutionReport, TEMPLATE_ID |-> 8, BLOCK_LENGTH |-> 136]]

TOTAL_SIZE(c) == HEADER_SIZE + Codecs[c].BLOCK_LENGTH

MAX_MESSAGE_SIZE == TOTAL_SIZE("ExecutionReport")

SCHEMA_ID == 1

SCHEMA_VERSION == 1

(***************************************************************************)
(* Bytes.                                                                  *)
(***************************************************************************)
uint16(n) == <<n % 256, n \div 256>>

read_uint16(b, at) == b[at] + 256 * b[at + 1]

\* b with the bytes s from at on.
Stored(b, at, s) == [i \in DOMAIN b |-> IF i \in at .. (at + Len(s) - 1) THEN s[i - at + 1] ELSE b[i]]

Bytes(b, at, n) == [i \in 1 .. n |-> b[at + i - 1]]

PADDING_CHAR == 32

Repeat(c, n) == [i \in 1 .. n |-> c]

Fits(value, n) == Len(value) <= n

\* FixedString<N>::encode without the padding.
FixedString_encode_unpadded(n, value) == IF Fits(value, n) THEN value ELSE SubSeq(value, 1, n)

\* FixedString<N>::encode: cut to n characters, or padded with spaces.
FixedString_encode(n, value) ==
    IF Fits(value, n) THEN value \o Repeat(PADDING_CHAR, n - Len(value)) ELSE SubSeq(value, 1, n)

\* FixedString<N>::decode: without the spaces at the end.
FixedString_decode(s) == SubSeq(s, 1, Max({0} \cup {i \in DOMAIN s : s[i] # PADDING_CHAR}))

FixedString_is_null(s) == \A i \in DOMAIN s : s[i] \in {PADDING_CHAR, 0}

(***************************************************************************)
(* Encoding.                                                               *)
(***************************************************************************)
Values(kind) == CASE kind = "string" -> Strings
                  [] kind = "char" -> {<<c>> : c \in Chars}
                  [] kind = "int64" -> Int64s

Init == /\ buffer = [i \in 0 .. (MAX_MESSAGE_SIZE - 1) |-> 255]
        /\ codec = "none" /\ truncated_ = FALSE
        /\ given = <<>> /\ cut = FALSE /\ calls = 0

\* MessageHeader::encodeHeader, then the body is cleared.
encodeHeader(c) ==
    /\ calls < MaxCalls
    /\ buffer' = Stored(buffer, 0, uint16(Codecs[c].BLOCK_LENGTH) \o uint16(Codecs[c].TEMPLATE_ID)
                                       \o uint16(SCHEMA_ID) \o uint16(SCHEMA_VERSION)
                                       \o Repeat(0, Codecs[c].BLOCK_LENGTH))
    /\ codec' = c /\ truncated_' = FALSE
    /\ given' = [f \in DOMAIN Codecs[c].fields |-> <<>>] /\ cut' = FALSE
    /\ calls' = calls + 1

\* The setter of field f.
set(f, value) ==
    LET field == Codecs[codec].fields[f]
        str   == field.kind = "string"
    IN  /\ calls < MaxCalls
        /\ buffer' = Stored(buffer, HEADER_SIZE + field.at,
                            IF str THEN FixedString_encode(field.size, value) ELSE value)
        /\ truncated_' = (truncated_ \/ (str /\ ~Fits(value, field.size)))
        /\ given' = [given EXCEPT ![f] = <<value>>]
        /\ cut' = (cut \/ Len(value) > field.size)
        /\ calls' = calls + 1
        /\ UNCHANGED codec

Next == \/ \E c \in DOMAIN Codecs : encodeHeader(c)
        \/ /\ codec # "none"
           /\ \E f \in DOMAIN Codecs[codec].fields :
                 \E value \in Values(Codecs[codec].fields[f].kind) : set(f, value)

Spec == Init /\ [][Next]_vars

(***************************************************************************)
(* Decoding: a codec c wrapped over the first n bytes of the buffer.       *)
(***************************************************************************)
isValid(c, n) == /\ n >= TOTAL_SIZE(c)
                 /\ read_uint16(buffer, 2) = Codecs[c].TEMPLATE_ID
                 /\ read_uint16(buffer, 0) = Codecs[c].BLOCK_LENGTH

validateSchema == read_uint16(buffer, 4) = SCHEMA_ID /\ read_uint16(buffer, 6) = SCHEMA_VERSION

\* The accessor of field f.
get(c, f) ==
    LET field == Codecs[c].fields[f]
        raw   == Bytes(buffer, HEADER_SIZE + field.at, field.size)
    IN  IF field.kind = "string" THEN FixedString_decode(raw) ELSE raw

\* The codec dispatch hands to its handler.
dispatch(n) ==
    IF n >= HEADER_SIZE /\ \E c \in DOMAIN Codecs : Codecs[c].TEMPLATE_ID = read_uint16(buffer, 2)
    THEN CHOOSE c \in DOMAIN Codecs : Codecs[c].TEMPLATE_ID = read_uint16(buffer, 2)
    ELSE "UnknownMessage"

(***************************************************************************)
(* Properties.                                                             *)
(***************************************************************************)
Lengths == {0, HEADER_SIZE - 1, HEADER_SIZE} \cup UNION {{TOTAL_SIZE(c) - 1, TOTAL_SIZE(c)} : c \in DOMAIN Codecs}

\* Whatever the buffer held and in whatever order the setters ran, each
\* accessor returns the last value its setter was given, cut to the field's
\* width and without spaces at its end; a field that was not set since
\* encodeHeader is null or zero; truncated() tells whether anything was cut;
\* and the message is valid for its own codec alone, at the lengths that hold
\* it, and dispatched to it (NewOrderSingleCodec, ExecutionReportCodec,
\* MessageHeader, FixedString, dispatch).
SbeExact ==
    codec # "none" =>
        /\ \A f \in DOMAIN Codecs[codec].fields :
              LET field == Codecs[codec].fields[f]
              IN  CASE given[f] = <<>> /\ field.kind = "string" -> FixedString_is_null(get(codec, f))
                    [] given[f] = <<>> /\ field.kind # "string" -> get(codec, f) = Repeat(0, field.size)
                    [] given[f] # <<>> /\ field.kind # "string" -> get(codec, f) = given[f][1]
                    [] OTHER -> /\ IsPrefix(get(codec, f), given[f][1])
                                /\ \A i \in (Len(get(codec, f)) + 1) .. Len(given[f][1]) :
                                      i > field.size \/ given[f][1][i] = PADDING_CHAR
        /\ truncated_ = cut
        /\ validateSchema
        /\ \A n \in Lengths :
              /\ \A c \in DOMAIN Codecs : isValid(c, n) <=> c = codec /\ n >= TOTAL_SIZE(c)
              /\ dispatch(n) = IF n < HEADER_SIZE THEN "UnknownMessage" ELSE codec
=============================================================================
