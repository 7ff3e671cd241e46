---- MODULE MessageCodec ----
(***************************************************************************)
(* What the message classes of messages/fix4x, fix50 and fixt11 have in    *)
(* common.  A Builder is a function from the tags of its members to their  *)
(* values; build() writes some of them always and some only when they are  *)
(* given; from_buffer() parses with IndexedParser, checks MsgType and the  *)
(* required fields in order, and reads the others.                         *)
(***************************************************************************)
EXTENDS RepeatingGroup, TLC

MaxEntries == 2                     \* bound: MAX_ENTRIES, MAX_SYMBOLS, MAX_ENTRY_TYPES

\* The C++ type of the member for a tag.
QtyTags == {38, 151, 14, 32, 110, 111, 271}
PriceTags == {44, 99, 6, 31, 270}
IntTags == {34, 7, 16, 36, 45, 371, 373, 98, 108, 103, 460, 264, 265, 267, 146, 268, 102, 434}
FlagTags == {43, 123, 141, 266}
CharTags == {35, 54, 40, 59, 21, 150, 39, 20, 263, 1128, 1137, 269, 279, 281}

Qty(raw) == Decimal(raw, QtyPlaces)
FixedPrice(raw) == Decimal(raw, PricePlaces)

\* Member defaults: of the Builders, and of the messages that from_buffer fills.
BuilderDefault(t) ==
    CASE t \in QtyTags -> Qty(0)
      [] t \in PriceTags -> FixedPrice(0)
      [] t \in {34, 7, 36, 45, 265} -> Num(1)
      [] t = 108 -> Num(30)
      [] t \in IntTags \ {34, 7, 36, 45, 265, 108} -> Num(0)
      [] t \in {54, 21, 263} -> Text("1")
      [] t = 40 -> Text("2")
      [] t \in {59, 150, 39, 20} -> Text("0")
      [] t = 1137 -> Text("7")
      [] t = 266 -> Text("Y")
      [] t \in FlagTags \ {266} -> Text("N")
      [] OTHER -> Empty

MessageDefault(t) ==
    CASE t = 434 -> Num(1)
      [] t \in IntTags \ {434} -> Num(0)
      [] t \in {54, 40} -> Text("1")
      [] t \in {59, 150, 39, 20} -> Text("0")
      [] t \in {1137, 1128} -> Text("7")
      [] t = 266 -> Text("Y")
      [] t = 281 -> Text("D")                       \* MDReqRejReason::Other
      [] t \in FlagTags \ {266} -> Text("N")
      [] OTHER -> Nul

-----------------------------------------------------------------------------
Builder(tags) == [t \in tags \cup {49, 56, 34, 52} |-> BuilderDefault(t)]
Unset(tags) == [t \in tags |-> Empty]

\* How MessageAssembler::field writes a member: quantities as whole numbers.
Put(b, t) == Field(t, CASE t \in QtyTags -> Num(whole(as_qty(b[t])))
                        [] t \in PriceTags -> price_text(as_price(b[t]))
                        [] OTHER -> b[t])

Always(b, ts) == [i \in DOMAIN ts |-> Put(b, ts[i])]

IsGiven(t, v) == CASE t \in QtyTags \cup IntTags -> v.n > 0
                   [] t \in PriceTags -> v.n # 0
                   [] t \in FlagTags -> v = Text("Y")
                   [] OTHER -> v \notin {Empty, Nul}

Given(b, ts) == Always(b, SelectSeq(ts, LAMBDA t : IsGiven(t, b[t])))
WhenSet(b, ts) == Always(b, SelectSeq(ts, LAMBDA t : b[t] # Empty))
If(cond, fs) == IF cond THEN fs ELSE <<>>

Header(b, type) == <<Field(35, Text(type))>> \o Always(b, <<49, 56, 34, 52>>)

\* A repeating group: its count and its entries, nothing when it is empty.
Group(count, es) ==
    LET Flat[i \in 0..Len(es)] == IF i = 0 THEN <<>> ELSE Flat[i - 1] \o es[i]
    IN If(es # <<>>, <<Field(count, Num(Len(es)))>> \o Flat[Len(es)])

\* start(), field() for each of fs, finish().
Assemble(begin_string, fs) == finish(AppendAll(start(begin_string), fs))

-----------------------------------------------------------------------------
\* How a parsed member is read from the table.
ReadMember(p, t) ==
    LET v == FieldTable_get(p.table, t)
        n == as_int(v)
    IN CASE t \in QtyTags -> Qty(as_qty(v))
         [] t \in PriceTags -> FixedPrice(as_price(v))
         [] t \in IntTags -> IF n = NoInt THEN MessageDefault(t) ELSE n
         [] t \in CharTags -> IF as_char(v) = Nul THEN MessageDefault(t) ELSE as_char(v)
         [] t \in FlagTags -> IF v = Empty THEN MessageDefault(t) ELSE Text(IF as_bool(v) THEN "Y" ELSE "N")
         [] OTHER -> v

\* What from_buffer takes for an absent required field.
Missing(p, t) ==
    LET v == FieldTable_get(p.table, t)
    IN CASE t \in QtyTags -> as_qty(v) = 0
         [] t \in IntTags -> as_int(v) = NoInt
         [] t \in CharTags -> as_char(v) = Nul
         [] OTHER -> v = Empty

HeaderMembers(p) == [t \in {49, 56, 34, 52} |-> p.header[t]] @@ (8 :> FieldTable_get(p.table, 8))

\* from_buffer: p is what IndexedParser made of the buffer.
Decode(p, type, required, optional) ==
    LET absent == {i \in DOMAIN required : Missing(p, required[i])}
    IN IF ~p.ok THEN p
       ELSE IF p.header[35] # Text(type) THEN Fail("InvalidMsgType", 35)
       ELSE IF absent # {} THEN Fail("MissingRequiredField", required[Min(absent)])
       ELSE [ok |-> TRUE,
             msg |-> HeaderMembers(p) @@ [t \in {required[i] : i \in DOMAIN required} \cup optional |-> ReadMember(p, t)]]

\* The orders' last checks: a limit order has a price, a stop order a stop price.
PriceChecked(d) ==
    IF ~d.ok THEN d
    ELSE IF d.msg[40] \in {Text("2"), Text("4")} /\ d.msg[44].n = 0 THEN Fail("MissingRequiredField", 44)
    ELSE IF d.msg[40] \in {Text("3"), Text("4")} /\ d.msg[99].n = 0 THEN Fail("MissingRequiredField", 99)
    ELSE d
====
