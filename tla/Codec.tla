---- MODULE Codec ----
(***************************************************************************)
(* The message classes at work: an application fills the Builder of one    *)
(* class and builds a message into an assembler; a peer may write the same *)
(* message differently (fields repeated, moved, left out or added, with a  *)
(* correct length and checksum), and the line may damage it.  What the     *)
(* three parsers and the classes' from_buffer make of the message is       *)
(* stated by the properties.                                               *)
(***************************************************************************)
EXTENDS Messages50

CONSTANTS Values(_),        \* the values an application may give to a member
          MaxSets           \* bound: setter calls besides the complete filling

VARIABLES c,                \* the message class
          b,                \* its Builder's members
          es,               \* its Builder's group entries
          sets,             \* setter calls so far
          wire,             \* the message: fields, cut, truncated
          from              \* who made it last: "none", "builder", "peer" or "line"

vars == <<c, b, es, sets, wire, from>>

\* The Builders of all classes; of the last three only a peer's messages are read.
Builders == [
    fix44_Heartbeat |-> fix44_Heartbeat_Builder,
    fix44_TestRequest |-> fix44_TestRequest_Builder,
    fix44_ResendRequest |-> fix44_ResendRequest_Builder,
    fix44_SequenceReset |-> fix44_SequenceReset_Builder,
    fix44_Reject |-> fix44_Reject_Builder,
    fix44_Logon |-> fix44_Logon_Builder,
    fix44_Logout |-> fix44_Logout_Builder,
    fix44_NewOrderSingle |-> fix44_NewOrderSingle_Builder,
    fix44_OrderCancelRequest |-> fix44_OrderCancelRequest_Builder,
    fix44_OrderCancelReplaceRequest |-> fix44_OrderCancelReplaceRequest_Builder,
    fix44_OrderStatusRequest |-> fix44_OrderStatusRequest_Builder,
    fix44_ExecutionReport |-> fix44_ExecutionReport_Builder,
    fix44_MarketDataRequest |-> fix44_MarketDataRequest_Builder,
    fix44_MarketDataSnapshotFullRefresh |-> fix44_MarketDataSnapshotFullRefresh_Builder,
    fix44_MarketDataIncrementalRefresh |-> fix44_MarketDataIncrementalRefresh_Builder,
    fix42_ExecutionReport |-> fix42_ExecutionReport_Builder,
    fix42_NewOrderSingle |-> fix42_NewOrderSingle_Builder,
    fix42_OrderCancelRequest |-> fix42_OrderCancelRequest_Builder,
    fix43_ExecutionReport |-> fix43_ExecutionReport_Builder,
    fix43_NewOrderSingle |-> fix43_NewOrderSingle_Builder,
    fix43_OrderCancelRequest |-> fix43_OrderCancelRequest_Builder,
    fix43_MarketDataRequest |-> fix43_MarketDataRequest_Builder,
    fix43_MarketDataSnapshotFullRefresh |-> fix43_MarketDataSnapshotFullRefresh_Builder,
    fix50_NewOrderSingle |-> fix50_NewOrderSingle_Builder,
    fix50_OrderCancelRequest |-> fix50_OrderCancelRequest_Builder,
    fix50_ExecutionReport |-> fix50_ExecutionReport_Builder,
    fixt11_Logon |-> fixt11_Logon_Builder,
    fixt11_Logout |-> fixt11_Logout_Builder,
    fixt11_Heartbeat |-> fixt11_Heartbeat_Builder,
    fixt11_TestRequest |-> fixt11_TestRequest_Builder,
    fixt11_ResendRequest |-> fixt11_ResendRequest_Builder,
    fixt11_SequenceReset |-> fixt11_SequenceReset_Builder,
    fixt11_Reject |-> fixt11_Reject_Builder,
    fix44_OrderCancelReject |-> Builder({37, 11, 41, 39, 434, 102, 58}),
    fix44_MarketDataRequestReject |-> Builder({262, 281, 58}),
    fix50_OrderCancelReject |-> Unset({1128}) @@ Builder({37, 11, 41, 39, 434, 102, 58})]

build(k, m, g) ==
    CASE k = "fix44_Heartbeat" -> fix44_Heartbeat_build(m, g)
      [] k = "fix44_TestRequest" -> fix44_TestRequest_build(m, g)
      [] k = "fix44_ResendRequest" -> fix44_ResendRequest_build(m, g)
      [] k = "fix44_SequenceReset" -> fix44_SequenceReset_build(m, g)
      [] k = "fix44_Reject" -> fix44_Reject_build(m, g)
      [] k = "fix44_Logon" -> fix44_Logon_build(m, g)
      [] k = "fix44_Logout" -> fix44_Logout_build(m, g)
      [] k = "fix44_NewOrderSingle" -> fix44_NewOrderSingle_build(m, g)
      [] k = "fix44_OrderCancelRequest" -> fix44_OrderCancelRequest_build(m, g)
      [] k = "fix44_OrderCancelReplaceRequest" -> fix44_OrderCancelReplaceRequest_build(m, g)
      [] k = "fix44_OrderStatusRequest" -> fix44_OrderStatusRequest_build(m, g)
      [] k = "fix44_ExecutionReport" -> fix44_ExecutionReport_build(m, g)
      [] k = "fix44_MarketDataRequest" -> fix44_MarketDataRequest_build(m, g)
      [] k = "fix44_MarketDataSnapshotFullRefresh" -> fix44_MarketDataSnapshotFullRefresh_build(m, g)
      [] k = "fix44_MarketDataIncrementalRefresh" -> fix44_MarketDataIncrementalRefresh_build(m, g)
      [] k = "fix42_ExecutionReport" -> fix42_ExecutionReport_build(m, g)
      [] k = "fix42_NewOrderSingle" -> fix42_NewOrderSingle_build(m, g)
      [] k = "fix42_OrderCancelRequest" -> fix42_OrderCancelRequest_build(m, g)
      [] k = "fix43_ExecutionReport" -> fix43_ExecutionReport_build(m, g)
      [] k = "fix43_NewOrderSingle" -> fix43_NewOrderSingle_build(m, g)
      [] k = "fix43_OrderCancelRequest" -> fix43_OrderCancelRequest_build(m, g)
      [] k = "fix43_MarketDataRequest" -> fix43_MarketDataRequest_build(m, g)
      [] k = "fix43_MarketDataSnapshotFullRefresh" -> fix43_MarketDataSnapshotFullRefresh_build(m, g)
      [] k = "fix50_NewOrderSingle" -> fix50_NewOrderSingle_build(m, g)
      [] k = "fix50_OrderCancelRequest" -> fix50_OrderCancelRequest_build(m, g)
      [] k = "fix50_ExecutionReport" -> fix50_ExecutionReport_build(m, g)
      [] k = "fixt11_Logon" -> fixt11_Logon_build(m, g)
      [] k = "fixt11_Logout" -> fixt11_Logout_build(m, g)
      [] k = "fixt11_Heartbeat" -> fixt11_Heartbeat_build(m, g)
      [] k = "fixt11_TestRequest" -> fixt11_TestRequest_build(m, g)
      [] k = "fixt11_ResendRequest" -> fixt11_ResendRequest_build(m, g)
      [] k = "fixt11_SequenceReset" -> fixt11_SequenceReset_build(m, g)
      [] k = "fixt11_Reject" -> fixt11_Reject_build(m, g)
      [] k = "fix44_OrderCancelReject" -> Assemble(FIX_4_4, Header(m, "9") \o WhenSet(m, <<37, 11, 41, 39, 434, 102, 58>>))
      [] k = "fix44_MarketDataRequestReject" -> Assemble(FIX_4_4, Header(m, "Y") \o WhenSet(m, <<262, 281, 58>>))
      [] k = "fix50_OrderCancelReject" ->
           Assemble(FIXT_1_1, Header(m, "9") \o WhenSet(m, <<1128, 37, 11, 41, 39, 434, 102, 58>>))

ReadAs(k, p) ==
    CASE k = "fix44_Heartbeat" -> fix44_Heartbeat_from_buffer(p)
      [] k = "fix44_TestRequest" -> fix44_TestRequest_from_buffer(p)
      [] k = "fix44_ResendRequest" -> fix44_ResendRequest_from_buffer(p)
      [] k = "fix44_SequenceReset" -> fix44_SequenceReset_from_buffer(p)
      [] k = "fix44_Reject" -> fix44_Reject_from_buffer(p)
      [] k = "fix44_Logon" -> fix44_Logon_from_buffer(p)
      [] k = "fix44_Logout" -> fix44_Logout_from_buffer(p)
      [] k = "fix44_NewOrderSingle" -> fix44_NewOrderSingle_from_buffer(p)
      [] k = "fix44_OrderCancelRequest" -> fix44_OrderCancelRequest_from_buffer(p)
      [] k = "fix44_OrderCancelReplaceRequest" -> fix44_OrderCancelReplaceRequest_from_buffer(p)
      [] k = "fix44_OrderStatusRequest" -> fix44_OrderStatusRequest_from_buffer(p)
      [] k = "fix44_ExecutionReport" -> fix44_ExecutionReport_from_buffer(p)
      [] k = "fix44_MarketDataSnapshotFullRefresh" -> fix44_MarketDataSnapshotFullRefresh_from_buffer(p)
      [] k = "fix44_MarketDataIncrementalRefresh" -> fix44_MarketDataIncrementalRefresh_from_buffer(p)
      [] k = "fix42_ExecutionReport" -> fix42_ExecutionReport_from_buffer(p)
      [] k = "fix42_NewOrderSingle" -> fix42_NewOrderSingle_from_buffer(p)
      [] k = "fix42_OrderCancelRequest" -> fix42_OrderCancelRequest_from_buffer(p)
      [] k = "fix43_ExecutionReport" -> fix43_ExecutionReport_from_buffer(p)
      [] k = "fix43_NewOrderSingle" -> fix43_NewOrderSingle_from_buffer(p)
      [] k = "fix43_OrderCancelRequest" -> fix43_OrderCancelRequest_from_buffer(p)
      [] k = "fix43_MarketDataRequest" -> fix43_MarketDataRequest_from_buffer(p)
      [] k = "fix43_MarketDataSnapshotFullRefresh" -> fix43_MarketDataSnapshotFullRefresh_from_buffer(p)
      [] k = "fix50_NewOrderSingle" -> fix50_NewOrderSingle_from_buffer(p)
      [] k = "fix50_OrderCancelRequest" -> fix50_OrderCancelRequest_from_buffer(p)
      [] k = "fix50_ExecutionReport" -> fix50_ExecutionReport_from_buffer(p)
      [] k = "fixt11_Logon" -> fixt11_Logon_from_buffer(p)
      [] k = "fixt11_Logout" -> fixt11_Logout_from_buffer(p)
      [] k = "fixt11_Heartbeat" -> fixt11_Heartbeat_from_buffer(p)
      [] k = "fixt11_TestRequest" -> fixt11_TestRequest_from_buffer(p)
      [] k = "fixt11_ResendRequest" -> fixt11_ResendRequest_from_buffer(p)
      [] k = "fixt11_SequenceReset" -> fixt11_SequenceReset_from_buffer(p)
      [] k = "fixt11_Reject" -> fixt11_Reject_from_buffer(p)
      [] k = "fix44_OrderCancelReject" -> fix44_OrderCancelReject_from_buffer(p)
      [] k = "fix44_MarketDataRequestReject" -> fix44_MarketDataRequestReject_from_buffer(p)
      [] k = "fix50_OrderCancelReject" -> fix50_OrderCancelReject_from_buffer(p)
      [] k = "fix44_MarketDataRequest" -> fix43_MarketDataRequest_from_buffer(p)     \* has none of its own

from_buffer(k, m) == ReadAs(k, IndexedParser_parse(m, FALSE))

-----------------------------------------------------------------------------
Nothing == [fields |-> <<>>, size |-> 0, cut |-> FALSE, truncated |-> FALSE]

\* The members of a Builder that was filled completely.
Filled(m) == [t \in DOMAIN m |->
                CASE t \in QtyTags -> Qty(20000)
                  [] t \in PriceTags -> FixedPrice(150000000)
                  [] t \in IntTags -> Num(3)
                  [] t \in {40, 150} -> Text("4")
                  [] t \in CharTags \ {40, 150} -> Text("1")
                  [] t \in FlagTags -> Text("Y")
                  [] t = 8 -> m[8]
                  [] OTHER -> Text("A")]

Init == /\ c \in DOMAIN Builders
        /\ b = Builders[c]
        /\ es = [g \in GROUP_COUNT_TAGS |-> <<>>]
        /\ sets = 0
        /\ wire = Nothing
        /\ from = "none"

\* Every setter is called.
Fill == /\ from = "none" /\ sets = 0 /\ b # Filled(b)
        /\ b' = Filled(b)
        /\ UNCHANGED <<c, es, sets, wire, from>>

\* One setter is called.
Set(t, v) == /\ from = "none" /\ sets < MaxSets
             /\ t \in DOMAIN b /\ b[t] # v
             /\ b' = [b EXCEPT ![t] = v]
             /\ sets' = sets + 1
             /\ UNCHANGED <<c, es, wire, from>>

\* add_entry_type, add_symbol, add_entry: an entry that has no room is ignored.
GroupOf(k, g) == CASE k \in {"fix44_MarketDataRequest", "fix43_MarketDataRequest"} -> g \in {267, 146}
                   [] k \in {"fix44_MarketDataSnapshotFullRefresh", "fix43_MarketDataSnapshotFullRefresh",
                             "fix44_MarketDataIncrementalRefresh"} -> g = 268
                   [] OTHER -> FALSE

Entry(k, g, x) == CASE g = 267 -> EntryType(Text(x))
                    [] g = 146 -> RelatedSymbol(Text(x))
                    [] g = 268 /\ k # "fix44_MarketDataIncrementalRefresh" ->
                         SnapshotEntry(Text(x), FixedPrice(150000000), Qty(20000))
                    [] OTHER -> IncrementalEntry(Text("1"), Text(x), IF x = "1" THEN Text("A") ELSE Empty,
                                                 FixedPrice(150000000), Qty(20000))

\* A slip: the array's bound is not checked.
add_entry_unbounded(g, x) == /\ from = "none" /\ GroupOf(c, g)
                             /\ es' = [es EXCEPT ![g] = Append(@, Entry(c, g, x))]
                             /\ UNCHANGED <<c, b, sets, wire, from>>

add_entry(g, x) == /\ from = "none" /\ GroupOf(c, g)
                   /\ es' = IF Len(es[g]) < MaxEntries THEN [es EXCEPT ![g] = Append(@, Entry(c, g, x))] ELSE es
                   /\ UNCHANGED <<c, b, sets, wire, from>>

Build == /\ from = "none"
         /\ wire' = build(c, b, es)
         /\ from' = "builder"
         /\ UNCHANGED <<c, b, es, sets>>

-----------------------------------------------------------------------------
\* A peer's form of the message: other body fields, with the right length and checksum.
Body == SubSeq(wire.fields, 3, Len(wire.fields) - 1)
Without(fs, i) == SubSeq(fs, 1, i - 1) \o SubSeq(fs, i + 1, Len(fs))
Insert(fs, i, f) == SubSeq(fs, 1, i - 1) \o <<f>> \o SubSeq(fs, i, Len(fs))

OtherForms ==
    LET n == Len(Body)
    IN   {Without(Body, i) : i \in 1..n}
    \cup {Insert(Body, j, Body[i]) : i \in 1..n, j \in {6, n + 1}}
    \cup {Insert(Body, j, [Body[i] EXCEPT !.v = Text("B")]) : i \in 1..n, j \in {2, n + 1}}
    \cup {Insert(Without(Body, n), i, Body[n]) : i \in 1..(n - 1)}
    \cup {Insert(Body, j, Field(t, Text("B"))) : t \in {0, BadTag, 10, 43, 511, 512, 5000}, j \in {6, n + 1}}
    \cup {Body \o <<Field(5000, Text("A")), Field(5001, Text("A")), Field(5002, Text("A")), Field(t, Text("B"))>> :
            t \in {5000, 5003}}
    \cup {[Body EXCEPT ![1].v = Text("AE")], [Body EXCEPT ![4].v = Num(WORD)], [Body EXCEPT ![4].v = Num(WORD + 3)]}

\* A BodyLength that is right modulo 2^32, with the right checksum.
LongLength ==
    LET fs == [wire.fields EXCEPT ![2].v.n = @ + WORD]
        n == Len(fs)
    IN [wire EXCEPT !.fields = [fs EXCEPT ![n].v = Num(calculate_checksum(SubSeq(fs, 1, n - 1)))]]

Pristine == from = "builder" /\ ~wire.truncated /\ sets = 0 /\ b = Filled(b)

PeerForm == /\ Pristine
            /\ wire' \in {Assemble(wire.fields[1].v, fs) : fs \in OtherForms} \cup {LongLength}
            /\ from' = "peer"
            /\ UNCHANGED <<c, b, es, sets>>

\* One field is lost, repeated or altered in one byte on the line.
Damaged(fs, i) == {Without(fs, i), Insert(fs, i, fs[i])}
                  \cup (IF fs[i].v.s \in {"A", "1"} THEN {[fs EXCEPT ![i].v = Text("B")]} ELSE {})
                  \cup (IF fs[i].v.s = "#" /\ fs[i].v.n > 0 THEN {[fs EXCEPT ![i].v.n = @ - 1]} ELSE {})

Damage(i) == /\ Pristine /\ i \in DOMAIN wire.fields
             /\ \E fs \in Damaged(wire.fields, i) : wire' = [wire EXCEPT !.fields = fs]
             /\ from' = "line"
             /\ UNCHANGED <<c, b, es, sets>>

\* The last field loses its SOH, or more.
Cut == /\ Pristine
       /\ wire' = [wire EXCEPT !.fields = Without(@, Len(@)), !.cut = TRUE]
       /\ from' = "line"
       /\ UNCHANGED <<c, b, es, sets>>

Next == \/ Fill
        \/ \E t \in DOMAIN b : \E v \in Values(t) : Set(t, v)
        \/ \E g \in GROUP_COUNT_TAGS, x \in {"0", "1"} : add_entry(g, x)
        \/ Build
        \/ PeerForm
        \/ \E i \in 1..Len(wire.fields) : Damage(i)
        \/ Cut

Spec == Init /\ [][Next]_vars

-----------------------------------------------------------------------------
(* Properties *)

\* The Builder's members, the message and its maker have the types declared above.
TypeOK ==
    /\ c \in DOMAIN Builders
    /\ DOMAIN b = DOMAIN Builders[c]
    /\ \A g \in GROUP_COUNT_TAGS : Len(es[g]) <= MaxEntries
    /\ sets \in 0..MaxSets
    /\ from \in {"none", "builder", "peer", "line"}
    /\ wire.size <= MAX_MESSAGE_SIZE

\* Members a build() does not carry in every case: LastPx without LastQty, MDUpdateType of a
\* snapshot request, and the order type, price and time in force of FIX 4.4 and 5.0 reports.
Dropped(t) == \/ t = 31 /\ b[32].n <= 0
              \/ t = 265 /\ b[263] # Text("1")
              \/ t \in {40, 44, 59} /\ c \in {"fix44_ExecutionReport", "fix50_ExecutionReport"}
Arrives(t, v) == v = b[t] \/ (b[t] \in {Empty, Nul} /\ v = MessageDefault(t))
WholeQuantities == \A t \in DOMAIN b \cap QtyTags : b[t].n % 10000 = 0

\* A message that build() wrote into an assembler with room for it is refused by
\* from_buffer only for a member that the application left empty or zero; otherwise
\* every member comes back with the value it was given (whole quantities).
RoundTrip ==
    from = "builder" /\ ~wire.truncated /\ WholeQuantities =>
        \A d \in {from_buffer(c, wire)} :
           IF d.ok THEN \A t \in DOMAIN b \cap DOMAIN d.msg : Dropped(t) \/ Arrives(t, d.msg[t])
           ELSE \/ d.error = "MissingRequiredField" /\ d.tag \in DOMAIN b /\ ~IsGiven(d.tag, b[d.tag])
                \/ d.error = "MissingRequiredField" /\ d.tag = 268 /\ es[268] = <<>>
                \/ c = "fixt11_Logon" /\ d.tag = 8

\* A message whose fields did not all fit into the assembler (truncated()) has lost its
\* trailer, so no parser accepts it, whether or not the caller asks truncated().
TruncatedNeverAccepted ==
    wire.truncated => /\ ~ParsedMessage_parse(wire).ok
                      /\ ~IndexedParser_parse(wire, FALSE).ok
                      /\ ~from_buffer(c, wire).ok

\* The fields up to the first CheckSum; neither parser looks at what follows it.
Recorded == UpToCheckSum(wire.fields)
Tags(fs) == {fs[i].tag : i \in DOMAIN fs}
TagsOnce(fs) == {t \in Tags(fs) : Cardinality({i \in DOMAIN fs : fs[i].tag = t}) = 1}

\* ParsedMessage and IndexedParser accept the same messages, up to their own capacities, a
\* field with tag 0 and bytes behind the trailer; they read the same value for a tag that
\* occurs once, and what header() holds of a required header tag was read from the field that
\* get_field finds: its text, the first character of MsgType, MsgSeqNum and BodyLength modulo
\* 2^32.  So 35=AE is accepted with the type 'A', and MsgSeqNum 2^32 + 3 with the number 3.
ParsersAgree ==
    from # "none" =>
        \A p \in {ParsedMessage_parse(wire)}, x \in {IndexedParser_parse(wire, FALSE)}, rec \in {Recorded} :
           /\ x.ok /\ Len(rec) <= MAX_FIELDS => p.ok \/ p.error \in {"UnterminatedField", "FieldCountExceeded"}
           /\ p.ok => x.ok \/ 0 \in Tags(rec) \/ x.error = "OverflowExhausted"
           /\ p.ok => \A t \in {8, 9, 35, 49, 56, 34} :
                       p.header[t] = HeaderMember(t, ParsedMessage_get_field(p, t))
           /\ p.ok /\ x.ok =>
                 /\ p.header = x.header
                 /\ \A t \in TagsOnce(rec) :
                       /\ FieldTable_has(x.table, t)
                       /\ FieldTable_get(x.table, t) = ParsedMessage_get_field(p, t)

GroupMembers == {48, 55, 207, 269, 346, 290} \cup 270..273 \cup 276..279

\* StrictIndexedParser accepts every message that the Builders write and IndexedParser
\* accepts, and no message in which a tag occurs twice that belongs to no repeating group.
StrictParser ==
    from # "none" =>
        \A x \in {IndexedParser_parse(wire, FALSE)}, s \in {IndexedParser_parse(wire, TRUE)}, rec \in {Recorded} :
           /\ s.ok => x.ok /\ Tags(rec) \ GroupMembers \subseteq TagsOnce(rec)
           /\ from = "builder" /\ x.ok => s.ok
           /\ x.ok /\ Tags(rec) = TagsOnce(rec) => s.ok

\* A message that lost or repeated one field, had one byte of a field altered, or lost its
\* end on the line is not accepted: BodyLength and CheckSum together cover every field.
DamagedNeverAccepted ==
    from = "line" => ~ParsedMessage_parse(wire).ok /\ ~IndexedParser_parse(wire, FALSE).ok

DelimiterOf(k) == IF k = "fix44_MarketDataIncrementalRefresh" THEN 279 ELSE 269

\* For an accepted market data message with one trailer, whose count_mismatch() is false, entries() visits
\* every entry once and in order: their fields are all the fields from the first delimiter
\* to the trailer, each entry begins with the delimiter and holds no other.  For a message
\* of our own builder they are the entries that were added.
GroupsExact ==
    from # "none" /\ GroupOf(c, 268) =>
        \A d \in {from_buffer(c, wire)} :
        LET at == DelimiterOf(c)
            n == d.msg[268].n
            entries == EntriesOf(wire.fields, at, n)
        IN d.ok /\ Recorded = wire.fields /\ ~count_mismatch(wire.fields, at, n) =>
              /\ \A k \in 1..n : /\ entries[k][1].tag = at
                                 /\ \A j \in 2..Len(entries[k]) : entries[k][j].tag \notin {at, 10}
              /\ SumFunction([k \in 1..n |-> Len(entries[k])]) =
                    IF n = 0 THEN 0
                    ELSE TrailerAt(wire.fields) - DelimitersOf(wire.fields, at)[1]
              /\ from = "builder" => /\ entries = es[268]
                                     /\ \A k \in 1..n : parse_md_entry(entries[k]).price_raw = 150000000

\* A class's from_buffer accepts only messages of its own MsgType (docs/chatbot/qa-data.js says
\* that types of more than one character have a lookup of their own): a Logon is not read from 35=AE.
OwnTypeOnly ==
    from = "peer" => \A d \in {from_buffer(c, wire)} : d.ok => First(wire.fields, 35) = as_char(First(wire.fields, 35))

\* An order whose quantity is not zero reaches the peer with that quantity: field_types.hpp
\* declares Qty to have four decimal places for fractional shares.
QuantityArrives ==
    from = "builder" /\ ~wire.truncated /\ 38 \in DOMAIN b =>
        \A d \in {from_buffer(c, wire)} :
           IF d.ok THEN b[38].n > 0 => d.msg[38] = b[38] ELSE ~(d.tag = 38 /\ b[38].n > 0)
====
