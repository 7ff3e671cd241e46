---- MODULE Messages44 ----
(***************************************************************************)
(* The FIX 4.4 message classes (messages/fix44): for each the members of   *)
(* its Builder with their defaults, the fields build() writes, and what    *)
(* from_buffer() accepts and reads.  es are the entries of the groups.     *)
(***************************************************************************)
EXTENDS MessageCodec

FIX_4_4 == Text("FIX.4.4")

-----------------------------------------------------------------------------
(* heartbeat.hpp, logon.hpp: session messages; BeginString can be set.     *)
fix44_Heartbeat_Builder == (8 :> FIX_4_4) @@ Builder({112})
fix44_Heartbeat_build(b, es) == Assemble(b[8], Header(b, "0") \o Given(b, <<112>>))
fix44_Heartbeat_from_buffer(p) == Decode(p, "0", <<>>, {112})

fix44_TestRequest_Builder == (8 :> FIX_4_4) @@ Builder({112})
fix44_TestRequest_build(b, es) == Assemble(b[8], Header(b, "1") \o Always(b, <<112>>))
fix44_TestRequest_from_buffer(p) == Decode(p, "1", <<112>>, {})

fix44_ResendRequest_Builder == (8 :> FIX_4_4) @@ Builder({7, 16})
fix44_ResendRequest_build(b, es) == Assemble(b[8], Header(b, "2") \o Always(b, <<7, 16>>))
fix44_ResendRequest_from_buffer(p) == Decode(p, "2", <<7, 16>>, {})

fix44_SequenceReset_Builder == (8 :> FIX_4_4) @@ Builder({36, 123})
fix44_SequenceReset_build(b, es) == Assemble(b[8], Header(b, "4") \o Always(b, <<36>>) \o Given(b, <<123>>))
fix44_SequenceReset_from_buffer(p) == Decode(p, "4", <<36>>, {123})

fix44_Reject_Builder == (8 :> FIX_4_4) @@ Builder({45, 371, 373, 58})
fix44_Reject_build(b, es) == Assemble(b[8], Header(b, "3") \o Always(b, <<45>>) \o Given(b, <<371, 373, 58>>))
fix44_Reject_from_buffer(p) == Decode(p, "3", <<45>>, {371, 373, 58})

fix44_Logon_Builder == (8 :> FIX_4_4) @@ Builder({98, 108, 141, 553, 554})
fix44_Logon_build(b, es) == Assemble(b[8], Header(b, "A") \o Always(b, <<98, 108>>) \o Given(b, <<141, 553, 554>>))
fix44_Logon_from_buffer(p) ==
    LET d == Decode(p, "A", <<98, 108>>, {141, 553, 554, 43})
    IN IF ~d.ok THEN d ELSE [d EXCEPT !.msg = @ @@ (1137 :> FieldTable_get(p.table, 1137))]

fix44_Logout_Builder == (8 :> FIX_4_4) @@ Builder({58})
fix44_Logout_build(b, es) == Assemble(b[8], Header(b, "5") \o Given(b, <<58>>))
fix44_Logout_from_buffer(p) == Decode(p, "5", <<>>, {58})

-----------------------------------------------------------------------------
(* new_order_single.hpp *)
\* A slip: the stop price is not written.
fix44_NewOrderSingle_build_nostop(b, es) ==
    Assemble(FIX_4_4, Header(b, "D") \o Always(b, <<11, 55, 54, 60, 38, 40>>) \o Given(b, <<44>>)
                      \o Always(b, <<59>>) \o Given(b, <<1, 21, 100, 58>>))

fix44_NewOrderSingle_Builder == Builder({11, 55, 54, 60, 38, 40, 44, 99, 59, 1, 21, 100, 58})
fix44_NewOrderSingle_build(b, es) ==
    Assemble(FIX_4_4, Header(b, "D") \o Always(b, <<11, 55, 54, 60, 38, 40>>) \o Given(b, <<44, 99>>)
                      \o Always(b, <<59>>) \o Given(b, <<1, 21, 100, 58>>))
fix44_NewOrderSingle_from_buffer(p) ==
    PriceChecked(Decode(p, "D", <<11, 55, 54, 60, 38, 40>>, {44, 99, 59, 1, 21, 100, 167, 15, 110, 111, 58}))

fix44_OrderCancelRequest_Builder == Builder({41, 11, 55, 54, 60, 38, 37})
fix44_OrderCancelRequest_build(b, es) ==
    Assemble(FIX_4_4, Header(b, "F") \o Always(b, <<41, 11, 55, 54, 60>>) \o Given(b, <<38, 37>>))
fix44_OrderCancelRequest_from_buffer(p) == Decode(p, "F", <<>>, {41, 11, 55, 54, 60, 38, 37, 58})

fix44_OrderCancelReplaceRequest_Builder ==
    (21 :> Nul) @@ Builder({41, 11, 55, 54, 60, 38, 40, 37, 44, 99, 59, 1, 100, 58})
fix44_OrderCancelReplaceRequest_build(b, es) ==
    Assemble(FIX_4_4, Header(b, "G") \o Always(b, <<41, 11, 55, 54, 60, 38, 40>>) \o Given(b, <<37, 44, 99>>)
                      \o Always(b, <<59>>) \o Given(b, <<1, 21, 100, 58>>))
fix44_OrderCancelReplaceRequest_from_buffer(p) ==
    PriceChecked(Decode(p, "G", <<41, 11, 55, 54, 60, 38, 40>>, {37, 44, 99, 59, 1, 21, 100, 58}))

fix44_OrderStatusRequest_Builder == Builder({11, 55, 54, 37, 1})
fix44_OrderStatusRequest_build(b, es) ==
    Assemble(FIX_4_4, Header(b, "H") \o Always(b, <<11, 55, 54>>) \o Given(b, <<37, 1>>))
fix44_OrderStatusRequest_from_buffer(p) == Decode(p, "H", <<11, 55, 54>>, {37, 1})

-----------------------------------------------------------------------------
(* execution_report.hpp: the setters for 40, 44 and 59 have no field in build(). *)
fix44_ExecutionReport_Builder ==
    Builder({37, 17, 150, 39, 55, 54, 151, 14, 6, 11, 38, 40, 44, 59, 31, 32, 58, 60, 1})
fix44_ExecutionReport_build(b, es) ==
    Assemble(FIX_4_4, Header(b, "8") \o Always(b, <<37, 17, 150, 39, 55, 54, 151, 14, 6>>) \o Given(b, <<11, 38>>)
                      \o If(b[32].n > 0, Always(b, <<32, 31>>)) \o Given(b, <<60, 1, 58>>))
fix44_ExecutionReport_from_buffer(p) ==
    Decode(p, "8", <<37, 17, 150, 39, 55, 54>>,
           {151, 14, 6, 11, 41, 19, 38, 40, 44, 99, 59, 31, 32, 58, 103, 1, 60})

fix44_OrderCancelReject_from_buffer(p) == Decode(p, "9", <<>>, {37, 11, 41, 39, 434, 102, 58})

-----------------------------------------------------------------------------
(* market_data.hpp *)
MDRequestFields(b, es) ==
    Always(b, <<262, 263, 264>>) \o If(b[263] = Text("1"), Always(b, <<265>>)) \o Always(b, <<266>>)
    \o Group(267, es[267]) \o Group(146, es[146])
\* add_entry_type and add_symbol, as the fields of one group entry.
EntryType(type) == <<Field(269, type)>>
RelatedSymbol(symbol) == <<Field(55, symbol)>>

\* add_entry: the fields of one entry of a snapshot and of an incremental refresh.
SnapshotEntry(type, px, size) == Always((269 :> type) @@ (270 :> px) @@ (271 :> size), <<269, 270, 271>>)
IncrementalEntry(action, type, symbol, px, size) ==
    <<Field(279, action), Field(269, type)>> \o If(symbol # Empty, <<Field(55, symbol)>>)
    \o Always((270 :> px) @@ (271 :> size), <<270, 271>>)

fix44_MarketDataRequest_Builder == Builder({262, 263, 264, 265, 266})
fix44_MarketDataRequest_build(b, es) == Assemble(FIX_4_4, Header(b, "V") \o MDRequestFields(b, es))

fix44_MarketDataSnapshotFullRefresh_Builder == Builder({262, 55, 48, 207})
fix44_MarketDataSnapshotFullRefresh_build(b, es) ==
    Assemble(FIX_4_4, Header(b, "W") \o Given(b, <<262>>) \o Always(b, <<55>>) \o Given(b, <<48, 207>>)
                      \o Group(268, es[268]))
fix44_MarketDataSnapshotFullRefresh_from_buffer(p) == Decode(p, "W", <<55>>, {262, 48, 207, 268})

fix44_MarketDataIncrementalRefresh_Builder == Builder({262})
fix44_MarketDataIncrementalRefresh_build(b, es) ==
    Assemble(FIX_4_4, Header(b, "X") \o Given(b, <<262>>) \o Group(268, es[268]))
fix44_MarketDataIncrementalRefresh_from_buffer(p) == Decode(p, "X", <<268>>, {262})

fix44_MarketDataRequestReject_from_buffer(p) == Decode(p, "Y", <<262>>, {281, 58})
====
