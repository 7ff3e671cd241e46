---- MODULE Messages4x ----
(***************************************************************************)
(* The FIX 4.2 and FIX 4.3 message classes (messages/fix42, fix43).        *)
(***************************************************************************)
EXTENDS Messages44

FIX_4_2 == Text("FIX.4.2")
FIX_4_3 == Text("FIX.4.3")

-----------------------------------------------------------------------------
fix42_ExecutionReport_Builder ==
    Unset({40, 59, 103}) @@ Builder({37, 17, 20, 150, 39, 55, 54, 14, 6, 151, 11, 41, 38, 44, 32, 31, 60, 1, 58})
fix42_ExecutionReport_build(b, es) ==
    Assemble(FIX_4_2, Header(b, "8") \o Always(b, <<37, 17, 20, 150, 39, 55, 54, 14, 6>>) \o Given(b, <<151, 11, 41, 38>>)
                      \o WhenSet(b, <<40>>) \o Given(b, <<44>>) \o WhenSet(b, <<59>>)
                      \o If(b[32].n > 0, Always(b, <<32, 31>>)) \o Given(b, <<60, 1>>) \o WhenSet(b, <<103>>)
                      \o Given(b, <<58>>))
fix42_ExecutionReport_from_buffer(p) ==
    Decode(p, "8", <<37, 17, 20, 150, 39, 55, 54>>, {14, 6, 151, 11, 41, 38, 40, 44, 59, 31, 32, 58, 103, 1, 60})

fix42_NewOrderSingle_Builder == Builder({11, 21, 55, 54, 60, 38, 40, 44, 99, 59, 1, 100, 58})
fix42_NewOrderSingle_build(b, es) ==
    Assemble(FIX_4_2, Header(b, "D") \o Always(b, <<11, 21, 55, 54, 60, 38, 40>>) \o Given(b, <<44, 99>>)
                      \o Always(b, <<59>>) \o Given(b, <<1, 100, 58>>))
fix42_NewOrderSingle_from_buffer(p) ==
    PriceChecked(Decode(p, "D", <<11, 21, 55, 54, 60, 38, 40>>, {44, 99, 59, 1, 100, 58}))

fix42_OrderCancelRequest_Builder == Builder({41, 11, 55, 54, 60, 38, 37})
fix42_OrderCancelRequest_build(b, es) ==
    Assemble(FIX_4_2, Header(b, "F") \o Always(b, <<41, 11, 55, 54, 60>>) \o Given(b, <<38, 37>>))
fix42_OrderCancelRequest_from_buffer(p) == Decode(p, "F", <<41, 11, 55, 54, 60>>, {38, 37, 58})

-----------------------------------------------------------------------------
fix43_ExecutionReport_Builder ==
    Unset({40, 59, 103}) @@ Builder({37, 17, 20, 150, 39, 55, 54, 151, 14, 6, 11, 41, 38, 44, 32, 31, 60, 1, 58})
fix43_ExecutionReport_build(b, es) ==
    Assemble(FIX_4_3, Header(b, "8") \o Always(b, <<37, 17, 20, 150, 39, 55, 54, 151, 14, 6>>) \o Given(b, <<11, 41, 38>>)
                      \o WhenSet(b, <<40>>) \o Given(b, <<44>>) \o WhenSet(b, <<59>>)
                      \o If(b[32].n > 0, Always(b, <<32, 31>>)) \o Given(b, <<60, 1>>) \o WhenSet(b, <<103>>)
                      \o Given(b, <<58>>))
fix43_ExecutionReport_from_buffer(p) ==
    Decode(p, "8", <<37, 17, 20, 150, 39, 55, 54>>, {151, 14, 6, 11, 41, 38, 40, 44, 59, 31, 32, 58, 103, 1, 60})

fix43_NewOrderSingle_Builder == Unset({460}) @@ Builder({11, 21, 55, 54, 60, 38, 40, 44, 99, 59, 1, 100, 58})
fix43_NewOrderSingle_build(b, es) ==
    Assemble(FIX_4_3, Header(b, "D") \o Always(b, <<11, 21, 55, 54, 60, 38, 40>>) \o Given(b, <<44, 99>>)
                      \o Always(b, <<59>>) \o Given(b, <<1, 100, 58>>) \o WhenSet(b, <<460>>))
fix43_NewOrderSingle_from_buffer(p) ==
    PriceChecked(Decode(p, "D", <<11, 21, 55, 54, 60, 38, 40>>, {44, 99, 59, 1, 100, 58, 460}))

fix43_OrderCancelRequest_Builder == Builder({41, 11, 55, 54, 60, 38, 37})
fix43_OrderCancelRequest_build(b, es) ==
    Assemble(FIX_4_3, Header(b, "F") \o Always(b, <<41, 11, 55, 54, 60>>) \o Given(b, <<38, 37>>))
fix43_OrderCancelRequest_from_buffer(p) == Decode(p, "F", <<41, 11, 55, 54, 60>>, {38, 37, 58})

fix43_MarketDataRequest_Builder == Builder({262, 263, 264, 265, 266})
fix43_MarketDataRequest_build(b, es) == Assemble(FIX_4_3, Header(b, "V") \o MDRequestFields(b, es))
fix43_MarketDataRequest_from_buffer(p) == Decode(p, "V", <<262, 263>>, {264, 265, 266, 267, 146})

fix43_MarketDataSnapshotFullRefresh_Builder == Builder({262, 55, 48, 207})
fix43_MarketDataSnapshotFullRefresh_build(b, es) ==
    Assemble(FIX_4_3, Header(b, "W") \o Given(b, <<262>>) \o Always(b, <<55>>) \o Given(b, <<48, 207>>)
                      \o Group(268, es[268]))
fix43_MarketDataSnapshotFullRefresh_from_buffer(p) == Decode(p, "W", <<55>>, {262, 48, 207, 268})
====
