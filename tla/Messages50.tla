---- MODULE Messages50 ----
(***************************************************************************)
(* The FIX 5.0 application messages (messages/fix50) and the FIXT 1.1      *)
(* session messages (messages/fixt11) that carry them.  ApplVerID (1128)   *)
(* and the DefaultApplVerID (1137) lie behind FieldTable's flat array.     *)
(***************************************************************************)
EXTENDS Messages4x

FIXT_1_1 == Text("FIXT.1.1")

-----------------------------------------------------------------------------
fix50_NewOrderSingle_Builder == Unset({1128}) @@ Builder({11, 55, 54, 60, 38, 40, 44, 99, 59, 1, 21, 100, 58})
fix50_NewOrderSingle_build(b, es) ==
    Assemble(FIXT_1_1, Header(b, "D") \o WhenSet(b, <<1128>>) \o Always(b, <<11, 55, 54, 60, 38, 40>>)
                       \o Given(b, <<44, 99>>) \o Always(b, <<59>>) \o Given(b, <<1, 21, 100, 58>>))
fix50_NewOrderSingle_from_buffer(p) ==
    PriceChecked(Decode(p, "D", <<11, 55, 54, 60, 38, 40>>, {1128, 44, 99, 59, 1, 21, 100, 167, 15, 110, 111, 58}))

fix50_OrderCancelRequest_Builder == Unset({1128}) @@ Builder({41, 11, 55, 54, 60, 38, 37})
fix50_OrderCancelRequest_build(b, es) ==
    Assemble(FIXT_1_1, Header(b, "F") \o WhenSet(b, <<1128>>) \o Always(b, <<41, 11, 55, 54, 60>>)
                       \o Given(b, <<38, 37>>))
fix50_OrderCancelRequest_from_buffer(p) == Decode(p, "F", <<>>, {1128, 41, 11, 55, 54, 60, 38, 37, 58})

fix50_ExecutionReport_Builder ==
    Unset({1128}) @@ Builder({37, 17, 150, 39, 55, 54, 151, 14, 6, 11, 38, 40, 44, 59, 31, 32, 58, 60, 1})
fix50_ExecutionReport_build(b, es) ==
    Assemble(FIXT_1_1, Header(b, "8") \o WhenSet(b, <<1128>>) \o Always(b, <<37, 17, 150, 39, 55, 54, 151, 14, 6>>)
                       \o Given(b, <<11, 38>>) \o If(b[32].n > 0, Always(b, <<32, 31>>)) \o Given(b, <<60, 1, 58>>))
fix50_ExecutionReport_from_buffer(p) ==
    Decode(p, "8", <<37, 17, 150, 39, 55, 54>>,
           {1128, 151, 14, 6, 11, 41, 19, 38, 40, 44, 99, 59, 31, 32, 58, 103, 1, 60})

fix50_OrderCancelReject_from_buffer(p) == Decode(p, "9", <<>>, {1128, 37, 11, 41, 39, 434, 102, 58})

-----------------------------------------------------------------------------
fixt11_Logon_Builder == Builder({98, 108, 1137, 141, 553, 554})
fixt11_Logon_build(b, es) ==
    Assemble(FIXT_1_1, Header(b, "A") \o Always(b, <<98, 108, 1137>>) \o Given(b, <<141, 553, 554>>))
fixt11_Logon_from_buffer(p) ==
    IF p.ok /\ p.header[35] = Text("A") /\ FieldTable_get(p.table, 8) # FIXT_1_1
    THEN Fail("InvalidFieldFormat", 8)
    ELSE Decode(p, "A", <<98, 108, 1137>>, {141, 553, 554, 1408, 43})

fixt11_Logout_Builder == Builder({58})
fixt11_Logout_build(b, es) == Assemble(FIXT_1_1, Header(b, "5") \o Given(b, <<58>>))
fixt11_Logout_from_buffer(p) == Decode(p, "5", <<>>, {58})

fixt11_Heartbeat_Builder == Builder({112})
fixt11_Heartbeat_build(b, es) == Assemble(FIXT_1_1, Header(b, "0") \o Given(b, <<112>>))
fixt11_Heartbeat_from_buffer(p) == Decode(p, "0", <<>>, {112})

fixt11_TestRequest_Builder == Builder({112})
fixt11_TestRequest_build(b, es) == Assemble(FIXT_1_1, Header(b, "1") \o Always(b, <<112>>))
fixt11_TestRequest_from_buffer(p) == Decode(p, "1", <<>>, {112})

fixt11_ResendRequest_Builder == (7 :> Num(0)) @@ Builder({16})
fixt11_ResendRequest_build(b, es) == Assemble(FIXT_1_1, Header(b, "2") \o Always(b, <<7, 16>>))
fixt11_ResendRequest_from_buffer(p) == Decode(p, "2", <<>>, {7, 16})

fixt11_SequenceReset_Builder == (36 :> Num(0)) @@ Builder({123})
fixt11_SequenceReset_build(b, es) == Assemble(FIXT_1_1, Header(b, "4") \o Always(b, <<36>>) \o Given(b, <<123>>))
fixt11_SequenceReset_from_buffer(p) == Decode(p, "4", <<>>, {36, 123})

fixt11_Reject_Builder == (45 :> Num(0)) @@ Builder({371, 373, 58})
fixt11_Reject_build(b, es) == Assemble(FIXT_1_1, Header(b, "3") \o Always(b, <<45>>) \o Given(b, <<371, 373, 58>>))
fixt11_Reject_from_buffer(p) == Decode(p, "3", <<>>, {45, 371, 373, 58})
====
