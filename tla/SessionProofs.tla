---------------------------- MODULE SessionProofs ----------------------------
(***************************************************************************)
(* Proofs about Session, for every instance of its constants: one step per *)
(* action, on top of the lemmas about the methods of SessionManager.       *)
(***************************************************************************)
EXTENDS Session, SessionManagerProofs

(* The specification.                                                       *)

(* The inductive invariant: the session and its store are sound, no call is *)
(* in progress, and the state tells which Logons went over the connection.  *)
(* A disconnected initiator is in one of the states it connects from.       *)
IInv ==
  /\ SessionOK(s)
  /\ s.tx = <<>>
  /\ Persisted(s)
  /\ connected \in BOOLEAN /\ logonIn \in BOOLEAN /\ logonOut \in BOOLEAN
  /\ connected =>
       /\ s.state = "LogonSent" => logonOut
       /\ s.state = "LogonReceived" => logonIn
       /\ s.state \in Established => logonIn /\ logonOut
  /\ ~connected /\ s.cfg.role = "initiator" =>
       s.state \in {"Disconnected", "Reconnecting", "Error"}

(* A call on an open connection that keeps the session keeps the invariant. *)
LEMMA IInv_Handle ==
  ASSUME IInv, connected, NEW r, NEW got \in BOOLEAN,
         Keeps(s, r), Advances(s, r, got), Handle(r, got)
  PROVE  IInv'
<1>1. s' = Return(r) /\ connected' = connected
      /\ logonIn' = (logonIn \/ got) /\ logonOut' = (logonOut \/ LogonIn(r.tx))
  BY DEF Handle, Observe
<1>2. /\ SessionOK(s') /\ s'.tx = <<>> /\ s'.state = r.state /\ s'.cfg = r.cfg
      /\ s'.outb = r.outb /\ s'.st = r.st
  BY <1>1, Session_Return DEF Keeps
<1>3. Persisted(s')
  BY <1>2 DEF IInv, Keeps, Persisted
<1>4. LogonIn(r.tx) \in BOOLEAN
  BY DEF LogonIn
<1>5. /\ s'.state = "LogonSent" => logonOut'
      /\ s'.state = "LogonReceived" => logonIn'
      /\ s'.state \in Established => logonIn' /\ logonOut'
  BY Zenon, <1>1, <1>2 DEF IInv, Advances
<1>6. QED BY <1>1, <1>2, <1>3, <1>4, <1>5 DEF IInv

(* The engine starts with a new session that is not connected.              *)
THEOREM IInv_Init == Init => IInv
<1> SUFFICES ASSUME Init PROVE IInv
  OBVIOUS
<1>1. PICK c \in Configs : s = NewSession(c, NewStore)
  BY DEF Init
<1>2. StoreOK(NewStore)
  BY Store_New
<1>3. SessionOK(s) /\ s.tx = <<>> /\ s.state = "Disconnected" /\ Persisted(s)
  BY <1>1, <1>2, Session_New
<1>4. connected = FALSE /\ logonIn = FALSE /\ logonOut = FALSE
  BY DEF Init
<1>5. QED BY Zenon, <1>3, <1>4 DEF IInv

(* A method preserves the invariant also when a timer or the frame of the call*)
(* was touched before it.                                                   *)
LEMMA Alike_first ==
  ASSUME NEW a, NEW b, NEW r, NEW got, Alike(a, b), Keeps(b, r), Advances(b, r, got)
  PROVE  Keeps(a, r) /\ Advances(a, r, got)
BY DEF Alike, Keeps, Persisted, Advances

(* The state a call of the engine starts from.                              *)
LEMMA Called ==
  ASSUME IInv, NEW fails
  PROVE  LET t == Call(s, fails) IN SessionOK(t) /\ Alike(s, t) /\ t.tx = <<>>
<1>1. Alike(s, Call(s, fails))
  BY Zenon, Session_alike DEF IInv
<1>2. QED BY <1>1 DEF Alike, IInv

(* One step per action: each call the engine makes keeps the invariant.     *)
THEOREM IInv_Next == IInv /\ [Next]_vars => IInv'
<1> SUFFICES ASSUME IInv, [Next]_vars PROVE IInv'
  OBVIOUS
<1> USE DEF IInv
<1>1. CASE Connect
  <2>1. PICK fails \in FailSets :
          /\ s' = Return(initiate_logon(Call(on_connect(s), fails)))
          /\ logonOut' = LogonIn(initiate_logon(Call(on_connect(s), fails)).tx)
    BY <1>1 DEF Connect, Observe
  <2> DEFINE a == on_connect(s)
             b == Call(a, fails)
             r == initiate_logon(b)
  <2>2. SessionOK(a) /\ Keeps(s, a) /\ a.tx = <<>> /\ a.state = next_state(s.state, "Connect")
    BY Zenon, Session_transition, Keeps_closing DEF on_connect, ClosingEvents
  <2>3. s.state \in {"Disconnected", "Reconnecting", "Error"}
    BY <1>1 DEF Connect
  <2>4. a.state = "SocketConnected"
    BY <2>2, <2>3 DEF next_state
  <2> HIDE DEF a
  <2>5. Alike(a, b) /\ SessionOK(b)
    BY Zenon, <2>2, Session_alike, Keeps_alike
  <2>6. b.tx = <<>> /\ b.state = "SocketConnected"
    BY <2>2, <2>4, <2>5 DEF Alike
  <2> HIDE DEF b
  <2>7. Keeps(b, r) /\ Advances(b, r, FALSE)
    BY Zenon, <2>5, <2>6, Keeps_initiate_logon
  <2> HIDE DEF r
  <2>8. Keeps(a, r)
    BY Zenon, <2>5, <2>7, Alike_first
  <2>9. SessionOK(r) /\ Persisted(r)
    BY <2>2, <2>8 DEF Keeps
  <2>10. s' = Return(r) /\ connected' /\ logonIn' = FALSE /\ logonOut' = LogonIn(r.tx)
    BY <1>1, <2>1 DEF Connect, a, b, r
  <2>11. /\ r.state = "LogonSent" => LogonIn(r.tx)
         /\ r.state # "LogonReceived" /\ r.state \notin Established
    BY <2>6, <2>7 DEF Advances, Established
  <2>12. /\ SessionOK(s') /\ s'.tx = <<>> /\ s'.state = r.state /\ s'.cfg = r.cfg
         /\ s'.outb = r.outb /\ s'.st = r.st
    BY <2>9, <2>10, Session_Return
  <2>13. Persisted(s')
    BY <2>9, <2>12 DEF Persisted
  <2>14. LogonIn(r.tx) \in BOOLEAN /\ connected' \in BOOLEAN
    BY <1>1 DEF LogonIn, Connect
  <2>15. QED BY Zenon, <2>10, <2>11, <2>12, <2>13, <2>14
<1>2. CASE ConnectionLost
  <2> DEFINE r == IF s.state \in {"Disconnected", "Reconnecting", "Error"} THEN s
                  ELSE on_disconnect(s)
  <2>1. s' = Return(r) /\ connected' = FALSE /\ logonIn' = FALSE /\ logonOut' = FALSE
    BY <1>2 DEF ConnectionLost, Observe
  <2>2. SessionOK(on_disconnect(s)) /\ Keeps(s, on_disconnect(s))
        /\ on_disconnect(s).state = next_state(s.state, "Disconnect")
    BY Zenon, Session_transition, Keeps_closing DEF on_disconnect, ClosingEvents
  <2>3. next_state(s.state, "Disconnect") \in {"Disconnected", "Reconnecting", "Error"}
    BY DEF SessionOK, States, next_state
  <2>4. SessionOK(r) /\ Persisted(r) /\ r.state \in {"Disconnected", "Reconnecting", "Error"}
    BY <2>2, <2>3 DEF Keeps
  <2> HIDE DEF r
  <2>5. /\ SessionOK(s') /\ s'.tx = <<>> /\ s'.state = r.state /\ s'.cfg = r.cfg
        /\ s'.outb = r.outb /\ s'.st = r.st
    BY <2>1, <2>4, Session_Return
  <2>6. QED BY Zenon, <2>1, <2>4, <2>5 DEF Persisted
<1>3. CASE Restart
  <2> DEFINE r == NewSession(s.cfg, s.st)
  <2>1. s' = Return(r) /\ connected' = FALSE /\ logonIn' = FALSE /\ logonOut' = FALSE
    BY Zenon, <1>3 DEF Restart, Observe
  <2>2. SessionOK(r) /\ Persisted(r) /\ r.state = "Disconnected"
    BY Session_New DEF SessionOK
  <2> HIDE DEF r
  <2>3. /\ SessionOK(s') /\ s'.tx = <<>> /\ s'.state = r.state /\ s'.cfg = r.cfg
        /\ s'.outb = r.outb /\ s'.st = r.st
    BY <2>1, <2>2, Session_Return
  <2>4. QED BY Zenon, <2>1, <2>2, <2>3 DEF Persisted
<1>4. CASE Accept
  <2> DEFINE n == NewSession(s.cfg, s.st)
             r == on_connect(n)
  <2>1. s' = Return(r) /\ connected' = TRUE /\ logonIn' = FALSE /\ logonOut' = FALSE
    BY Zenon, <1>4 DEF Accept, Observe
  <2>2. SessionOK(n) /\ Persisted(n) /\ n.state = "Disconnected"
    BY Session_New DEF SessionOK
  <2> HIDE DEF n
  <2>3. SessionOK(r) /\ Keeps(n, r) /\ r.state = "SocketConnected"
    BY Zenon, <2>2, Session_transition, Keeps_closing DEF on_connect, ClosingEvents, next_state
  <2> HIDE DEF r
  <2>4. /\ SessionOK(s') /\ s'.tx = <<>> /\ s'.state = r.state /\ s'.cfg = r.cfg
        /\ s'.outb = r.outb /\ s'.st = r.st
    BY <2>1, <2>3, Session_Return
  <2>5. QED BY Zenon, <2>1, <2>2, <2>3, <2>4 DEF Persisted, Keeps, Established
<1>5. CASE EndOfConnection
  <2>1. PICK r \in {s, on_disconnect(s)} :
          s' = Return(r) /\ connected' = FALSE /\ logonIn' = FALSE /\ logonOut' = FALSE
    BY <1>5 DEF EndOfConnection, Observe
  <2>2. SessionOK(r) /\ Persisted(r) /\ r.cfg = s.cfg
    BY Zenon, Session_transition, Keeps_closing DEF on_disconnect, ClosingEvents, Keeps
  <2>3. /\ SessionOK(s') /\ s'.tx = <<>> /\ s'.state = r.state /\ s'.cfg = r.cfg
        /\ s'.outb = r.outb /\ s'.st = r.st
    BY <2>1, <2>2, Session_Return
  <2>4. s'.cfg.role # "initiator"
    BY <1>5, <2>2, <2>3 DEF EndOfConnection
  <2>5. QED BY Zenon, <2>1, <2>2, <2>3, <2>4 DEF Persisted
<1>6. ASSUME NEW m \in PeerMessages, Receive(m) PROVE IInv'
  <2>1. PICK fails \in FailSets : Handle(on_data_received(Call(s, fails), m), m.type = "Logon")
    BY <1>6 DEF Receive
  <2> DEFINE t == Call(s, fails)
             r == on_data_received(t, m)
  <2>2. SessionOK(t) /\ Alike(s, t) /\ t.tx = <<>>
    BY Called
  <2>3. PeerOK(m)
    BY SessionAssumption DEF PeerOK
  <2> HIDE DEF t
  <2>4. Keeps(t, r) /\ Advances(t, r, m.type = "Logon")
    BY <2>2, <2>3, Keeps_on_data_received
  <2> HIDE DEF r
  <2>5. Keeps(s, r) /\ Advances(s, r, m.type = "Logon")
    BY <2>2, <2>4, Alike_first
  <2>6. connected /\ (m.type = "Logon") \in BOOLEAN /\ Handle(r, m.type = "Logon")
    BY <1>6, <2>1 DEF Receive, r, t
  <2> HIDE DEF IInv
  <2>7. QED BY Zenon, <2>5, <2>6, IInv_Handle
<1>7. CASE ReceiveBad
  <2> DEFINE a == message_received(s)
             r == on_bad_data_received(s)
  <2>1. Alike(s, a) /\ SessionOK(a)
    BY Zenon, Session_alike, Keeps_alike
  <2>2. Alike(a, r)
    BY Zenon, <2>1, Session_alike DEF on_bad_data_received, handle_parse_error
  <2> HIDE DEF a, r
  <2>3. Keeps(a, r) /\ Advances(a, r, FALSE)
    BY Zenon, <2>2, Keeps_alike
  <2>4. Keeps(s, r) /\ Advances(s, r, FALSE)
    BY Zenon, <2>1, <2>3, Alike_first
  <2>5. connected /\ Handle(r, FALSE)
    BY Zenon, <1>7 DEF ReceiveBad, r
  <2> HIDE DEF IInv
  <2>6. QED BY Zenon, <2>4, <2>5, IInv_Handle
<1>8. ASSUME NEW body \in Bodies, SendApp(body) PROVE IInv'
  <2>1. PICK fails \in FailSets : Handle(send_app_message(Call(s, fails), body), FALSE)
    BY Zenon, <1>8 DEF SendApp
  <2> DEFINE t == Call(s, fails)
             r == send_app_message(t, body)
  <2>2. SessionOK(t) /\ Alike(s, t)
    BY Called
  <2> HIDE DEF t
  <2>3. Keeps(t, r) /\ Advances(t, r, FALSE)
    BY Zenon, <2>2, Keeps_send_app_message
  <2> HIDE DEF r
  <2>4. Keeps(s, r) /\ Advances(s, r, FALSE)
    BY Zenon, <2>2, <2>3, Alike_first
  <2>5. connected /\ Handle(r, FALSE)
    BY Zenon, <1>8, <2>1 DEF SendApp, r, t
  <2> HIDE DEF IInv
  <2>6. QED BY Zenon, <2>4, <2>5, IInv_Handle
<1>9. CASE Logout
  <2>1. PICK fails \in FailSets : Handle(initiate_logout(Call(s, fails)), FALSE)
    BY Zenon, <1>9 DEF Logout
  <2> DEFINE t == Call(s, fails)
             r == initiate_logout(t)
  <2>2. SessionOK(t) /\ Alike(s, t)
    BY Called
  <2> HIDE DEF t
  <2>3. Keeps(t, r) /\ Advances(t, r, FALSE)
    BY Zenon, <2>2, Keeps_initiate_logout
  <2> HIDE DEF r
  <2>4. Keeps(s, r) /\ Advances(s, r, FALSE)
    BY Zenon, <2>2, <2>3, Alike_first
  <2>5. connected /\ Handle(r, FALSE)
    BY Zenon, <1>9, <2>1 DEF Logout, r, t
  <2> HIDE DEF IInv
  <2>6. QED BY Zenon, <2>4, <2>5, IInv_Handle
<1>10. CASE Elapsed
  <2>1. PICK fails \in FailSets : Handle(on_timer_tick(Call(Elapse(s), fails)), FALSE)
    BY Zenon, <1>10 DEF Elapsed
  <2> DEFINE e == Elapse(s)
             t == Call(e, fails)
             r == on_timer_tick(t)
  <2>2. Alike(s, e) /\ SessionOK(e)
    BY Zenon, Session_alike, Keeps_alike
  <2> HIDE DEF e
  <2>3. Alike(e, t) /\ SessionOK(t)
    BY Zenon, <2>2, Session_alike, Keeps_alike
  <2> HIDE DEF t
  <2>4. Keeps(t, r) /\ Advances(t, r, FALSE)
    BY Zenon, <2>3, Keeps_on_timer_tick
  <2> HIDE DEF r
  <2>5. Keeps(e, r) /\ Advances(e, r, FALSE)
    BY Zenon, <2>3, <2>4, Alike_first
  <2>6. Keeps(s, r) /\ Advances(s, r, FALSE)
    BY Zenon, <2>2, <2>5, Alike_first
  <2>7. connected /\ Handle(r, FALSE)
    BY Zenon, <1>10, <2>1 DEF Elapsed, r, t, e
  <2> HIDE DEF IInv
  <2>8. QED BY Zenon, <2>6, <2>7, IInv_Handle
<1>11. CASE Tick
  <2>1. PICK fails \in FailSets : Handle(on_timer_tick(Call(s, fails)), FALSE)
    BY Zenon, <1>11 DEF Tick
  <2> DEFINE t == Call(s, fails)
             r == on_timer_tick(t)
  <2>2. SessionOK(t) /\ Alike(s, t)
    BY Called
  <2> HIDE DEF t
  <2>3. Keeps(t, r) /\ Advances(t, r, FALSE)
    BY Zenon, <2>2, Keeps_on_timer_tick
  <2> HIDE DEF r
  <2>4. Keeps(s, r) /\ Advances(s, r, FALSE)
    BY Zenon, <2>2, <2>3, Alike_first
  <2>5. connected /\ Handle(r, FALSE)
    BY Zenon, <1>11, <2>1 DEF Tick, r, t
  <2> HIDE DEF IInv
  <2>6. QED BY Zenon, <2>4, <2>5, IInv_Handle
<1>12. CASE FallSilent
  BY <1>12 DEF FallSilent, monitors, Persisted
<1>13. CASE UNCHANGED vars
  BY <1>13 DEF vars, Persisted
<1>14. QED
  BY Zenon, <1>1, <1>2, <1>3, <1>4, <1>5, <1>6, <1>7, <1>8, <1>9, <1>10, <1>11, <1>12, <1>13
  DEF Next

(* The inductive invariant holds in every state of the engine.              *)
THEOREM IInv_Always == Spec => []IInv
BY IInv_Init, IInv_Next, PTL DEF Spec

(* The session's fields keep their types and the outbound counter never     *)
(* leaves 1 .. MAX_SEQ_NUM.                                                 *)
THEOREM TypeCorrect == Spec => []TypeOK
<1>1. IInv => TypeOK
  BY DEF IInv, TypeOK, SessionOK, StoreOK
<1>2. QED BY <1>1, IInv_Always, PTL

(* The key a message is stored under is its MsgSeqNum: what a ResendRequest *)
(* for a number finds is a message with that number.                        *)
THEOREM StoreKeysCorrect == Spec => []StoreKeysMatch
<1>1. IInv => StoreKeysMatch
  BY Zenon DEF IInv, StoreKeysMatch, SessionOK, StoreOK
<1>2. QED BY <1>1, IInv_Always, PTL

(* The store's sender number follows the session's counter.                 *)
THEOREM OutboundPersisted == Spec => []PersistedOutbound
<1>1. IInv => PersistedOutbound
  BY DEF IInv, PersistedOutbound, Persisted, LoggedOn
<1>2. QED BY <1>1, IInv_Always, PTL

(* No session is active without a Logon each way on its connection.         *)
THEOREM LogonExchanged == Spec => []ActiveMeansLoggedOn
<1>1. IInv => ActiveMeansLoggedOn
  BY DEF IInv, ActiveMeansLoggedOn, Established
<1>2. QED BY <1>1, IInv_Always, PTL

-----------------------------------------------------------------------------
(* The inbound expectation.                                                 *)

(* A call that ends with the expectation not below where it was is no       *)
(* exception to the property.                                               *)
LEMMA InboundKept ==
  ASSUME IInv, NEW r, SessionOK(r), r.inb >= s.inb, s' = Return(r)
  PROVE  InboundBackOnlyByReset
<1>1. s'.inb = r.inb /\ r.inb \in Int /\ s.inb \in Int
  BY Session_Return, SeqNumAssumption DEF IInv, SessionOK, Words, UINT32_MAX
<1>2. QED BY <1>1 DEF InboundBackOnlyByReset

(* No call of the engine but the ones named moves the expected number back. *)
LEMMA InboundStep ==
  ASSUME IInv, Next
  PROVE  InboundBackOnlyByReset
<1>0. SessionOK(s) /\ s.inb \in Int
  BY SeqNumAssumption DEF IInv, SessionOK, Words, UINT32_MAX
<1>1. CASE Connect \/ Restart \/ Accept
  BY <1>1 DEF InboundBackOnlyByReset
<1>2. CASE ConnectionLost \/ EndOfConnection
  <2>1. PICK r \in {s, on_disconnect(s)} : s' = Return(r)
    BY Zenon, <1>2 DEF ConnectionLost, EndOfConnection, Observe
  <2>2. SessionOK(r) /\ r.inb = s.inb
    BY <1>0, Session_transition DEF on_disconnect
  <2>3. QED BY <1>0, <2>1, <2>2, InboundKept
<1>3. ASSUME NEW m \in PeerMessages, Receive(m) PROVE InboundBackOnlyByReset
  <2>1. CASE (m.type = "SequenceReset" /\ m.y # 1) \/ s.inb = UINT32_MAX
    BY <1>3, <2>1 DEF InboundBackOnlyByReset
  <2>2. CASE ~(m.type = "SequenceReset" /\ m.y # 1) /\ s.inb # UINT32_MAX
    <3>1. PICK fails \in FailSets : s' = Return(on_data_received(Call(s, fails), m))
      BY <1>3 DEF Receive, Handle, Observe
    <3> DEFINE t == Call(s, fails)
               r == on_data_received(t, m)
    <3>2. SessionOK(t) /\ Alike(s, t) /\ t.tx = <<>>
      BY Called
    <3>3. PeerOK(m)
      BY SessionAssumption DEF PeerOK
    <3> HIDE DEF t
    <3>4. Keeps(t, r) /\ (t.inb # UINT32_MAX => r.inb >= t.inb)
      BY <2>2, <3>2, <3>3, Keeps_on_data_received
    <3> HIDE DEF r
    <3>5. SessionOK(r) /\ r.inb >= s.inb
      BY <2>2, <3>2, <3>4 DEF Alike, Keeps
    <3>6. QED BY <3>1, <3>5, InboundKept DEF r, t
  <2>3. QED BY <2>1, <2>2
<1>4. CASE ReceiveBad
  <2> DEFINE a == message_received(s)
             r == on_bad_data_received(s)
  <2>1. Alike(s, a) /\ SessionOK(a)
    BY Zenon, <1>0, Session_alike, Keeps_alike
  <2>2. Alike(a, r)
    BY Zenon, <2>1, Session_alike DEF on_bad_data_received, handle_parse_error
  <2>3. s' = Return(r)
    BY <1>4 DEF ReceiveBad, Handle, Observe
  <2> HIDE DEF a, r
  <2>4. SessionOK(r) /\ r.inb >= s.inb
    BY <1>0, <2>1, <2>2 DEF Alike
  <2>5. QED BY <2>3, <2>4, InboundKept
<1>5. ASSUME NEW body \in Bodies, SendApp(body) PROVE InboundBackOnlyByReset
  <2>1. PICK fails \in FailSets : s' = Return(send_app_message(Call(s, fails), body))
    BY <1>5 DEF SendApp, Handle, Observe
  <2> DEFINE t == Call(s, fails)
             r == send_app_message(t, body)
  <2>2. SessionOK(t) /\ t.inb = s.inb
    BY Called DEF Alike
  <2> HIDE DEF t
  <2>3. Keeps(t, r) /\ r.inb = t.inb
    BY Zenon, <2>2, Keeps_send_app_message
  <2>4. QED BY <1>0, <2>1, <2>2, <2>3, InboundKept DEF Keeps, t
<1>6. CASE Logout
  <2>1. PICK fails \in FailSets : s' = Return(initiate_logout(Call(s, fails)))
    BY <1>6 DEF Logout, Handle, Observe
  <2> DEFINE t == Call(s, fails)
             r == initiate_logout(t)
  <2>2. SessionOK(t) /\ t.inb = s.inb
    BY Called DEF Alike
  <2> HIDE DEF t
  <2>3. Keeps(t, r) /\ r.inb = t.inb
    BY Zenon, <2>2, Keeps_initiate_logout
  <2>4. QED BY <1>0, <2>1, <2>2, <2>3, InboundKept DEF Keeps, t
<1>7. CASE Elapsed \/ Tick
  <2>1. PICK e \in {s, Elapse(s)}, fails \in FailSets : s' = Return(on_timer_tick(Call(e, fails)))
    BY Zenon, <1>7 DEF Elapsed, Tick, Handle, Observe
  <2> DEFINE t == Call(e, fails)
             r == on_timer_tick(t)
  <2>2. Alike(s, e) /\ SessionOK(e)
    BY Zenon, <1>0, Session_alike, Keeps_alike
  <2>3. Alike(e, t) /\ SessionOK(t)
    BY Zenon, <2>2, Session_alike, Keeps_alike
  <2> HIDE DEF t
  <2>4. t.inb = s.inb
    BY <2>2, <2>3 DEF Alike
  <2>5. Keeps(t, r) /\ r.inb = t.inb
    BY Zenon, <2>3, Keeps_on_timer_tick
  <2>6. QED BY <1>0, <2>1, <2>4, <2>5, InboundKept DEF Keeps, t
<1>8. CASE FallSilent
  BY <1>0, <1>8 DEF FallSilent, InboundBackOnlyByReset
<1>9. QED BY <1>1, <1>2, <1>3, <1>4, <1>5, <1>6, <1>7, <1>8 DEF Next

(* No gap fill, duplicate or message out of order moves the expected        *)
(* inbound number back.                                                     *)
THEOREM InboundMonotone == Spec => InboundNeverBack
<1>1. IInv /\ [Next]_vars => [InboundBackOnlyByReset]_vars
  BY InboundStep
<1>2. QED BY <1>1, IInv_Always, PTL DEF Spec, InboundNeverBack

-----------------------------------------------------------------------------
(* The heartbeat timer.                                                     *)

(* What the timer knows of the peer is the same in both.                    *)
SameTimer(t, r) ==
  r.recvAge = t.recvAge /\ r.interval = t.interval /\ r.pending = t.pending

(* Sending, changing the state and telling the application leave it alone.  *)
LEMMA Timer_same ==
  ASSUME NEW t, SessionOK(t), NEW type, NEW x, NEW y
  PROVE  /\ SameTimer(t, SendNew(t, type, x, y))
         /\ SameTimer(t, transition(t, x)) /\ SameTimer(t, Notify(t, x))
         /\ SameTimer(t, Call(t, x)) /\ SameTimer(t, Return(t))
         /\ SameTimer(t, Replay(t, x)) /\ SameTimer(t, GapFill(t, x))
<1> DEFINE m == Message(type, t.outb, x, y)
           n == [t EXCEPT !.outb = next_outbound(@)]
           u == transmit(n, m)
<1>1. SameTimer(t, n) /\ DOMAIN n = SessionFields
  BY DEF SameTimer, SessionOK, SessionFields
<1> HIDE DEF n, m
<1>2. SameTimer(n, u) /\ DOMAIN u = SessionFields
  BY <1>1 DEF SameTimer, SessionFields, transmit, message_sent
<1> HIDE DEF u
<1>3. ASSUME NEW o PROVE SameTimer(u, [u EXCEPT !.outb = o]) /\ SameTimer(u, [u EXCEPT !.st = o])
  BY <1>2 DEF SameTimer, SessionFields
<1>4. SameTimer(u, SendNew(t, type, x, y))
  <2>1. SameTimer(u, u)
    BY DEF SameTimer
  <2>2. QED BY Zenon, <1>3, <2>1 DEF SendNew, send_message, Persist, n, m, u
<1>5. SameTimer(t, SendNew(t, type, x, y))
  BY <1>1, <1>2, <1>4 DEF SameTimer
<1>6. SameTimer(t, Replay(t, x)) /\ SameTimer(t, GapFill(t, x))
  BY DEF SameTimer, SessionOK, SessionFields, Replay, GapFill, transmit, message_sent
<1>7. QED BY <1>5, <1>6 DEF SameTimer, SessionOK, SessionFields, transition, Notify, Call, Return

(* A new message and a change of state, with what else they leave alone.    *)
LEMMA Timer_SendNew ==
  ASSUME NEW t, SessionOK(t), NEW type, NEW x, NEW y
  PROVE  LET r == SendNew(t, type, x, y) IN
         SessionOK(r) /\ r.cfg = t.cfg /\ r.state = t.state /\ SameTimer(t, r)
<1>1. SameTimer(t, SendNew(t, type, x, y))
  BY Timer_same
<1>2. QED BY <1>1, Session_SendNew

(* transition() changes the state alone, not the timer.                     *)
LEMMA Timer_transition ==
  ASSUME NEW t, SessionOK(t), NEW ev
  PROVE  LET r == transition(t, ev) IN
         SessionOK(r) /\ r.cfg = t.cfg /\ r.state = next_state(t.state, ev) /\ SameTimer(t, r)
<1>1. SameTimer(t, transition(t, ev))
  BY Timer_same
<1>2. QED BY <1>1, Session_transition

(* The peer has just been heard.                                            *)
Heard(t) == SessionOK(t) /\ t.recvAge = 0 /\ t.interval \in Int

(* No step of the handling of a message makes the peer's age grow.          *)
LEMMA Heard_steps ==
  ASSUME NEW t, Heard(t), NEW type, NEW x, NEW y
  PROVE  /\ Heard(SendNew(t, type, x, y)) /\ Heard(transition(t, x)) /\ Heard(Notify(t, x))
         /\ Heard(Replay(t, x)) /\ Heard(GapFill(t, x)) /\ Heard(reset_timer(t))
         /\ Heard([t EXCEPT !.app = x])
         /\ x \in Words => Heard([t EXCEPT !.inb = x])
         /\ x \in Int => Heard([t EXCEPT !.interval = x])
<1>1. SessionOK(SendNew(t, type, x, y))
  BY Session_SendNew DEF Heard
<1>2. SessionOK(transition(t, x)) /\ SessionOK(Notify(t, x)) /\ SessionOK(reset_timer(t))
  BY Zenon, Session_transition, Session_alike DEF Heard, Alike
<1>3. SessionOK(Replay(t, x)) /\ SessionOK(GapFill(t, x))
  BY Zenon DEF Heard, Replay, GapFill, transmit, message_sent, SessionOK, SessionFields
<1>4. /\ SameTimer(t, SendNew(t, type, x, y)) /\ SameTimer(t, transition(t, x))
      /\ SameTimer(t, Notify(t, x)) /\ SameTimer(t, Replay(t, x)) /\ SameTimer(t, GapFill(t, x))
  BY Timer_same DEF Heard
<1>5. Heard(reset_timer(t))
  BY <1>2 DEF Heard, reset_timer, SessionOK, SessionFields
<1>6. /\ Heard([t EXCEPT !.app = x])
      /\ x \in Words => Heard([t EXCEPT !.inb = x])
      /\ x \in Int => Heard([t EXCEPT !.interval = x])
  BY DEF Heard, SessionOK, SessionFields
<1>7. QED BY <1>1, <1>2, <1>3, <1>4, <1>5, <1>6 DEF Heard, SameTimer

(* A message of the peer, whatever it is and however the handling ends, is  *)
(* a sign of life.                                                          *)
LEMMA Heard_handle_message ==
  ASSUME NEW t, Heard(t), NEW m, PeerOK(m), m.type = "Logon" => m.x \in Int
  PROVE  Heard(IF m.type \in AdminTypes THEN handle_admin_message(t, m)
               ELSE handle_app_message(t, m))
<1> DEFINE h == IF m.type \in AdminTypes THEN handle_admin_message(t, m)
                ELSE handle_app_message(t, m)
<1>1. CASE m.type = "Logon"
  <2>1. Heard(handle_logon(t, m))
    BY Zenon, <1>1, Heard_steps DEF handle_logon
  <2>2. QED BY <1>1, <2>1 DEF handle_admin_message, AdminTypes
<1>2. CASE m.type = "Logout"
  <2>1. Heard(handle_logout(t))
    BY Zenon, Heard_steps DEF handle_logout
  <2>2. QED BY <1>2, <2>1 DEF handle_admin_message, AdminTypes
<1>3. CASE m.type \in {"Heartbeat", "TestRequest", "Reject"}
  BY Zenon, <1>3, Heard_steps DEF handle_admin_message, AdminTypes, handle_test_request
<1>4. CASE m.type = "ResendRequest"
  <2>1. Heard(handle_resend_request(t, m))
    BY Zenon, Heard_steps DEF handle_resend_request
  <2>2. QED BY <1>4, <2>1 DEF handle_admin_message, AdminTypes
<1>5. CASE m.type = "SequenceReset"
  <2>1. Heard(handle_sequence_reset(t, m))
    BY Zenon, <1>5, Heard_steps DEF handle_sequence_reset, send_reject, PeerOK
  <2>2. QED BY <1>5, <2>1 DEF handle_admin_message, AdminTypes
<1>6. CASE m.type = "App"
  BY Zenon, <1>6, Heard_steps DEF handle_app_message, AdminTypes
<1>7. QED BY <1>1, <1>2, <1>3, <1>4, <1>5, <1>6 DEF PeerOK, MsgTypes, AdminTypes

(* on_data_received(), with each of its early returns, is a sign of life.   *)
LEMMA Heard_on_data_received ==
  ASSUME NEW t, SessionOK(t), t.interval \in Int, NEW m, PeerOK(m),
         m.type = "Logon" => m.x \in Int
  PROVE  Heard(on_data_received(t, m)) /\ Heard(on_bad_data_received(t))
<1> DEFINE a == message_received(t)
           expected == validate_inbound(a.inb, m.seq)
           next == [a EXCEPT !.inb = expected,
                             !.st = IF a.cfg.store
                                    THEN set_next_target_seq_num(@, expected) ELSE @]
           h(b) == IF m.type \in AdminTypes THEN handle_admin_message(b, m)
                   ELSE handle_app_message(b, m)
<1>1. Heard(a)
  <2>1. SessionOK(a)
    BY Zenon, Session_alike DEF Alike
  <2>2. a.recvAge = 0 /\ a.interval = t.interval
    BY DEF message_received, SessionOK, SessionFields
  <2>3. QED BY <2>1, <2>2 DEF Heard
<1> HIDE DEF a
<1>2. expected \in Words /\ StoreOK(a.st)
  BY <1>1, Inbound DEF Heard, SessionOK, PeerOK
<1> HIDE DEF expected
<1>3. Heard(next)
  <2> DEFINE st2 == IF a.cfg.store THEN set_next_target_seq_num(a.st, expected) ELSE a.st
  <2>1. StoreOK(st2)
    BY <1>2 DEF StoreOK, StoreFields, set_next_target_seq_num, Keys
  <2>2. next = [a EXCEPT !.inb = expected, !.st = st2]
    OBVIOUS
  <2> HIDE DEF st2
  <2>3. QED BY Zenon, <1>1, <1>2, <2>1, <2>2 DEF Heard, SessionOK, SessionFields
<1>4. Heard(handle_sequence_gap(a, m.seq))
  BY Zenon, <1>1, Heard_steps DEF handle_sequence_gap
<1>5. \/ ProcessMessage(a, m) = handle_sequence_error(a)
      \/ \E b \in {a, handle_sequence_gap(a, m.seq), next} : ProcessMessage(a, m) = h(b)
  BY DEF ProcessMessage, SequenceResult, expected
<1>6. Heard(handle_sequence_error(a)) /\ Heard(handle_parse_error(a))
  BY Zenon, <1>1, Heard_steps DEF handle_sequence_error, handle_parse_error
<1>7. Heard(ProcessMessage(a, m))
  <2>1. ASSUME NEW b, Heard(b) PROVE Heard(h(b))
    BY <2>1, Heard_handle_message
  <2> HIDE DEF h, next
  <2>2. QED BY <1>1, <1>3, <1>4, <1>5, <1>6, <2>1
<1>8. ASSUME NEW reason
      PROVE  /\ Heard(send_reject(a, m.seq, reason))
             /\ Heard(send_logout_and_disconnect(send_reject(a, m.seq, reason)))
  BY Zenon, <1>1, Heard_steps DEF send_reject, send_logout_and_disconnect
<1>9. QED BY <1>6, <1>7, <1>8 DEF on_data_received, on_bad_data_received, a

-----------------------------------------------------------------------------
(* No age without a question.                                               *)

(* A peer silent for longer than one and a half intervals has been asked.   *)
Asked(t) ==
  t.state = "Active" /\ t.interval > 0 /\ t.recvAge > 3 * t.interval => t.pending

Timed(t) == t.recvAge \in Nat /\ t.interval \in Int

(* A tick whose messages can be sent ends with the question asked, or with  *)
(* the session no longer active.                                            *)
LEMMA Asked_on_timer_tick ==
  ASSUME NEW t, SessionOK(t), Timed(t), Sends(t)
  PROVE  Timed(on_timer_tick(t)) /\ Asked(on_timer_tick(t))
<1> DEFINE r == on_timer_tick(t)
<1>1. CASE t.state # "Active"
  BY <1>1 DEF on_timer_tick, Asked
<1>2. CASE t.state = "Active" /\ has_timed_out(t)
  <2>1. r = transition(t, "HeartbeatTimeout")
    BY <1>2 DEF on_timer_tick
  <2>2. r.state = next_state("Active", "HeartbeatTimeout")
    BY <1>2, <2>1, Session_transition
  <2>3. r.state # "Active"
    BY <2>2 DEF next_state
  <2>4. SameTimer(t, r)
    BY <2>1, Timer_same
  <2>5. QED BY <2>3, <2>4 DEF SameTimer, Timed, Asked
<1>3. CASE t.state = "Active" /\ ~has_timed_out(t) /\ should_send_test_request(t)
  <2> DEFINE u == SendNew(t, "TestRequest", Absent, Absent)
  <2>1. SameTimer(t, u) /\ SessionOK(u)
    BY Timer_same, Session_SendNew
  <2>2. r = [u EXCEPT !.pending = TRUE]
    BY <1>3 DEF on_timer_tick, send_test_request
  <2> HIDE DEF u, r
  <2>3. r.pending /\ r.recvAge = u.recvAge /\ r.interval = u.interval
    BY <2>1, <2>2 DEF SessionOK, SessionFields
  <2>4. QED BY <2>1, <2>3 DEF SameTimer, Timed, Asked, r
<1>4. CASE t.state = "Active" /\ ~has_timed_out(t) /\ ~should_send_test_request(t)
  <2>1. r \in {t, SendNew(t, "Heartbeat", Absent, Absent)}
    BY <1>4 DEF on_timer_tick, send_heartbeat
  <2>2. SameTimer(t, r)
    <3>1. SameTimer(t, SendNew(t, "Heartbeat", Absent, Absent)) /\ SameTimer(t, t)
      BY Timer_SendNew DEF SameTimer
    <3> HIDE DEF r
    <3>2. QED BY <2>1, <3>1
  <2>3. t.pending \/ ~(t.recvAge >= 3 * t.interval)
    BY <1>4 DEF should_send_test_request
  <2> HIDE DEF r
  <2>4. Timed(r) /\ Asked(r)
    BY <2>2, <2>3 DEF SameTimer, Timed, Asked
  <2>5. QED BY <2>4 DEF r
<1>5. QED BY <1>1, <1>2, <1>3, <1>4

(* The invariant of the timer: Asked alone is not inductive without the     *)
(* types of the ages.                                                       *)
TInv == IInv /\ s.cfg \in Configs /\ Timed(s) /\ (connected => Asked(s))

(* What a call has to establish for the invariant to hold after it.         *)
LEMMA TInv_after ==
  ASSUME TInv, IInv', NEW r, SessionOK(r), r.cfg = s.cfg, Timed(r), s' = Return(r),
         connected' /\ r.state = "Active" => Asked(r)
  PROVE  TInv'
<1>1. s'.cfg = r.cfg /\ s'.state = r.state /\ SameTimer(r, s')
  BY Session_Return, Timer_same
<1>2. QED BY <1>1 DEF TInv, Timed, Asked, SameTimer

(* The state a call starts from has the timer of the session.               *)
LEMMA TInv_before ==
  ASSUME TInv, NEW fails
  PROVE  LET t == Call(s, fails) IN
         /\ SessionOK(t) /\ Alike(s, t) /\ t.tx = <<>> /\ SameTimer(s, t) /\ t.fails = fails
<1>1. SessionOK(s) /\ IInv
  BY DEF TInv, IInv
<1>2. Call(s, fails).fails = fails
  BY <1>1 DEF Call, SessionOK, SessionFields
<1>3. SameTimer(s, Call(s, fails))
  BY <1>1, Timer_same
<1>4. QED BY <1>1, <1>2, <1>3, Called

(* Nothing fails to be sent.                                                *)
NothingFails == \A f \in FailSets : f = {}

(* A new session has heard of nobody and waits for nobody.                  *)
THEOREM TInv_Init == Init => TInv
<1> SUFFICES ASSUME Init PROVE TInv
  OBVIOUS
<1>1. PICK c \in Configs : s = NewSession(c, NewStore)
  BY DEF Init
<1>2. c.heart_bt_int \in Int
  BY SessionAssumption
<1>3. s.cfg = c /\ Timed(s) /\ ~connected
  BY <1>1, <1>2 DEF NewSession, Timed, Init
<1>4. QED BY <1>3, IInv_Init DEF TInv

(* The actions that send and handle no message of the peer.                 *)
LEMMA TInv_send ==
  ASSUME TInv, IInv', NEW t, SessionOK(t), Alike(s, t), SameTimer(s, t), connected,
         NEW r, SessionOK(r), SameTimer(t, r), r.cfg = t.cfg, s' = Return(r),
         r.state = "Active" => t.state = "Active"
  PROVE  TInv'
<1>1. r.cfg = s.cfg /\ Timed(r) /\ (r.state = "Active" => Asked(r))
  BY DEF Alike, SameTimer, TInv, Timed, Asked
<1>2. QED BY <1>1, TInv_after

(* One step per action: only a tick lets the peer grow old, and a tick asks.*)
THEOREM TInv_Next ==
  ASSUME NothingFails
  PROVE  TInv /\ [Next]_vars => TInv'
<1> SUFFICES ASSUME TInv, [Next]_vars PROVE TInv'
  OBVIOUS
<1>0. IInv' /\ IInv /\ SessionOK(s) /\ Timed(s)
  BY IInv_Next DEF TInv, IInv
<1>1. CASE Connect
  <2>1. PICK fails \in FailSets : s' = Return(initiate_logon(Call(on_connect(s), fails)))
    BY Zenon, <1>1 DEF Connect, Observe
  <2> DEFINE a == on_connect(s)
             b == Call(a, fails)
             n == LogonNumbers(b)
             r == initiate_logon(b)
  <2>2. SessionOK(a) /\ a.cfg = s.cfg /\ SameTimer(s, a) /\ a.tx = <<>>
    BY <1>0, Session_transition, Timer_same DEF on_connect, IInv
  <2> HIDE DEF a
  <2>3. SessionOK(b) /\ b.cfg = a.cfg /\ SameTimer(a, b) /\ b.tx = <<>>
    <3>1. Alike(a, b)
      BY Zenon, <2>2, Session_alike
    <3>2. SameTimer(a, b)
      BY <2>2, Timer_same
    <3>3. QED BY <2>2, <3>1, <3>2 DEF Alike
  <2> HIDE DEF b
  <2>4. Keeps(b, r)
    BY Zenon, <2>3, Keeps_initiate_logon
  <2>5. SameTimer(b, n) /\ SessionOK(n)
    <3>1. 1 \in SeqNums /\ 1 \in Words
      BY SeqNumAssumption DEF SeqNums, Words, UINT32_MAX, INITIAL_SEQ_NUM
    <3>2. /\ b.outb \in SeqNums /\ b.inb \in Words
          /\ b.st.next_sender_seq \in SeqNums /\ b.st.next_target_seq \in Words
      BY <2>3 DEF SessionOK, StoreOK
    <3>3. n = b \/ \E i \in SeqNums, k \in Words : n = [b EXCEPT !.outb = i, !.inb = k]
      BY Zenon, <3>1, <3>2 DEF LogonNumbers, INITIAL_SEQ_NUM
    <3> HIDE DEF n
    <3>4. ASSUME NEW i \in SeqNums, NEW k \in Words, n = [b EXCEPT !.outb = i, !.inb = k]
          PROVE  SameTimer(b, n) /\ SessionOK(n)
      BY Zenon, <2>3, <3>4 DEF SessionOK, SessionFields, SameTimer
    <3>5. CASE n = b
      BY <2>3, <3>5 DEF SameTimer
    <3>6. QED BY Zenon, <3>3, <3>4, <3>5
  <2>6. SameTimer(b, r)
    <3> DEFINE u == SendNew(n, "Logon", b.cfg.heart_bt_int, Flag(b.cfg.reset_seq_num_on_logon))
    <3>1. SameTimer(n, u) /\ SessionOK(u)
      BY <2>5, Timer_same, Session_SendNew
    <3>2. r \in {b, u, transition(u, "LogonSent")}
      BY DEF initiate_logon
    <3> HIDE DEF u, r, n
    <3>3. SameTimer(u, transition(u, "LogonSent"))
      BY <3>1, Timer_same
    <3>4. QED BY <2>5, <3>1, <3>2, <3>3 DEF SameTimer
  <2> HIDE DEF r
  <2>7. SessionOK(r) /\ r.cfg = s.cfg /\ Timed(r)
    BY <1>0, <2>2, <2>3, <2>4, <2>6 DEF Keeps, SameTimer, Timed
  <2>8. s' = Return(r) /\ connected' /\ logonIn' = FALSE
    BY <1>1, <2>1 DEF Connect, a, b, r
  <2>9. r.state # "Active"
    <3>1. s'.state = r.state
      BY <2>7, <2>8, Session_Return
    <3>2. QED BY <1>0, <2>8, <3>1 DEF IInv, Established
  <2>10. QED BY <1>0, <2>7, <2>8, <2>9, TInv_after
<1>2. CASE ConnectionLost \/ EndOfConnection
  <2>1. PICK r \in {s, on_disconnect(s)} : s' = Return(r)
    BY Zenon, <1>2 DEF ConnectionLost, EndOfConnection, Observe
  <2>2. SessionOK(r) /\ r.cfg = s.cfg /\ SameTimer(s, r)
    <3> DEFINE d == on_disconnect(s)
    <3>1. SessionOK(d) /\ d.cfg = s.cfg /\ SameTimer(s, d)
      BY <1>0, Timer_transition DEF on_disconnect
    <3>2. SameTimer(s, s)
      BY DEF SameTimer
    <3> HIDE DEF d
    <3>3. CASE r = s
      BY <1>0, <3>2, <3>3
    <3>4. CASE r = d
      BY <3>1, <3>4
    <3>5. QED BY <3>3, <3>4 DEF d
  <2>3. ~connected'
    BY <1>2 DEF ConnectionLost, EndOfConnection
  <2>4. Timed(r)
    BY <1>0, <2>2 DEF SameTimer, Timed
  <2>5. QED BY <1>0, <2>1, <2>2, <2>3, <2>4, TInv_after
<1>3. CASE Restart \/ Accept
  <2> DEFINE n == NewSession(s.cfg, s.st)
  <2>1. PICK r \in {n, on_connect(n)} : s' = Return(r)
    BY Zenon, <1>3 DEF Restart, Accept, Observe
  <2>2. SessionOK(n) /\ n.cfg = s.cfg /\ n.state = "Disconnected"
    <3>1. StoreOK(s.st)
      BY <1>0 DEF SessionOK
    <3>2. QED BY <3>1, Session_New
  <2>3. Timed(n)
    BY SessionAssumption DEF TInv, NewSession, Timed
  <2> HIDE DEF n
  <2> DEFINE c == on_connect(n)
  <2>4. SessionOK(r) /\ r.cfg = s.cfg /\ SameTimer(n, r) /\ r.state # "Active"
    <3>1. /\ SessionOK(c) /\ c.cfg = n.cfg /\ SameTimer(n, c)
          /\ c.state = next_state("Disconnected", "Connect")
      BY <2>2, Timer_transition DEF on_connect
    <3>2. c.state # "Active" /\ SameTimer(n, n)
      BY <3>1 DEF next_state, SameTimer
    <3> HIDE DEF c
    <3>3. CASE r = n
      BY <2>2, <3>2, <3>3
    <3>4. CASE r = c
      BY <2>2, <3>1, <3>2, <3>4
    <3>5. QED BY <3>3, <3>4 DEF c
  <2>5. Timed(r)
    BY <2>3, <2>4 DEF SameTimer, Timed
  <2>6. QED BY <1>0, <2>1, <2>4, <2>5, TInv_after
<1>4. ASSUME NEW m \in PeerMessages, Receive(m) PROVE TInv'
  <2>1. PICK fails \in FailSets : s' = Return(on_data_received(Call(s, fails), m))
    BY Zenon, <1>4 DEF Receive, Handle, Observe
  <2> DEFINE t == Call(s, fails)
             r == on_data_received(t, m)
  <2>2. SessionOK(t) /\ Alike(s, t) /\ t.tx = <<>> /\ SameTimer(s, t)
    BY TInv_before
  <2>3. PeerOK(m) /\ (m.type = "Logon" => m.x \in Int)
    BY SessionAssumption DEF PeerOK
  <2>4. s' = Return(r)
    BY <2>1
  <2> HIDE DEF t
  <2>5. t.interval \in Int
    BY <1>0, <2>2 DEF SameTimer, Timed
  <2>6. Heard(r) /\ Keeps(t, r)
    BY <2>2, <2>3, <2>5, Heard_on_data_received, Keeps_on_data_received
  <2> HIDE DEF r
  <2>7. SessionOK(r) /\ r.cfg = s.cfg /\ Timed(r) /\ Asked(r)
    BY <2>2, <2>6 DEF Heard, Keeps, Alike, Timed, Asked
  <2>8. QED BY <1>0, <2>4, <2>7, TInv_after
<1>5. CASE ReceiveBad
  <2> DEFINE r == on_bad_data_received(s)
  <2>1. s' = Return(r)
    BY <1>5 DEF ReceiveBad, Handle, Observe
  <2>2. r.recvAge = 0 /\ r.interval = s.interval /\ r.cfg = s.cfg /\ SessionOK(r)
    <3> DEFINE a == message_received(s)
    <3>1. SessionOK(a) /\ a.recvAge = 0 /\ a.interval = s.interval /\ a.cfg = s.cfg
      <4>1. SessionOK(a) /\ a.cfg = s.cfg
        BY Zenon, <1>0, Session_alike DEF Alike
      <4>2. QED BY <1>0, <4>1 DEF message_received, SessionOK, SessionFields
    <3>2. r = Notify(a, "error")
      BY DEF on_bad_data_received, handle_parse_error
    <3> HIDE DEF a, r
    <3>3. Alike(a, r)
      BY Zenon, <3>1, <3>2, Session_alike
    <3>4. SameTimer(a, r)
      BY <3>1, <3>2, Timer_same
    <3>5. QED BY <3>1, <3>3, <3>4 DEF Alike, SameTimer
  <2> HIDE DEF r
  <2>3. Timed(r) /\ Asked(r)
    BY <1>0, <2>2 DEF Timed, Asked
  <2>4. QED BY <1>0, <2>1, <2>2, <2>3, TInv_after
<1>6. ASSUME NEW body \in Bodies, SendApp(body) PROVE TInv'
  <2>1. PICK fails \in FailSets : s' = Return(send_app_message(Call(s, fails), body))
    BY Zenon, <1>6 DEF SendApp, Handle, Observe
  <2> DEFINE t == Call(s, fails)
             r == send_app_message(t, body)
  <2>2. SessionOK(t) /\ Alike(s, t) /\ SameTimer(s, t) /\ s' = Return(r)
    BY <2>1, TInv_before
  <2> HIDE DEF t
  <2>3. SameTimer(t, r) /\ SessionOK(r) /\ r.cfg = t.cfg /\ r.state = t.state
    <3> DEFINE u == SendNew(t, "App", body, Absent)
    <3>1. SameTimer(t, u) /\ SessionOK(u) /\ u.cfg = t.cfg /\ u.state = t.state
      BY <2>2, Timer_SendNew
    <3>2. r = t \/ r = u
      BY DEF send_app_message
    <3>3. SameTimer(t, t)
      BY DEF SameTimer
    <3> HIDE DEF u, r
    <3>4. QED BY <2>2, <3>1, <3>2, <3>3
  <2>4. connected
    BY <1>6 DEF SendApp
  <2> HIDE DEF r
  <2>5. QED BY <1>0, <2>2, <2>3, <2>4, TInv_send
<1>7. CASE Logout
  <2>1. PICK fails \in FailSets : s' = Return(initiate_logout(Call(s, fails)))
    BY Zenon, <1>7 DEF Logout, Handle, Observe
  <2> DEFINE t == Call(s, fails)
             u == SendNew(t, "Logout", Absent, Absent)
             r == initiate_logout(t)
  <2>2. SessionOK(t) /\ Alike(s, t) /\ SameTimer(s, t) /\ s' = Return(r)
    BY <2>1, TInv_before
  <2> HIDE DEF t
  <2>3. SessionOK(u) /\ SameTimer(t, u) /\ u.cfg = t.cfg /\ u.state = t.state
    BY <2>2, Timer_SendNew
  <2>4. r = IF t.state # "Active" THEN t
            ELSE IF Sends(t) THEN transition(u, "LogoutSent") ELSE u
    BY DEF initiate_logout
  <2> HIDE DEF u, r
  <2>5. /\ SessionOK(r) /\ SameTimer(t, r) /\ r.cfg = t.cfg
        /\ r.state = "Active" => t.state = "Active"
    <3> DEFINE v == transition(u, "LogoutSent")
    <3>1. SessionOK(v) /\ SameTimer(u, v) /\ v.cfg = u.cfg
      BY <2>3, Timer_transition
    <3>2. SameTimer(t, v) /\ SameTimer(t, t)
      BY <2>3, <3>1 DEF SameTimer
    <3> HIDE DEF v
    <3>3. r = t \/ (t.state = "Active" /\ (r = u \/ r = v))
      BY <2>4 DEF v
    <3>4. QED BY <2>2, <2>3, <3>1, <3>2, <3>3
  <2>6. connected
    BY <1>7 DEF Logout
  <2>7. QED BY <1>0, <2>2, <2>5, <2>6, TInv_send
<1>8. CASE Elapsed \/ Tick
  <2>1. PICK e \in {s, Elapse(s)}, fails \in FailSets : s' = Return(on_timer_tick(Call(e, fails)))
    BY Zenon, <1>8 DEF Elapsed, Tick, Handle, Observe
  <2>2. SessionOK(e) /\ e.cfg = s.cfg
    <3>1. Alike(s, Elapse(s))
      BY Zenon, <1>0, Session_alike
    <3>2. QED BY <1>0, <3>1 DEF Alike
  <2>3. Timed(e)
    <3>1. Older(s.recvAge) \in Nat
      BY <1>0, AgeAssumption DEF Older, Timed
    <3>2. Elapse(s).recvAge = Older(s.recvAge) /\ Elapse(s).interval = s.interval
      BY <1>0 DEF Elapse, SessionOK, SessionFields
    <3>3. CASE e = s
      BY <1>0, <3>3
    <3>4. CASE e = Elapse(s)
      BY <1>0, <3>1, <3>2, <3>4 DEF Timed
    <3>5. QED BY <3>3, <3>4
  <2> DEFINE t == Call(e, fails)
             r == on_timer_tick(t)
  <2>4. SessionOK(t) /\ t.cfg = s.cfg /\ SameTimer(e, t)
    <3>1. Alike(e, t)
      BY Zenon, <2>2, Session_alike
    <3>2. SameTimer(e, t)
      BY <2>2, Timer_same
    <3>3. QED BY <2>2, <3>1, <3>2 DEF Alike
  <2>5. Sends(t)
    BY <2>2 DEF NothingFails, Sends, Call, SessionOK, SessionFields
  <2>6. s' = Return(r)
    BY <2>1
  <2> HIDE DEF t
  <2>7. Timed(t)
    BY <2>3, <2>4 DEF SameTimer, Timed
  <2>8. Timed(r) /\ Asked(r) /\ Keeps(t, r)
    BY Zenon, <2>4, <2>5, <2>7, Asked_on_timer_tick, Keeps_on_timer_tick
  <2> HIDE DEF r
  <2>9. QED BY <1>0, <2>4, <2>6, <2>8, TInv_after DEF Keeps
<1>9. CASE FallSilent
  BY <1>0, <1>9 DEF FallSilent, TInv, Timed, Asked
<1>10. CASE UNCHANGED vars
  BY <1>0, <1>10 DEF vars, TInv, Timed, Asked
<1>11. QED
  BY <1>1, <1>2, <1>3, <1>4, <1>5, <1>6, <1>7, <1>8, <1>9, <1>10 DEF Next

(* No session is declared dead without having been asked: as long as what   *)
(* is handed to the socket is sent, an active session whose peer has been   *)
(* silent for longer than one and a half intervals has a TestRequest        *)
(* outstanding, whatever the interval and the messages of the peer.         *)
THEOREM AskedInTime ==
  ASSUME NothingFails
  PROVE  Spec => []AskedBeforeTimeout
<1>1. TInv => AskedBeforeTimeout
  BY DEF TInv, Asked, AskedBeforeTimeout
<1>2. TInv /\ [Next]_vars => TInv'
  BY TInv_Next
<1>3. QED BY <1>1, <1>2, TInv_Init, PTL DEF Spec
=============================================================================
