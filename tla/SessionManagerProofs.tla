------------------------ MODULE SessionManagerProofs ------------------------
(***************************************************************************)
(* What the methods of SessionManager preserve, as functions on session    *)
(* records, for every width of the integers and every limit of the store.  *)
(***************************************************************************)
EXTENDS SessionManager, TLAPS

StoreFields ==
  {"msgs", "total_bytes", "pool_used", "min_seq", "max_seq",
   "next_sender_seq", "next_target_seq"}

SessionFields ==
  {"cfg", "state", "outb", "inb", "interval", "sentAge", "recvAge", "pending", "st",
   "calls", "fails", "tx", "app", "cb"}

(* A store whose counters are in range and whose keys are the numbers of    *)
(* the messages under them.                                                 *)
StoreOK(st) ==
  /\ DOMAIN st = StoreFields
  /\ st = [f \in StoreFields |-> st[f]]
  /\ st.next_sender_seq \in SeqNums
  /\ st.next_target_seq \in Words
  /\ \A q \in Keys(st) : st.msgs[q].seq = q /\ ~st.msgs[q].dup

SessionOK(t) ==
  /\ DOMAIN t = SessionFields
  /\ t = [f \in SessionFields |-> t[f]]
  /\ t.state \in States
  /\ t.outb \in SeqNums
  /\ t.inb \in Words
  /\ t.pending \in BOOLEAN
  /\ StoreOK(t.st)

LoggedOn ==
  {"LogonSent", "Active", "LogoutPending", "LogoutReceived", "Reconnecting", "Error"}

(* The store knows the outbound counter of a session that has logged on.    *)
Persisted(t) ==
  t.cfg.store /\ t.state \in LoggedOn => t.st.next_sender_seq = t.outb

-----------------------------------------------------------------------------
(* Counters.                                                                *)

(* next_outbound() keeps the counter in range and rollback_outbound() takes *)
(* it back, over the wrap too.                                              *)
LEMMA Counters ==
  ASSUME NEW n \in SeqNums
  PROVE  /\ next_outbound(n) \in SeqNums
         /\ rollback_outbound(next_outbound(n)) = n
BY SeqNumAssumption DEF next_outbound, rollback_outbound, SeqNums, INITIAL_SEQ_NUM

(* validate_inbound() keeps the expectation in the range of its type.       *)
LEMMA Inbound ==
  ASSUME NEW n \in Words, NEW received \in Words
  PROVE  /\ validate_inbound(n, received) \in Words
         /\ n # UINT32_MAX => validate_inbound(n, received) >= n
<1>1. (n + 1) % UINT32 \in 0 .. (UINT32 - 1)
  BY SeqNumAssumption DEF Words, UINT32_MAX
<1>2. n # UINT32_MAX => (n + 1) % UINT32 = n + 1
  BY SeqNumAssumption DEF Words, UINT32_MAX
<1>3. QED BY <1>1, <1>2, SeqNumAssumption DEF validate_inbound, Words, UINT32_MAX

(* The transition table never leaves the set of states.                     *)
LEMMA States_next_state ==
  ASSUME NEW cur \in States, NEW ev
  PROVE  next_state(cur, ev) \in States
BY DEF next_state, States

-----------------------------------------------------------------------------
(* The store.                                                               *)

(* store() under the number of the message keeps the keys right, whether it *)
(* inserts, evicts or refuses, and does not touch the counters.             *)
LEMMA Store_store ==
  ASSUME NEW st, StoreOK(st), NEW m, ~m.dup
  PROVE  LET t == store(st, m.seq, m) IN
         /\ StoreOK(t)
         /\ t.next_sender_seq = st.next_sender_seq
         /\ t.next_target_seq = st.next_target_seq
<1> DEFINE Same(t) == /\ StoreOK(t)
                      /\ t.next_sender_seq = st.next_sender_seq
                      /\ t.next_target_seq = st.next_target_seq
           room == IF AtCapacity(st, m) THEN evict_oldest(st) ELSE st
<1>1. Same(st)
  OBVIOUS
<1>2. Same(evict_oldest(st))
  BY Zenon DEF StoreOK, StoreFields, evict_oldest, Keys
<1>3. Same(room)
  BY <1>1, <1>2
<1>4. ASSUME NEW t, Same(t), NEW n
      PROVE  Same([t EXCEPT !.pool_used = n])
  BY <1>4 DEF StoreOK, StoreFields, Keys
<1>5. ASSUME NEW t, Same(t)
      PROVE  Same(Insert(t, m.seq, m))
  BY Zenon, <1>5 DEF StoreOK, StoreFields, Insert, Keys
<1> HIDE DEF Same, room
<1>6. Same(store(st, m.seq, m))
  BY <1>1, <1>3, <1>4, <1>5 DEF store, room
<1>7. QED BY <1>6 DEF Same

-----------------------------------------------------------------------------
(* Sending.                                                                 *)

(* What a new message does to a session: a sent one advances the counter    *)
(* and leaves it in the store, a failed one changes neither.                *)
LEMMA Session_SendNew ==
  ASSUME NEW t, SessionOK(t), NEW type, NEW x, NEW y
  PROVE  LET r == SendNew(t, type, x, y) IN
         /\ SessionOK(r)
         /\ r.state = t.state /\ r.inb = t.inb /\ r.cfg = t.cfg
         /\ r.calls = t.calls + 1 /\ r.fails = t.fails
         /\ Sends(t) /\ t.cfg.store => r.st.next_sender_seq = r.outb
         /\ ~Sends(t) => r.outb = t.outb /\ r.st = t.st
         /\ Sends(t) => r.tx = Append(t.tx, Message(type, t.outb, x, y))
         /\ ~Sends(t) => r.tx = t.tx
<1> DEFINE m == Message(type, t.outb, x, y)
           n == [t EXCEPT !.outb = next_outbound(@)]
           u == transmit(n, m)
<1>1. /\ next_outbound(t.outb) \in SeqNums
      /\ rollback_outbound(next_outbound(t.outb)) = t.outb
  BY Counters DEF SessionOK
<1>2. m.seq = t.outb /\ ~m.dup
  BY DEF Message
<1>3. /\ SessionOK(n)
      /\ n.outb = next_outbound(t.outb) /\ n.state = t.state /\ n.inb = t.inb
      /\ n.cfg = t.cfg /\ n.st = t.st /\ n.calls = t.calls /\ n.fails = t.fails
      /\ n.tx = t.tx
  BY <1>1 DEF SessionOK, SessionFields
<1>4. Sends(n) <=> Sends(t)
  BY <1>3 DEF Sends
<1> HIDE DEF n, m
<1>5. /\ SessionOK(u)
      /\ u.outb = n.outb /\ u.state = n.state /\ u.inb = n.inb
      /\ u.cfg = n.cfg /\ u.st = n.st /\ u.calls = n.calls + 1 /\ u.fails = n.fails
      /\ Sends(n) => u.tx = Append(n.tx, m)
      /\ ~Sends(n) => u.tx = n.tx
  BY Zenon, <1>3 DEF SessionOK, SessionFields, transmit, message_sent
<1> HIDE DEF u
<1>6. CASE ~Sends(t)
  <2> DEFINE v == [u EXCEPT !.outb = rollback_outbound(@)]
  <2>1. /\ SessionOK(v)
        /\ v.outb = t.outb /\ v.state = t.state /\ v.inb = t.inb /\ v.cfg = t.cfg
        /\ v.st = t.st /\ v.calls = t.calls + 1 /\ v.fails = t.fails /\ v.tx = t.tx
    BY Zenon, <1>1, <1>3, <1>4, <1>5, <1>6 DEF SessionOK, SessionFields
  <2>2. SendNew(t, type, x, y) = v
    BY <1>4, <1>6 DEF SendNew, send_message, n, m, u
  <2>3. QED BY <2>1, <2>2, <1>6
<1>7. CASE Sends(t) /\ ~t.cfg.store
  <2>1. SendNew(t, type, x, y) = u
    BY <1>3, <1>4, <1>5, <1>7 DEF SendNew, send_message, Persist, n, m, u
  <2>2. QED BY <2>1, <1>3, <1>4, <1>5, <1>7 DEF m
<1>8. CASE Sends(t) /\ t.cfg.store
  <2> DEFINE kept == store(u.st, t.outb, m)
             st2 == set_next_sender_seq_num(kept, u.outb)
             v == [u EXCEPT !.st = st2]
  <2>1. StoreOK(kept)
    BY <1>2, <1>5, Store_store DEF SessionOK
  <2>2. StoreOK(st2) /\ st2.next_sender_seq = u.outb
    <3> HIDE DEF kept
    <3>1. QED BY <2>1, <1>1, <1>3, <1>5 DEF StoreOK, StoreFields, set_next_sender_seq_num, Keys
  <2> HIDE DEF st2
  <2>3. /\ SessionOK(v)
        /\ v.outb = u.outb /\ v.state = u.state /\ v.inb = u.inb /\ v.cfg = u.cfg
        /\ v.st = st2 /\ v.calls = u.calls /\ v.fails = u.fails /\ v.tx = u.tx
    BY Zenon, <2>2, <1>5 DEF SessionOK, SessionFields
  <2>4. SendNew(t, type, x, y) = v
    BY <1>1, <1>3, <1>4, <1>5, <1>8
    DEF SendNew, send_message, Persist, n, m, u, st2
  <2> HIDE DEF v
  <2>5. QED BY <2>2, <2>3, <2>4, <1>3, <1>4, <1>5, <1>8 DEF m
<1>9. QED BY <1>6, <1>7, <1>8

-----------------------------------------------------------------------------
(* What every method does to a session, whatever the state it is called in. *)

Established == {"Active", "LogoutPending", "LogoutReceived"}

(* How the state may advance in a call that got a Logon from the peer or    *)
(* did not.                                                                 *)
Advances(t, r, gotLogon) ==
  /\ r.state = "LogonSent" => t.state = "LogonSent" \/ LogonIn(r.tx)
  /\ r.state = "LogonReceived" => t.state = "LogonReceived" \/ gotLogon
  /\ r.state \in Established =>
       \/ t.state \in Established
       \/ gotLogon /\ (t.state = "LogonSent" \/ LogonIn(r.tx))

Keeps(t, r) ==
  /\ SessionOK(r)
  /\ r.cfg = t.cfg
  /\ Persisted(t) => Persisted(r)

(* The events below take no session into the states of LoggedOn, nor out of *)
(* the others into an established session.                                  *)
ClosingEvents == {"Connect", "Disconnect", "LogoutSent", "LogoutReceived", "HeartbeatTimeout"}

(* The events that end a conversation lead into no state of an established  *)
(* session that was not one before.                                         *)
LEMMA Closing ==
  ASSUME NEW cur \in States, NEW ev \in ClosingEvents
  PROVE  /\ next_state(cur, ev) \in LoggedOn => cur \in LoggedOn
         /\ next_state(cur, ev) \in Established => cur \in Established
         /\ next_state(cur, ev) \in {"LogonSent", "LogonReceived"}
              => cur = next_state(cur, ev)
BY Zenon DEF next_state, States, ClosingEvents, LoggedOn, Established

(* transition() changes the state alone.                                    *)
LEMMA Session_transition ==
  ASSUME NEW t, SessionOK(t), NEW ev
  PROVE  LET r == transition(t, ev) IN
         /\ SessionOK(r)
         /\ r.state = next_state(t.state, ev)
         /\ r.cfg = t.cfg /\ r.outb = t.outb /\ r.inb = t.inb /\ r.st = t.st
         /\ r.tx = t.tx /\ r.calls = t.calls /\ r.fails = t.fails
<1>1. next_state(t.state, ev) \in States
  BY States_next_state DEF SessionOK
<1>2. QED BY <1>1 DEF transition, SessionOK, SessionFields

(* A closing event keeps the store in step with the counter.                *)
LEMMA Keeps_closing ==
  ASSUME NEW t, SessionOK(t), NEW ev \in ClosingEvents
  PROVE  /\ Keeps(t, transition(t, ev))
         /\ Advances(t, transition(t, ev), FALSE)
<1>1. t.state \in States
  BY DEF SessionOK
<1>2. QED BY <1>1, Session_transition, Closing DEF Keeps, Persisted, Advances

(* A new message, sent or failed, keeps the store in step with the counter. *)
LEMMA Keeps_SendNew ==
  ASSUME NEW t, SessionOK(t), NEW type, NEW x, NEW y
  PROVE  Keeps(t, SendNew(t, type, x, y))
<1> DEFINE r == SendNew(t, type, x, y)
<1>1. /\ SessionOK(r) /\ r.state = t.state /\ r.cfg = t.cfg
      /\ Sends(t) /\ t.cfg.store => r.st.next_sender_seq = r.outb
      /\ ~Sends(t) => r.outb = t.outb /\ r.st = t.st
  BY Session_SendNew
<1> HIDE DEF r
<1>2. QED BY <1>1 DEF Keeps, Persisted, r

(* Timer fields, callbacks and the frame of a call are of no concern to the *)
(* invariants.                                                              *)
Alike(t, r) ==
  /\ SessionOK(r)
  /\ r.state = t.state /\ r.cfg = t.cfg /\ r.outb = t.outb /\ r.inb = t.inb
  /\ r.st = t.st /\ r.tx = t.tx

(* The timers, the callbacks and the frame of a call touch neither counters,*)
(* state nor store.                                                         *)
LEMMA Session_alike ==
  ASSUME NEW t, SessionOK(t), NEW c
  PROVE  /\ Alike(t, message_received(t)) /\ Alike(t, message_sent(t))
         /\ Alike(t, reset_timer(t)) /\ Alike(t, Elapse(t))
         /\ Alike(t, Notify(t, c)) /\ Alike(t, Call(t, c))
         /\ Alike(t, [t EXCEPT !.interval = c])
         /\ Alike(t, [t EXCEPT !.pending = TRUE])
         /\ Alike(t, t)
BY Zenon DEF Alike, SessionOK, SessionFields, message_received, message_sent, reset_timer,
       Elapse, Notify, Call

(* What leaves counters, state and store alone preserves the invariant.     *)
LEMMA Keeps_alike ==
  ASSUME NEW t, NEW r, Alike(t, r), NEW got
  PROVE  Keeps(t, r) /\ Advances(t, r, got) /\ SessionOK(r)
BY DEF Alike, Keeps, Persisted, Advances

-----------------------------------------------------------------------------
(* The methods, one by one.                                                 *)

(* send_reject() and send_logout_and_disconnect(), the way out of a refused *)
(* message.                                                                 *)
LEMMA Keeps_send_logout_and_disconnect ==
  ASSUME NEW t, SessionOK(t), NEW ref, NEW reason
  PROVE  LET r == send_logout_and_disconnect(send_reject(t, ref, reason)) IN
         Keeps(t, r) /\ Advances(t, r, FALSE) /\ r.inb = t.inb
<1> DEFINE a == send_reject(t, ref, reason)
           b == SendNew(a, "Logout", Absent, Absent)
           c == transition(b, "Disconnect")
           r == Notify(c, "error")
<1>1. Keeps(t, a) /\ SessionOK(a) /\ a.inb = t.inb /\ a.state = t.state
  BY Keeps_SendNew, Session_SendNew DEF send_reject
<1> HIDE DEF a
<1>2. Keeps(a, b) /\ SessionOK(b) /\ b.inb = a.inb /\ b.state = a.state
  BY <1>1, Keeps_SendNew, Session_SendNew
<1> HIDE DEF b
<1>3. /\ Keeps(b, c) /\ Advances(b, c, FALSE) /\ SessionOK(c) /\ c.inb = b.inb
      /\ c.tx = b.tx
  BY Zenon, <1>2, Keeps_closing, Session_transition DEF ClosingEvents
<1> HIDE DEF c
<1>4. Alike(c, r) /\ Keeps(c, r)
  <2>1. Alike(c, r)
    BY Zenon, <1>3, Session_alike
  <2> HIDE DEF r
  <2>2. QED BY <2>1, Keeps_alike
<1> HIDE DEF r
<1>5. Keeps(t, r) /\ Advances(t, r, FALSE) /\ r.inb = t.inb
  BY <1>1, <1>2, <1>3, <1>4 DEF Keeps, Advances, Alike
<1>6. QED BY Zenon, <1>5 DEF send_logout_and_disconnect, a, b, c, r

(* on_timer_tick(): a timeout, a TestRequest, a Heartbeat or nothing.       *)
LEMMA Keeps_on_timer_tick ==
  ASSUME NEW t, SessionOK(t)
  PROVE  LET r == on_timer_tick(t) IN
         Keeps(t, r) /\ Advances(t, r, FALSE) /\ r.inb = t.inb
<1> DEFINE n(type) == SendNew(t, type, Absent, Absent)
           p == [n("TestRequest") EXCEPT !.pending = TRUE]
           x == transition(t, "HeartbeatTimeout")
           Good(r) == Keeps(t, r) /\ Advances(t, r, FALSE) /\ r.inb = t.inb
<1>1. Good(t)
  BY DEF Keeps, Advances
<1>2. ASSUME NEW type PROVE Good(n(type)) /\ SessionOK(n(type))
  BY Keeps_SendNew, Session_SendNew DEF Advances
<1>3. Good(x)
  BY Zenon, Keeps_closing, Session_transition DEF ClosingEvents
<1>4. Good(p)
  <2> HIDE DEF n
  <2>1. Alike(n("TestRequest"), p)
    BY Zenon, <1>2, Session_alike
  <2> HIDE DEF p
  <2>2. QED BY <2>1, <1>2, Keeps_alike DEF Keeps, Advances, Alike
<1>5. on_timer_tick(t) \in {t, x, n("TestRequest"), p, n("Heartbeat")}
  BY DEF on_timer_tick, send_test_request, send_heartbeat
<1> HIDE DEF n, p, x, Good
<1>6. Good(on_timer_tick(t))
  BY <1>1, <1>2, <1>3, <1>4, <1>5
<1>7. QED BY Zenon, <1>6 DEF Good

(* A Logon appended to what a call has sent is among what it has sent.      *)
LEMMA LogonAppended ==
  ASSUME NEW M, NEW q \in Seq(M), NEW x, NEW y, NEW n
  PROVE  LogonIn(Append(q, Message("Logon", n, x, y)))
<1> DEFINE m == Message("Logon", n, x, y)
<1>1. m.type = "Logon" /\ ~m.dup
  BY DEF Message
<1> HIDE DEF m
<1>2. q \in Seq(M \cup {m})
  OBVIOUS
<1>3. Len(Append(q, m)) = Len(q) + 1 /\ Append(q, m)[Len(q) + 1] = m /\ Len(q) \in Nat
  BY <1>2
<1>4. Len(q) + 1 \in 1 .. Len(Append(q, m))
  BY <1>3
<1>5. LogonIn(Append(q, m))
  BY <1>1, <1>3, <1>4 DEF LogonIn
<1>6. QED BY <1>5 DEF m

(* set_outbound() and set_inbound() change the counters alone.              *)
LEMMA Session_renumber ==
  ASSUME NEW t, SessionOK(t), NEW n \in SeqNums, NEW k \in Words
  PROVE  LET r == [t EXCEPT !.outb = n, !.inb = k] IN
         /\ SessionOK(r) /\ r.state = t.state /\ r.cfg = t.cfg /\ r.tx = t.tx
         /\ r.calls = t.calls /\ r.fails = t.fails
BY Zenon DEF SessionOK, SessionFields

(* Once the Logon has gone out, LogonSent is a state the store keeps up     *)
(* with; a failed Logon leaves the session where it was.                    *)
LEMMA Keeps_initiate_logon ==
  ASSUME NEW t, SessionOK(t), t.tx = <<>>
  PROVE  LET r == initiate_logon(t) IN
         /\ Keeps(t, r)
         /\ Advances(t, r, FALSE)
<1>1. CASE t.state # "SocketConnected"
  BY <1>1 DEF initiate_logon, Keeps, Advances
<1>2. CASE t.state = "SocketConnected"
  <2> DEFINE a == LogonNumbers(t)
             hb == t.cfg.heart_bt_int
             fl == Flag(t.cfg.reset_seq_num_on_logon)
             b == SendNew(a, "Logon", hb, fl)
             c == transition(b, "LogonSent")
  <2>1. /\ SessionOK(a) /\ a.state = t.state /\ a.cfg = t.cfg /\ a.tx = t.tx
        /\ Sends(a) <=> Sends(t)
    <3>1. 1 \in SeqNums /\ 1 \in Words
      BY SeqNumAssumption DEF SeqNums, Words, UINT32_MAX, INITIAL_SEQ_NUM
    <3>2. /\ t.outb \in SeqNums /\ t.inb \in Words
          /\ t.st.next_sender_seq \in SeqNums /\ t.st.next_target_seq \in Words
      BY DEF SessionOK, StoreOK
    <3>3. a = t \/ \E n \in SeqNums, k \in Words : a = [t EXCEPT !.outb = n, !.inb = k]
      BY Zenon, <3>1, <3>2 DEF LogonNumbers, INITIAL_SEQ_NUM
    <3> HIDE DEF a
    <3>4. CASE a = t
      BY <3>4
    <3>5. CASE \E n \in SeqNums, k \in Words : a = [t EXCEPT !.outb = n, !.inb = k]
      <4>1. PICK n \in SeqNums, k \in Words : a = [t EXCEPT !.outb = n, !.inb = k]
        BY Zenon, <3>5
      <4>2. /\ SessionOK(a) /\ a.state = t.state /\ a.cfg = t.cfg /\ a.tx = t.tx
            /\ a.calls = t.calls /\ a.fails = t.fails
        BY Zenon, <4>1, Session_renumber
      <4>3. QED BY <4>2 DEF Sends
    <3>6. QED BY Zenon, <3>3, <3>4, <3>5
  <2> HIDE DEF a, hb, fl
  <2>2. /\ SessionOK(b) /\ b.state = a.state /\ b.cfg = a.cfg
        /\ Sends(a) /\ a.cfg.store => b.st.next_sender_seq = b.outb
        /\ Sends(a) => b.tx = Append(a.tx, Message("Logon", a.outb, hb, fl))
    BY <2>1, Session_SendNew
  <2> HIDE DEF b
  <2>3. /\ SessionOK(c) /\ c.cfg = b.cfg /\ c.outb = b.outb /\ c.st = b.st /\ c.tx = b.tx
        /\ c.state = "LogonSent"
    BY <1>2, <2>1, <2>2, Session_transition DEF next_state
  <2> HIDE DEF c
  <2>4. CASE ~Sends(t)
    <3>1. Keeps(t, b) /\ Advances(t, b, FALSE)
      BY <1>2, <2>1, <2>2 DEF Keeps, Persisted, Advances, LoggedOn, Established
    <3>2. QED BY Zenon, <1>2, <2>4, <3>1 DEF initiate_logon, a, b, hb, fl
  <2>5. CASE Sends(t)
    <3>1. Keeps(t, c)
      BY <2>1, <2>2, <2>3, <2>5 DEF Keeps, Persisted
    <3>2. LogonIn(c.tx)
      <4>1. <<>> \in Seq({})
        OBVIOUS
      <4>2. QED BY Zenon, <4>1, <2>1, <2>2, <2>3, <2>5, LogonAppended
    <3>3. Advances(t, c, FALSE)
      BY <2>3, <3>2 DEF Advances, Established
    <3>4. QED BY Zenon, <1>2, <2>5, <3>1, <3>3 DEF initiate_logon, a, b, c, hb, fl
  <2>6. QED BY Zenon, <2>4, <2>5
<1>3. QED BY Zenon, <1>1, <1>2

(* initiate_logout() of an active session.                                  *)
LEMMA Keeps_initiate_logout ==
  ASSUME NEW t, SessionOK(t)
  PROVE  LET r == initiate_logout(t) IN
         Keeps(t, r) /\ Advances(t, r, FALSE) /\ r.inb = t.inb
<1> DEFINE b == SendNew(t, "Logout", Absent, Absent)
           c == transition(b, "LogoutSent")
<1>1. Keeps(t, b) /\ SessionOK(b) /\ b.inb = t.inb /\ b.state = t.state
  BY Keeps_SendNew, Session_SendNew
<1> HIDE DEF b
<1>2. /\ Keeps(b, c) /\ Advances(b, c, FALSE) /\ SessionOK(c) /\ c.inb = b.inb
      /\ c.tx = b.tx
  BY Zenon, <1>1, Keeps_closing, Session_transition DEF ClosingEvents
<1> HIDE DEF c
<1>3. initiate_logout(t) \in {t, b, c}
  BY DEF initiate_logout, b, c
<1>4. QED BY <1>1, <1>2, <1>3 DEF Keeps, Advances

(* send_app_message(), refused unless the session is active.                *)
LEMMA Keeps_send_app_message ==
  ASSUME NEW t, SessionOK(t), NEW body
  PROVE  LET r == send_app_message(t, body) IN
         Keeps(t, r) /\ Advances(t, r, FALSE) /\ r.inb = t.inb
<1> DEFINE b == SendNew(t, "App", body, Absent)
<1>1. Keeps(t, b) /\ b.inb = t.inb /\ b.state = t.state
  BY Keeps_SendNew, Session_SendNew
<1>2. send_app_message(t, body) \in {t, b}
  BY DEF send_app_message
<1> HIDE DEF b
<1>3. QED BY <1>1, <1>2 DEF Keeps, Advances

-----------------------------------------------------------------------------
(* The handlers of incoming messages.                                       *)

(* A Logon makes a session active only as the answer to its own, or after   *)
(* the reply to it went out.                                                *)
LEMMA Keeps_handle_logon ==
  ASSUME NEW t, SessionOK(t), NEW M, t.tx \in Seq(M), NEW m
  PROVE  LET r == handle_logon(t, m) IN
         Keeps(t, r) /\ Advances(t, r, TRUE) /\ r.inb = t.inb
<1> DEFINE Good(r) == Keeps(t, r) /\ Advances(t, r, TRUE) /\ r.inb = t.inb
<1>1. CASE t.state = "LogonSent"
  <2> DEFINE a == IF m.x # Absent THEN [t EXCEPT !.interval = m.x] ELSE t
             b == transition(a, "LogonReceived")
             c == reset_timer(b)
             d == Notify(c, "logon")
  <2>1. Alike(t, a)
    BY Zenon, Session_alike
  <2> HIDE DEF a
  <2>2. /\ SessionOK(b) /\ b.state = "Active" /\ b.cfg = a.cfg /\ b.outb = a.outb
        /\ b.inb = a.inb /\ b.st = a.st
    BY <1>1, <2>1, Session_transition DEF Alike, next_state
  <2> HIDE DEF b
  <2>3. Alike(b, c)
    BY Zenon, <2>2, Session_alike
  <2> HIDE DEF c
  <2>4. Alike(c, d)
    BY Zenon, <2>3, Keeps_alike, Session_alike
  <2> HIDE DEF d
  <2>5. Good(d)
    BY <1>1, <2>1, <2>2, <2>3, <2>4
    DEF Alike, Keeps, Persisted, LoggedOn, Advances, Established
  <2>6. QED BY Zenon, <1>1, <2>5 DEF handle_logon, a, b, c, d
<1>2. CASE t.state = "SocketConnected"
  <2> DEFINE a == transition(t, "LogonReceived")
             b == SendNew(a, "Logon", t.cfg.heart_bt_int, 0)
             c == transition(b, "LogonAcknowledged")
             d == reset_timer(c)
             e == Notify(d, "logon")
  <2>1. /\ SessionOK(a) /\ a.state = "LogonReceived" /\ a.cfg = t.cfg /\ a.inb = t.inb
        /\ a.tx = t.tx /\ (Sends(a) <=> Sends(t))
    BY <1>2, Session_transition DEF next_state, Sends
  <2> HIDE DEF a
  <2>2. /\ SessionOK(b) /\ b.state = a.state /\ b.cfg = a.cfg /\ b.inb = a.inb
        /\ Sends(a) /\ a.cfg.store => b.st.next_sender_seq = b.outb
        /\ Sends(a) => b.tx = Append(a.tx, Message("Logon", a.outb, t.cfg.heart_bt_int, 0))
    BY <2>1, Session_SendNew
  <2> HIDE DEF b
  <2>3. /\ SessionOK(c) /\ c.state = "Active" /\ c.cfg = b.cfg /\ c.outb = b.outb
        /\ c.inb = b.inb /\ c.st = b.st /\ c.tx = b.tx
    BY <2>1, <2>2, Session_transition DEF next_state
  <2> HIDE DEF c
  <2>4. Alike(c, d)
    BY Zenon, <2>3, Session_alike
  <2> HIDE DEF d
  <2>5. Alike(d, e)
    BY Zenon, <2>4, Keeps_alike, Session_alike
  <2> HIDE DEF e
  <2>6. CASE ~Sends(t)
    <3>1. Good(b)
      BY <2>1, <2>2 DEF Keeps, Persisted, LoggedOn, Advances, Established
    <3>2. QED BY Zenon, <1>2, <2>6, <3>1 DEF handle_logon, a, b
  <2>7. CASE Sends(t)
    <3>1. LogonIn(c.tx)
      BY Zenon, <2>1, <2>2, <2>3, <2>7, LogonAppended
    <3>2. Good(e)
      BY <2>1, <2>2, <2>3, <2>4, <2>5, <2>7, <3>1
      DEF Alike, Keeps, Persisted, Advances
    <3>3. QED BY Zenon, <1>2, <2>7, <3>2 DEF handle_logon, a, b, c, d, e
  <2>8. QED BY Zenon, <2>6, <2>7
<1>3. CASE t.state \notin {"LogonSent", "SocketConnected"}
  BY <1>3 DEF handle_logon, Keeps, Advances
<1>4. QED BY Zenon, <1>1, <1>2, <1>3

(* handle_logout(), as the answer to our Logout or as the peer's own.       *)
LEMMA Keeps_handle_logout ==
  ASSUME NEW t, SessionOK(t)
  PROVE  LET r == handle_logout(t) IN
         Keeps(t, r) /\ Advances(t, r, FALSE) /\ r.inb = t.inb
<1> DEFINE a == transition(t, "LogoutReceived")
           b == SendNew(a, "Logout", Absent, Absent)
           c == transition(b, "LogoutSent")
           Good(r) == /\ Keeps(t, r) /\ Advances(t, r, FALSE) /\ r.inb = t.inb
<1>1. Good(a) /\ SessionOK(a)
  BY Zenon, Keeps_closing, Session_transition DEF ClosingEvents
<1> HIDE DEF a
<1>2. Keeps(a, b) /\ SessionOK(b) /\ b.inb = a.inb /\ b.state = a.state
  BY <1>1, Keeps_SendNew, Session_SendNew
<1> HIDE DEF b
<1>3. Keeps(b, c) /\ Advances(b, c, FALSE) /\ SessionOK(c) /\ c.inb = b.inb
  BY Zenon, <1>2, Keeps_closing, Session_transition DEF ClosingEvents
<1>4. a.state \notin {"LogonSent", "LogonReceived"} \/ a.state = t.state
  BY Session_transition, Closing DEF SessionOK, ClosingEvents, a
<1>5. c.state = next_state(b.state, "LogoutSent")
  BY <1>2, Session_transition
<1> HIDE DEF c
<1>6. Good(b)
  BY <1>1, <1>2, <1>4 DEF Keeps, Advances
<1>7. Good(c)
  <2>1. b.state \in States
    BY <1>2 DEF SessionOK
  <2>2. /\ c.state \in Established => b.state \in Established
        /\ c.state \in {"LogonSent", "LogonReceived"} => c.state = b.state
    BY <2>1, <1>5, Closing DEF ClosingEvents
  <2>3. QED BY <1>1, <1>2, <1>3, <1>4, <2>2 DEF Keeps, Advances
<1>8. ASSUME NEW r, Good(r) PROVE Good(Notify(r, "logout"))
  <2>1. Alike(r, Notify(r, "logout"))
    BY Zenon, <1>8, Session_alike DEF Keeps
  <2>2. QED BY <1>8, <2>1 DEF Alike, Keeps, Persisted, Advances
<1>9. \E r \in {a, b, c} : handle_logout(t) = Notify(r, "logout")
  BY DEF handle_logout, a, b, c
<1> HIDE DEF Good
<1>10. Good(handle_logout(t))
  BY <1>1, <1>6, <1>7, <1>8, <1>9
<1>11. QED BY Zenon, <1>10 DEF Good

(* A replay and a gap fill touch neither the counters nor the store.        *)
LEMMA Keeps_handle_resend_request ==
  ASSUME NEW t, SessionOK(t), NEW m
  PROVE  LET r == handle_resend_request(t, m) IN
         Keeps(t, r) /\ Advances(t, r, FALSE) /\ r.inb = t.inb
<1> DEFINE Still(r) == /\ SessionOK(r) /\ r.state = t.state /\ r.cfg = t.cfg
                       /\ r.outb = t.outb /\ r.inb = t.inb /\ r.st = t.st
<1>1. Still(t)
  OBVIOUS
<1>2. ASSUME NEW kept PROVE Still(Replay(t, kept))
  BY Zenon DEF Replay, message_sent, SessionOK, SessionFields
<1>3. Still(GapFill(t, m.x))
  BY Zenon DEF GapFill, transmit, message_sent, SessionOK, SessionFields
<1> HIDE DEF Still
<1>4. Still(handle_resend_request(t, m))
  BY <1>1, <1>2, <1>3 DEF handle_resend_request
<1>5. QED BY <1>4 DEF Still, Keeps, Persisted, Advances

(* A gap fill moves the expectation forward or is rejected.                 *)
LEMMA Keeps_handle_sequence_reset ==
  ASSUME NEW t, SessionOK(t), NEW m, m.x \in Words \cup {Absent}
  PROVE  LET r == handle_sequence_reset(t, m) IN
         /\ Keeps(t, r) /\ Advances(t, r, FALSE)
         /\ m.y = 1 => r.inb >= t.inb
<1> DEFINE a == send_reject(t, m.seq, 5)
           b == [t EXCEPT !.inb = m.x]
<1>1. t.inb \in Words
  BY DEF SessionOK
<1>2. CASE m.x = Absent
  <2>1. handle_sequence_reset(t, m) = t
    BY <1>2 DEF handle_sequence_reset
  <2>2. QED BY <1>1, <2>1 DEF Keeps, Advances, Words
<1>3. CASE m.x # Absent /\ m.y = 1 /\ m.x < t.inb
  <2>1. handle_sequence_reset(t, m) = a
    BY <1>3 DEF handle_sequence_reset
  <2>2. Keeps(t, a) /\ a.state = t.state /\ a.inb = t.inb
    BY Keeps_SendNew, Session_SendNew DEF send_reject
  <2> HIDE DEF a
  <2>3. QED BY <1>1, <2>1, <2>2 DEF Advances, Words
<1>4. CASE m.x # Absent /\ ~(m.y = 1 /\ m.x < t.inb)
  <2>1. handle_sequence_reset(t, m) = b
    BY <1>4 DEF handle_sequence_reset
  <2>2. m.x \in Words
    BY <1>4
  <2>3. /\ SessionOK(b) /\ b.state = t.state /\ b.cfg = t.cfg /\ b.outb = t.outb
        /\ b.st = t.st /\ b.inb = m.x
    BY <2>2 DEF SessionOK, SessionFields
  <2> HIDE DEF b
  <2>4. QED BY <1>1, <1>4, <2>1, <2>2, <2>3 DEF Keeps, Persisted, Advances, Words
<1>5. QED BY Zenon, <1>2, <1>3, <1>4

(* What the peer may send.                                                  *)
PeerOK(m) ==
  /\ m.type \in MsgTypes
  /\ m.seq \in Words
  /\ m.type = "SequenceReset" => m.x \in Words \cup {Absent}

(* The dispatch by message type; only a SequenceReset in reset mode moves the*)
(* expected number back.                                                    *)
LEMMA Keeps_handle_message ==
  ASSUME NEW t, SessionOK(t), NEW M, t.tx \in Seq(M), NEW m, PeerOK(m)
  PROVE  LET r == IF m.type \in AdminTypes THEN handle_admin_message(t, m)
                  ELSE handle_app_message(t, m) IN
         /\ Keeps(t, r) /\ Advances(t, r, m.type = "Logon")
         /\ ~(m.type = "SequenceReset" /\ m.y # 1) => r.inb >= t.inb
<1> DEFINE h == IF m.type \in AdminTypes THEN handle_admin_message(t, m)
                ELSE handle_app_message(t, m)
           Good(r) == /\ Keeps(t, r) /\ Advances(t, r, m.type = "Logon")
                      /\ ~(m.type = "SequenceReset" /\ m.y # 1) => r.inb >= t.inb
<1>0. t.inb \in Int
  BY SeqNumAssumption DEF SessionOK, Words, UINT32_MAX
<1>1. CASE m.type = "Logon"
  <2>1. h = handle_logon(t, m)
    BY <1>1 DEF handle_admin_message, AdminTypes
  <2>2. Keeps(t, h) /\ Advances(t, h, TRUE) /\ h.inb = t.inb
    BY Zenon, <2>1, Keeps_handle_logon
  <2> HIDE DEF h
  <2>3. QED BY <1>0, <1>1, <2>2 DEF h, Advances
<1>2. CASE m.type = "Logout"
  <2>1. h = handle_logout(t)
    BY <1>2 DEF handle_admin_message, AdminTypes
  <2>2. Keeps(t, h) /\ Advances(t, h, FALSE) /\ h.inb = t.inb
    BY Zenon, <2>1, Keeps_handle_logout
  <2> HIDE DEF h
  <2>3. QED BY <1>0, <1>2, <2>2 DEF h, Advances
<1>3. CASE m.type = "Heartbeat"
  <2>1. h = t
    BY <1>3 DEF handle_admin_message, AdminTypes
  <2> HIDE DEF h
  <2>2. QED BY <1>0, <1>3, <2>1 DEF h, Keeps, Advances
<1>4. CASE m.type = "TestRequest"
  <2>1. h = SendNew(t, "Heartbeat", Absent, Absent)
    BY <1>4 DEF handle_admin_message, AdminTypes, handle_test_request
  <2>2. Keeps(t, h) /\ h.state = t.state /\ h.inb = t.inb
    BY <2>1, Keeps_SendNew, Session_SendNew
  <2> HIDE DEF h
  <2>3. QED BY <1>0, <1>4, <2>2 DEF h, Advances
<1>5. CASE m.type = "ResendRequest"
  <2>1. h = handle_resend_request(t, m)
    BY <1>5 DEF handle_admin_message, AdminTypes
  <2>2. Keeps(t, h) /\ Advances(t, h, FALSE) /\ h.inb = t.inb
    BY Zenon, <2>1, Keeps_handle_resend_request
  <2> HIDE DEF h
  <2>3. QED BY <1>0, <1>5, <2>2 DEF h, Advances
<1>6. CASE m.type = "SequenceReset"
  <2>1. h = handle_sequence_reset(t, m)
    BY <1>6 DEF handle_admin_message, AdminTypes
  <2>2. Keeps(t, h) /\ Advances(t, h, FALSE) /\ (m.y = 1 => h.inb >= t.inb)
    BY Zenon, <1>6, <2>1, Keeps_handle_sequence_reset DEF PeerOK
  <2> HIDE DEF h
  <2>3. QED BY <1>6, <2>2 DEF h, Advances
<1>7. CASE m.type = "Reject"
  <2>1. h = Notify(t, "error")
    BY <1>7 DEF handle_admin_message, AdminTypes
  <2>2. Alike(t, h)
    BY Zenon, <2>1, Session_alike
  <2> HIDE DEF h
  <2>3. QED BY <1>0, <1>7, <2>2 DEF h, Alike, Keeps, Persisted, Advances
<1>8. CASE m.type = "App"
  <2>1. h = [t EXCEPT !.app = Append(@, m)]
    BY <1>8 DEF handle_app_message, AdminTypes
  <2>2. Alike(t, h)
    BY Zenon, <2>1 DEF Alike, SessionOK, SessionFields
  <2> HIDE DEF h
  <2>3. QED BY <1>0, <1>8, <2>2 DEF h, Alike, Keeps, Persisted, Advances
<1>9. QED BY <1>1, <1>2, <1>3, <1>4, <1>5, <1>6, <1>7, <1>8
  DEF PeerOK, MsgTypes, AdminTypes

(* The part of on_data_received() behind the header checks: the verdict on the*)
(* number, the ResendRequest it may cause, then the dispatch.               *)
LEMMA Keeps_ProcessMessage ==
  ASSUME NEW t, SessionOK(t), t.tx = <<>>, NEW m, PeerOK(m)
  PROVE  LET r == ProcessMessage(t, m) IN
         /\ Keeps(t, r) /\ Advances(t, r, m.type = "Logon")
         /\ ~(m.type = "SequenceReset" /\ m.y # 1) /\ t.inb # UINT32_MAX
              => r.inb >= t.inb
<1> DEFINE expected == validate_inbound(t.inb, m.seq)
           gap == handle_sequence_gap(t, m.seq)
           next == [t EXCEPT !.inb = expected,
                             !.st = IF t.cfg.store
                                    THEN set_next_target_seq_num(@, expected) ELSE @]
           h(a) == IF m.type \in AdminTypes THEN handle_admin_message(a, m)
                   ELSE handle_app_message(a, m)
           Ready(a) == /\ SessionOK(a) /\ Keeps(t, a) /\ a.state = t.state
                       /\ \E M : a.tx \in Seq(M)
                       /\ t.inb # UINT32_MAX => a.inb >= t.inb
           Good(r) == /\ Keeps(t, r) /\ Advances(t, r, m.type = "Logon")
                      /\ ~(m.type = "SequenceReset" /\ m.y # 1) /\ t.inb # UINT32_MAX
                           => r.inb >= t.inb
<1>1. t.inb \in Words /\ m.seq \in Words /\ StoreOK(t.st) /\ t.inb \in Int
  BY SeqNumAssumption DEF SessionOK, PeerOK, Words, UINT32_MAX
<1>2. expected \in Words /\ (t.inb # UINT32_MAX => expected >= t.inb)
  BY <1>1, Inbound
<1> HIDE DEF expected
<1>3. Ready(t)
  <2>1. <<>> \in Seq({})
    OBVIOUS
  <2>2. QED BY <1>1, <2>1 DEF Keeps
<1>4. Ready(gap)
  <2> DEFINE x == gap_range(t.inb, m.seq)[1]
             y == gap_range(t.inb, m.seq)[2]
             q == Message("ResendRequest", t.outb, x, y)
  <2>1. gap = SendNew(t, "ResendRequest", x, y)
    BY DEF handle_sequence_gap
  <2> HIDE DEF gap, x, y
  <2>2. /\ SessionOK(gap) /\ Keeps(t, gap) /\ gap.state = t.state /\ gap.inb = t.inb
        /\ gap.tx \in {t.tx, Append(t.tx, q)}
    <3>1. Keeps(t, gap)
      BY <2>1, Keeps_SendNew
    <3>2. SessionOK(gap) /\ gap.state = t.state /\ gap.inb = t.inb
      BY <2>1, Session_SendNew
    <3>3. (Sends(t) => gap.tx = Append(t.tx, q)) /\ (~Sends(t) => gap.tx = t.tx)
      BY <2>1, Session_SendNew
    <3>4. QED BY Zenon, <3>1, <3>2, <3>3
  <2> HIDE DEF q
  <2>3. <<>> \in Seq({q}) /\ Append(<<>>, q) \in Seq({q})
    OBVIOUS
  <2>4. gap.tx \in Seq({q})
    BY Zenon, <2>2, <2>3
  <2>5. QED BY <1>1, <2>2, <2>4
<1>5. Ready(next)
  <2> DEFINE st2 == IF t.cfg.store THEN set_next_target_seq_num(t.st, expected) ELSE t.st
  <2>1. StoreOK(st2) /\ st2.next_sender_seq = t.st.next_sender_seq
    BY <1>1, <1>2 DEF StoreOK, StoreFields, set_next_target_seq_num, Keys
  <2> HIDE DEF st2
  <2>2. next = [t EXCEPT !.inb = expected, !.st = st2]
    BY DEF st2
  <2>3. /\ SessionOK(next) /\ next.state = t.state /\ next.cfg = t.cfg /\ next.tx = t.tx
        /\ next.outb = t.outb /\ next.st = st2 /\ next.inb = expected
    BY Zenon, <1>2, <2>1, <2>2 DEF SessionOK, SessionFields
  <2> HIDE DEF next
  <2>4. <<>> \in Seq({})
    OBVIOUS
  <2>5. QED BY <1>2, <2>1, <2>3, <2>4 DEF Keeps, Persisted
<1> HIDE DEF gap, next
<1>6. ASSUME NEW a, Ready(a) PROVE Good(h(a))
  <2>1. PICK M : a.tx \in Seq(M)
    BY <1>6
  <2>2. a.inb \in Int
    BY <1>6, SeqNumAssumption DEF SessionOK, Words, UINT32_MAX
  <2>3. /\ Keeps(a, h(a)) /\ Advances(a, h(a), m.type = "Logon")
        /\ ~(m.type = "SequenceReset" /\ m.y # 1) => h(a).inb >= a.inb
    BY <1>6, <2>1, Keeps_handle_message
  <2>4. h(a).inb \in Int
    BY <2>3, SeqNumAssumption DEF Keeps, SessionOK, Words, UINT32_MAX
  <2> HIDE DEF h
  <2>5. QED BY <1>1, <1>6, <2>2, <2>3, <2>4 DEF Keeps, Advances
<1>7. Good(handle_sequence_error(t))
  <2>1. Alike(t, handle_sequence_error(t))
    BY Zenon, Session_alike DEF handle_sequence_error
  <2>2. QED BY <1>1, <2>1 DEF Alike, Keeps, Persisted, Advances
<1>8. \/ ProcessMessage(t, m) = handle_sequence_error(t)
      \/ \E a \in {t, gap, next} : ProcessMessage(t, m) = h(a)
  BY DEF ProcessMessage, SequenceResult, expected, gap, next
<1> HIDE DEF Good, h, Ready
<1>9. Good(ProcessMessage(t, m))
  BY <1>3, <1>4, <1>5, <1>6, <1>7, <1>8
<1>10. QED BY <1>9 DEF Good

(* on_data_received(), with each of its early returns.                      *)
LEMMA Keeps_on_data_received ==
  ASSUME NEW t, SessionOK(t), t.tx = <<>>, NEW m, PeerOK(m)
  PROVE  LET r == on_data_received(t, m) IN
         /\ Keeps(t, r) /\ Advances(t, r, m.type = "Logon")
         /\ ~(m.type = "SequenceReset" /\ m.y # 1) /\ t.inb # UINT32_MAX
              => r.inb >= t.inb
<1> DEFINE a == message_received(t)
           Good(b, r) ==
             /\ Keeps(b, r) /\ Advances(b, r, m.type = "Logon")
             /\ ~(m.type = "SequenceReset" /\ m.y # 1) /\ b.inb # UINT32_MAX
                  => r.inb >= b.inb
<1>1. Alike(t, a) /\ SessionOK(a) /\ a.tx = <<>>
  BY Zenon, Session_alike DEF Alike
<1>2. a.inb \in Int
  BY <1>1, SeqNumAssumption DEF SessionOK, Words, UINT32_MAX
<1> HIDE DEF a
<1>3. ASSUME NEW reason
      PROVE  Good(a, send_logout_and_disconnect(send_reject(a, m.seq, reason)))
  <2> DEFINE r == send_logout_and_disconnect(send_reject(a, m.seq, reason))
  <2>1. Keeps(a, r) /\ Advances(a, r, FALSE) /\ r.inb = a.inb
    BY Zenon, <1>1, Keeps_send_logout_and_disconnect
  <2> HIDE DEF r
  <2>2. QED BY <1>2, <2>1 DEF r, Advances
<1>4. Good(a, send_reject(a, m.seq, 1))
  <2> DEFINE r == send_reject(a, m.seq, 1)
  <2>1. Keeps(a, r) /\ r.state = a.state /\ r.inb = a.inb
    BY <1>1, Keeps_SendNew, Session_SendNew DEF send_reject
  <2> HIDE DEF r
  <2>2. QED BY <1>2, <2>1 DEF r, Advances
<1>5. Good(a, ProcessMessage(a, m))
  BY <1>1, Keeps_ProcessMessage
<1> HIDE DEF Good
<1>6. Good(a, on_data_received(t, m))
  BY <1>3, <1>4, <1>5 DEF on_data_received, a
<1>7. QED BY <1>1, <1>6 DEF Good, Alike, Keeps, Persisted, Advances

-----------------------------------------------------------------------------
(* The first and the last step of a session's calls.                        *)

(* The end of a call forgets what the call sent.                            *)
LEMMA Session_Return ==
  ASSUME NEW t, SessionOK(t)
  PROVE  LET r == Return(t) IN
         /\ SessionOK(r) /\ r.tx = <<>>
         /\ r.state = t.state /\ r.cfg = t.cfg /\ r.outb = t.outb /\ r.inb = t.inb
         /\ r.st = t.st /\ r.app = <<>> /\ r.interval = t.interval
BY Zenon DEF Return, SessionOK, SessionFields

(* A SessionManager just built over a good store.                           *)
LEMMA Session_New ==
  ASSUME NEW c, NEW st, StoreOK(st)
  PROVE  LET t == NewSession(c, st) IN
         /\ SessionOK(t) /\ t.tx = <<>> /\ t.state = "Disconnected" /\ t.cfg = c
         /\ Persisted(t) /\ t.st = st
         /\ t.outb = 1 /\ t.inb = 1 /\ t.app = <<>> /\ t.interval = c.heart_bt_int
<1>1. 1 \in SeqNums /\ 1 \in Words
  BY SeqNumAssumption DEF SeqNums, Words, UINT32_MAX, INITIAL_SEQ_NUM
<1>2. QED BY Zenon, <1>1
  DEF NewSession, SessionOK, SessionFields, States, INITIAL_SEQ_NUM, Persisted, LoggedOn

(* The store before any message.                                            *)
LEMMA Store_New == StoreOK(NewStore)
BY SeqNumAssumption
DEF NewStore, StoreOK, StoreFields, SeqNums, Words, UINT32_MAX, INITIAL_SEQ_NUM, Keys
=============================================================================
