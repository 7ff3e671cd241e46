---------------------------- MODULE FixLinkProofs ----------------------------
(***************************************************************************)
(* The two engines of FixLink over one TCP connection, for initiators that *)
(* reset the numbers at logon: every configuration of store, heartbeat and *)
(* limits, any pattern of failing sends, any number of reconnections.      *)
(***************************************************************************)
EXTENDS FixLink, SessionManagerProofs

(* Every initiator sends its Logon with ResetSeqNumFlag.                    *)
ResetsAtLogon == \A c \in InitiatorConfigs : c.reset_seq_num_on_logon

(* No end has used its last sequence number on the present connection.      *)
Unwrapped == i.outb < MAX_SEQ_NUM /\ a.outb < MAX_SEQ_NUM

(* What a session puts on the wire as long as it meets no gap.              *)
WireTypes == {"Logon", "Logout", "Heartbeat", "TestRequest", "App"}

Fields ==
  Bodies \cup {Absent, 0, 1}
         \cup {c.heart_bt_int : c \in InitiatorConfigs \cup {AcceptorConfig}}

WireMsgs ==
  {Message(type, n, x, y) : type \in WireTypes, n \in SeqNums, x \in Fields, y \in Fields}

-----------------------------------------------------------------------------
(* The inductive invariant.                                                 *)

Idle(t) == SessionOK(t) /\ t.tx = <<>> /\ t.app = <<>>

Opening == {"SocketConnected", "LogonSent"}

Answered == {"Active", "LogoutReceived", "Disconnected", "Error"}

(* Until the acceptor has answered the Logon nothing else is on the way, and*)
(* the initiator has nothing it could take for an answer.                   *)
Handshake(ii, aa, qa, qi) ==
  \/ aa.state \in Answered
  \/ /\ aa.state \in {"SocketConnected", "LogonReceived"}
     /\ qi = <<>>
     /\ ii.state \in Opening
     /\ \A n \in 1 .. Len(qa) : qa[n].type = "Logon"

(* The application messages handed on and those on the way.                 *)
AppsOK(sn, gt, qa, inb) ==
  /\ gt \in Seq(WireMsgs)
  /\ \A n, k \in 1 .. Len(gt) : n < k => gt[n].seq < gt[k].seq
  /\ \A n \in 1 .. Len(gt) : gt[n].seq < inb
  /\ sn = {gt[n] : n \in 1 .. Len(gt)} \cup Apps(qa)

(* A standing connection.                                                   *)
LinkOK(ii, aa, qa, qi, sn, gt) ==
  /\ Numbered(qa, aa.inb, ii.outb)
  /\ Numbered(qi, ii.inb, aa.outb)
  /\ Handshake(ii, aa, qa, qi)
  /\ AppsOK(sn, gt, qa, aa.inb)

(* A connection in the backlog.                                             *)
PendingOK(ii, qw, sn) ==
  /\ ii.inb = INITIAL_SEQ_NUM
  /\ Numbered(qw, INITIAL_SEQ_NUM, ii.outb)
  /\ ii.state \in Opening
  /\ \A n \in 1 .. Len(qw) : qw[n].type = "Logon"
  /\ sn = {}

Base(ii, aa, qa, qi, qw) ==
  /\ Idle(ii) /\ ii.cfg \in InitiatorConfigs
  /\ Idle(aa) /\ aa.cfg = AcceptorConfig
  /\ qa \in Seq(WireMsgs) /\ qi \in Seq(WireMsgs) /\ qw \in Seq(WireMsgs)

LInv ==
  /\ Base(i, a, toA, toI, waiting)
  /\ iconn = "linked" <=> aconn = "linked"
  /\ iconn = "linked" => LinkOK(i, a, toA, toI, sent, got)
  /\ iconn = "pending" => PendingOK(i, waiting, sent)

-----------------------------------------------------------------------------
(* Sessions between and during calls.                                       *)

(* What leaves a session's numbers and what it sent and handed on alone.    *)
Quiet(t, r) ==
  /\ SessionOK(r)
  /\ r.cfg = t.cfg /\ r.outb = t.outb /\ r.inb = t.inb /\ r.interval = t.interval
  /\ r.tx = t.tx /\ r.app = t.app /\ r.calls = t.calls /\ r.fails = t.fails

(* r is t after a call that put at most one new message on the wire, of one *)
(* of the given types and under the session's next number.                  *)
Posts(t, r, types) ==
  \/ r.tx = <<>> /\ r.outb = t.outb
  \/ /\ r.outb = t.outb + 1
     /\ \E m \in WireMsgs : m.type \in types /\ m.seq = t.outb /\ r.tx = <<m>>

(* The timers, the callbacks and transition() change neither the numbers nor*)
(* what was sent.                                                           *)
LEMMA Quiet_steps ==
  ASSUME NEW t, SessionOK(t), NEW c
  PROVE  /\ Quiet(t, transition(t, c)) /\ Quiet(t, Notify(t, c))
         /\ Quiet(t, reset_timer(t)) /\ Quiet(t, message_received(t))
         /\ Quiet(t, [t EXCEPT !.pending = TRUE])
         /\ Quiet(t, Now(t)) /\ Quiet(t, Later(t, c))
<1>1. next_state(t.state, c) \in States
  BY States_next_state DEF SessionOK
<1>2. Quiet(t, transition(t, c))
  BY <1>1 DEF transition, Quiet, SessionOK, SessionFields
<1>3. QED BY Zenon, <1>2
  DEF Quiet, SessionOK, SessionFields, Notify, reset_timer, message_received, Now, Later

(* What SendNew() does in a session that has sent nothing yet in this call  *)
(* and whose counter does not wrap.                                         *)
LEMMA Posts_SendNew ==
  ASSUME NEW t, SessionOK(t), t.tx = <<>>, t.outb < MAX_SEQ_NUM,
         NEW type \in WireTypes, NEW x \in Fields, NEW y \in Fields
  PROVE  LET r == SendNew(t, type, x, y) IN
         /\ SessionOK(r) /\ r.state = t.state /\ r.inb = t.inb /\ r.cfg = t.cfg
         /\ r.app = t.app /\ r.interval = t.interval
         /\ Posts(t, r, {type})
         /\ ~Sends(t) => r.tx = <<>>
<1> DEFINE r == SendNew(t, type, x, y)
           m == Message(type, t.outb, x, y)
<1>1. /\ SessionOK(r) /\ r.state = t.state /\ r.inb = t.inb /\ r.cfg = t.cfg
      /\ ~Sends(t) => r.outb = t.outb /\ r.tx = t.tx
      /\ Sends(t) => r.tx = Append(t.tx, m)
  BY Session_SendNew
<1>2. r.app = t.app /\ r.interval = t.interval
  BY DEF SendNew, send_message, transmit, message_sent, Persist, SessionOK, SessionFields
<1>3. Sends(t) => r.outb = next_outbound(t.outb)
  BY DEF SendNew, send_message, transmit, message_sent, Persist, SessionOK, SessionFields, Sends
<1>4. next_outbound(t.outb) = t.outb + 1
  BY SeqNumAssumption DEF next_outbound, SessionOK, SeqNums, INITIAL_SEQ_NUM
<1>5. m \in WireMsgs /\ m.type = type /\ m.seq = t.outb
  <2>1. m.type = type /\ m.seq = t.outb
    BY DEF Message
  <2>2. t.outb \in SeqNums
    BY DEF SessionOK
  <2>3. m \in WireMsgs
    BY <2>2 DEF WireMsgs
  <2>4. QED BY <2>1, <2>3
<1> HIDE DEF m
<1>6. Append(<<>>, m) = <<m>>
  OBVIOUS
<1> HIDE DEF r
<1>7. Posts(t, r, {type})
  BY <1>1, <1>3, <1>4, <1>5, <1>6 DEF Posts
<1>8. QED BY <1>1, <1>2, <1>7 DEF r

(* What is on the wire carries the header fields of a new message.          *)
LEMMA WireFields ==
  ASSUME NEW m \in WireMsgs
  PROVE  /\ m.type \in WireTypes /\ m.seq \in SeqNums /\ m.comp /\ m.time /\ ~m.dup
         /\ PeerOK(m)
<1>1. PICK type \in WireTypes, n \in SeqNums, x \in Fields, y \in Fields :
        m = Message(type, n, x, y)
  BY DEF WireMsgs
<1>2. m.type = type /\ m.seq = n /\ m.comp /\ m.time /\ ~m.dup
  BY <1>1 DEF Message
<1>3. PeerOK(m)
  BY <1>2, SeqNumAssumption
  DEF PeerOK, WireTypes, MsgTypes, AdminTypes, SeqNums, Words, UINT32_MAX, INITIAL_SEQ_NUM
<1>4. QED BY <1>2, <1>3

(* The configured fields a session writes into its messages.                *)
LEMMA FieldsKnown ==
  /\ Absent \in Fields /\ 0 \in Fields /\ 1 \in Fields
  /\ \A b \in Bodies : b \in Fields
  /\ \A c \in InitiatorConfigs \cup {AcceptorConfig} : c.heart_bt_int \in Fields
BY DEF Fields

(* A session that sends what it was asked to send, or ticks: at most one    *)
(* message, and nothing handed on.                                          *)
Sending(t, r, types) ==
  /\ SessionOK(r) /\ r.cfg = t.cfg /\ r.inb = t.inb
  /\ r.app = t.app /\ r.interval = t.interval
  /\ Posts(t, r, types)

(* send_app_message() outside the state Active does nothing.                *)
LEMMA Sending_send_app_message ==
  ASSUME NEW t, SessionOK(t), t.tx = <<>>, t.outb < MAX_SEQ_NUM, NEW body \in Bodies
  PROVE  LET r == send_app_message(t, body) IN
         /\ Sending(t, r, {"App"})
         /\ r.state = t.state
         /\ t.state # "Active" => r = t
<1> DEFINE r == send_app_message(t, body)
           b == SendNew(t, "App", body, Absent)
<1>1. Sending(t, b, {"App"}) /\ b.state = t.state
  BY Posts_SendNew, FieldsKnown DEF Sending, WireTypes
<1>2. Sending(t, t, {"App"})
  BY DEF Sending, Posts
<1> HIDE DEF b
<1>3. r \in {t, b} /\ (t.state # "Active" => r = t)
  BY DEF send_app_message, can_send_app_messages, b
<1> HIDE DEF r
<1>4. QED BY <1>1, <1>2, <1>3 DEF r

(* initiate_logout(): only an active session has anything to end.           *)
LEMMA Sending_initiate_logout ==
  ASSUME NEW t, SessionOK(t), t.tx = <<>>, t.outb < MAX_SEQ_NUM
  PROVE  LET r == initiate_logout(t) IN
         /\ Sending(t, r, {"Logout"})
         /\ t.state # "Active" => r = t
<1> DEFINE r == initiate_logout(t)
           b == SendNew(t, "Logout", Absent, Absent)
           c == transition(b, "LogoutSent")
<1>1. Sending(t, b, {"Logout"})
  BY Posts_SendNew, FieldsKnown DEF Sending, WireTypes
<1>2. Sending(t, t, {"Logout"})
  BY DEF Sending, Posts
<1> HIDE DEF b
<1>3. Quiet(b, c)
  BY Zenon, <1>1, Quiet_steps DEF Sending
<1> HIDE DEF c
<1>4. Sending(t, c, {"Logout"})
  BY <1>1, <1>3 DEF Sending, Posts, Quiet
<1>5. r \in {t, b, c} /\ (t.state # "Active" => r = t)
  BY DEF initiate_logout, b, c
<1> HIDE DEF r
<1>6. QED BY <1>1, <1>2, <1>4, <1>5 DEF r

(* on_timer_tick(): the state changes only when the peer has been silent for*)
(* too long.                                                                *)
LEMMA Sending_on_timer_tick ==
  ASSUME NEW t, SessionOK(t), t.tx = <<>>, t.outb < MAX_SEQ_NUM
  PROVE  LET r == on_timer_tick(t) IN
         /\ Sending(t, r, {"TestRequest", "Heartbeat"})
         /\ t.state # "Active" => r = t
         /\ r.state \in {t.state, "Error"}
<1> DEFINE r == on_timer_tick(t)
           h == SendNew(t, "Heartbeat", Absent, Absent)
           n == SendNew(t, "TestRequest", Absent, Absent)
           p == [n EXCEPT !.pending = TRUE]
           x == transition(t, "HeartbeatTimeout")
           Good(z) == Sending(t, z, {"TestRequest", "Heartbeat"})
<1>1. Good(t)
  BY DEF Sending, Posts
<1>2. Sending(t, h, {"Heartbeat"}) /\ h.state = t.state
  BY Posts_SendNew, FieldsKnown DEF Sending, WireTypes
<1>3. Sending(t, n, {"TestRequest"}) /\ n.state = t.state
  BY Posts_SendNew, FieldsKnown DEF Sending, WireTypes
<1>4. Quiet(t, x)
  BY Zenon, Quiet_steps
<1> HIDE DEF h, n, x
<1>5. Good(h) /\ Good(n)
  BY <1>2, <1>3 DEF Sending, Posts
<1>6. Good(x)
  BY <1>4 DEF Sending, Posts, Quiet
<1>7. Quiet(n, p) /\ p.state = n.state
  BY <1>3, Quiet_steps DEF Sending, SessionOK, SessionFields
<1> HIDE DEF p
<1>8. Good(p)
  BY <1>5, <1>7 DEF Sending, Posts, Quiet
<1> HIDE DEF Good
<1>9. /\ r \in {t, n, p, h} \/ (r = x /\ t.state = "Active")
      /\ t.state # "Active" => r = t
  BY DEF on_timer_tick, send_test_request, send_heartbeat, n, p, h, x
<1> HIDE DEF r
<1>10. Good(r)
  BY <1>1, <1>5, <1>6, <1>8, <1>9
<1>11. r.state \in {t.state, "Error"}
  <2>1. CASE r \in {t, n, p, h}
    BY <1>2, <1>3, <1>7, <2>1
  <2>2. CASE r = x /\ t.state = "Active"
    BY <2>2, Session_transition DEF x, next_state
  <2>3. QED BY <1>9, <2>1, <2>2
<1>12. QED BY <1>9, <1>10, <1>11 DEF r, Good

(* initiate_logon() of a session that resets its numbers: a Logon under the *)
(* first number, or nothing.                                                *)
LEMMA Sending_initiate_logon ==
  ASSUME NEW t, SessionOK(t), t.tx = <<>>, t.app = <<>>, t.state = "SocketConnected",
         t.cfg.reset_seq_num_on_logon, t.cfg \in InitiatorConfigs
  PROVE  LET r == initiate_logon(t) IN
         /\ SessionOK(r) /\ r.cfg = t.cfg /\ r.inb = 1 /\ r.state \in Opening
         /\ \/ r.tx = <<>> /\ r.outb = 1
            \/ /\ r.outb = 2
               /\ \E m \in WireMsgs : m.type = "Logon" /\ m.seq = 1 /\ r.tx = <<m>>
<1> DEFINE r == initiate_logon(t)
           n == LogonNumbers(t)
           b == SendNew(n, "Logon", t.cfg.heart_bt_int, 1)
           c == transition(b, "LogonSent")
<1>1. 1 \in SeqNums /\ 1 \in Words /\ 1 < MAX_SEQ_NUM
  BY SeqNumAssumption DEF SeqNums, Words, UINT32_MAX, INITIAL_SEQ_NUM
<1>2. n = [t EXCEPT !.outb = 1, !.inb = 1]
  BY DEF LogonNumbers, INITIAL_SEQ_NUM
<1>3. /\ SessionOK(n) /\ n.state = "SocketConnected" /\ n.cfg = t.cfg /\ n.tx = <<>>
      /\ n.outb = 1 /\ n.inb = 1
  BY Zenon, <1>1, <1>2 DEF SessionOK, SessionFields
<1> HIDE DEF n
<1>4. /\ SessionOK(b) /\ b.state = "SocketConnected" /\ b.inb = 1 /\ b.cfg = t.cfg
      /\ Posts(n, b, {"Logon"})
  BY <1>1, <1>3, Posts_SendNew, FieldsKnown DEF WireTypes
<1> HIDE DEF b
<1>5. Quiet(b, c) /\ c.state = "LogonSent"
  BY Zenon, <1>4, Quiet_steps, Session_transition DEF next_state
<1> HIDE DEF c
<1>6. r \in {b, c}
  BY DEF initiate_logon, Flag, n, b, c
<1> HIDE DEF r
<1>7. CASE r = b
  BY <1>3, <1>4, <1>7 DEF Posts, Opening, r
<1>8. CASE r = c
  BY <1>3, <1>4, <1>5, <1>8 DEF Posts, Opening, Quiet, r
<1>9. QED BY <1>6, <1>7, <1>8

-----------------------------------------------------------------------------
(* Receiving the message that is expected.                                  *)

(* One message is taken; what it causes is at most one message, never an    *)
(* application message.                                                     *)
Handling(t, m, r) ==
  /\ SessionOK(r) /\ r.cfg = t.cfg /\ r.inb = t.inb
  /\ r.app = IF m.type = "App" THEN <<m>> ELSE <<>>
  /\ Posts(t, r, AdminTypes)
  /\ t.state # "LogonSent" => r.interval = t.interval
  /\ t.state \in Answered => r.state \in Answered
  /\ t.state \in {"SocketConnected", "LogonReceived"} /\ m.type = "Logon"
       => r.state = "Active" \/ (r.state = "LogonReceived" /\ r.tx = <<>>)

(* A session in the middle of a call that has sent and handed on nothing.   *)
Fresh(t) ==
  /\ SessionOK(t) /\ t.tx = <<>> /\ t.app = <<>> /\ t.outb < MAX_SEQ_NUM
  /\ t.cfg \in InitiatorConfigs \cup {AcceptorConfig}

(* handle_logon() in each state a session can meet a Logon in.              *)
LEMMA Handling_handle_logon ==
  ASSUME NEW t, Fresh(t), NEW m, m.type = "Logon"
  PROVE  Handling(t, m, handle_logon(t, m))
<1> USE DEF Fresh
<1>1. CASE t.state = "LogonSent"
  <2> DEFINE a1 == IF m.x # Absent THEN [t EXCEPT !.interval = m.x] ELSE t
             b == transition(a1, "LogonReceived")
             c == reset_timer(b)
             d == Notify(c, "logon")
  <2>1. /\ SessionOK(a1) /\ a1.cfg = t.cfg /\ a1.outb = t.outb /\ a1.inb = t.inb
        /\ a1.tx = <<>> /\ a1.app = <<>>
    BY DEF SessionOK, SessionFields
  <2> HIDE DEF a1
  <2>2. Quiet(a1, b)
    BY Zenon, <2>1, Quiet_steps
  <2> HIDE DEF b
  <2>3. Quiet(b, c) /\ SessionOK(c)
    <3>1. SessionOK(b)
      BY <2>2 DEF Quiet
    <3>2. Quiet(b, c)
      BY Zenon, <3>1, Quiet_steps
    <3>3. QED BY <3>2 DEF Quiet
  <2> HIDE DEF c
  <2>4. Quiet(c, d)
    BY Zenon, <2>3, Quiet_steps
  <2> HIDE DEF d
  <2>5. handle_logon(t, m) = d
    BY <1>1 DEF handle_logon, a1, b, c, d
  <2>6. QED BY <1>1, <2>1, <2>2, <2>3, <2>4, <2>5 DEF Quiet, Handling, Posts, Answered
<1>2. CASE t.state = "SocketConnected"
  <2> DEFINE a1 == transition(t, "LogonReceived")
             b == SendNew(a1, "Logon", t.cfg.heart_bt_int, 0)
             c == transition(b, "LogonAcknowledged")
             d == reset_timer(c)
             e == Notify(d, "logon")
  <2>1. Quiet(t, a1) /\ a1.state = "LogonReceived" /\ (Sends(a1) <=> Sends(t))
    BY Zenon, <1>2, Quiet_steps, Session_transition DEF next_state, Sends
  <2> HIDE DEF a1
  <2>2. /\ SessionOK(b) /\ b.state = a1.state /\ b.inb = a1.inb /\ b.cfg = a1.cfg
        /\ b.app = a1.app /\ b.interval = a1.interval
        /\ Posts(a1, b, {"Logon"}) /\ (~Sends(a1) => b.tx = <<>>)
    <3>1. SessionOK(a1) /\ a1.tx = <<>> /\ a1.outb < MAX_SEQ_NUM
      BY <2>1 DEF Quiet
    <3>2. QED BY <3>1, Posts_SendNew, FieldsKnown DEF WireTypes
  <2> HIDE DEF b
  <2>3. Quiet(b, c) /\ SessionOK(c) /\ c.state = "Active"
    <3>1. Quiet(b, c)
      BY Zenon, <2>2, Quiet_steps
    <3>2. SessionOK(c) /\ c.state = "Active"
      BY <2>1, <2>2, Session_transition DEF next_state
    <3>3. QED BY <3>1, <3>2
  <2> HIDE DEF c
  <2>4. Quiet(c, d) /\ SessionOK(d) /\ d.state = c.state
    <3>1. Quiet(c, d)
      BY Zenon, <2>3, Quiet_steps
    <3>2. QED BY Zenon, <2>3, <3>1, Session_alike DEF Quiet, Alike
  <2> HIDE DEF d
  <2>5. Quiet(d, e) /\ e.state = d.state
    <3>1. Quiet(d, e)
      BY Zenon, <2>4, Quiet_steps
    <3>2. Alike(d, e)
      BY Zenon, <2>4, Session_alike
    <3>3. QED BY <3>1, <3>2 DEF Alike
  <2> HIDE DEF e
  <2>6. Posts(t, b, AdminTypes)
    BY <2>1, <2>2 DEF Posts, Quiet, AdminTypes
  <2>7. CASE ~Sends(t)
    <3>1. handle_logon(t, m) = b
      BY <1>2, <2>7 DEF handle_logon, a1, b
    <3>2. QED BY <1>2, <2>1, <2>2, <2>6, <2>7, <3>1 DEF Quiet, Handling, Answered
  <2>8. CASE Sends(t)
    <3>1. handle_logon(t, m) = e
      BY <1>2, <2>8 DEF handle_logon, a1, b, c, d, e
    <3>2. Quiet(b, e) /\ e.state = "Active"
      BY <2>3, <2>4, <2>5 DEF Quiet
    <3>3. Posts(t, e, AdminTypes)
      BY <2>6, <3>2 DEF Posts, Quiet
    <3>4. QED BY <1>2, <2>1, <2>2, <3>1, <3>2, <3>3 DEF Quiet, Handling, Answered
  <2>9. QED BY <2>7, <2>8
<1>3. CASE t.state \notin {"LogonSent", "SocketConnected"}
  BY <1>3 DEF handle_logon, Handling, Posts
<1>4. QED BY <1>1, <1>2, <1>3

(* handle_logout(): the answer to ours, or the peer's own, which is         *)
(* answered in any state.                                                   *)
LEMMA Handling_handle_logout ==
  ASSUME NEW t, Fresh(t), NEW m, m.type = "Logout"
  PROVE  Handling(t, m, handle_logout(t))
<1> DEFINE b == transition(t, "LogoutReceived")
           c == SendNew(b, "Logout", Absent, Absent)
           d == transition(c, "LogoutSent")
           Good(r) == /\ SessionOK(r) /\ r.cfg = t.cfg /\ r.inb = t.inb
                      /\ r.app = t.app /\ r.interval = t.interval
                      /\ Posts(t, r, AdminTypes)
                      /\ t.state \in Answered => r.state \in Answered
<1>0. SessionOK(t) /\ t.tx = <<>> /\ t.app = <<>> /\ t.outb < MAX_SEQ_NUM
  BY DEF Fresh
<1>1. Quiet(t, b) /\ b.state = next_state(t.state, "LogoutReceived")
  BY Zenon, <1>0, Quiet_steps, Session_transition
<1>2. t.state \in Answered => b.state \in {"LogoutReceived", "Disconnected", "Error"}
  BY <1>1 DEF Answered, next_state
<1> HIDE DEF b
<1>3. SessionOK(b) /\ b.tx = <<>> /\ b.outb < MAX_SEQ_NUM
  BY <1>0, <1>1 DEF Quiet
<1>4. /\ SessionOK(c) /\ c.state = b.state /\ c.inb = b.inb /\ c.cfg = b.cfg
      /\ c.app = b.app /\ c.interval = b.interval /\ Posts(b, c, {"Logout"})
  BY <1>3, Posts_SendNew, FieldsKnown DEF WireTypes
<1> HIDE DEF c
<1>5. Quiet(c, d) /\ d.state = next_state(c.state, "LogoutSent")
  BY Zenon, <1>4, Quiet_steps, Session_transition
<1>6. c.state \in {"LogoutReceived", "Disconnected", "Error"} => d.state \in Answered
  BY <1>5 DEF Answered, next_state
<1> HIDE DEF d
<1>7. Good(b)
  BY <1>0, <1>1, <1>2 DEF Quiet, Posts, Answered
<1>8. Posts(t, c, AdminTypes)
  BY <1>1, <1>4 DEF Posts, Quiet, AdminTypes
<1>9. Good(c)
  BY <1>1, <1>2, <1>4, <1>8 DEF Quiet, Answered
<1>10. Posts(t, d, AdminTypes)
  BY <1>8, <1>5 DEF Posts, Quiet
<1>11. Good(d)
  BY <1>1, <1>2, <1>4, <1>5, <1>6, <1>10 DEF Quiet
<1>12. ASSUME NEW r, Good(r) PROVE Good(Notify(r, "logout"))
  <2> DEFINE e == Notify(r, "logout")
  <2>1. Quiet(r, e) /\ Alike(r, e)
    BY Zenon, <1>12, Quiet_steps, Session_alike
  <2> HIDE DEF e
  <2>2. Posts(t, e, AdminTypes)
    BY <1>12, <2>1 DEF Posts, Quiet
  <2>3. QED BY <1>12, <2>1, <2>2 DEF Quiet, Alike, e
<1>13. \E r \in {b, c, d} : handle_logout(t) = Notify(r, "logout")
  BY DEF handle_logout, b, c, d
<1> HIDE DEF Good
<1>14. Good(handle_logout(t))
  BY <1>7, <1>9, <1>11, <1>12, <1>13
<1>15. QED BY <1>0, <1>14 DEF Good, Handling

(* The dispatch of a message that carries the expected number.              *)
LEMMA Handling_message ==
  ASSUME NEW t, Fresh(t), NEW m \in WireMsgs
  PROVE  Handling(t, m, IF m.type \in AdminTypes THEN handle_admin_message(t, m)
                        ELSE handle_app_message(t, m))
<1> DEFINE h == IF m.type \in AdminTypes THEN handle_admin_message(t, m)
                ELSE handle_app_message(t, m)
<1>0. SessionOK(t) /\ t.tx = <<>> /\ t.app = <<>> /\ t.outb < MAX_SEQ_NUM
  BY DEF Fresh
<1>1. CASE m.type = "Logon"
  <2>1. h = handle_logon(t, m)
    BY <1>1 DEF handle_admin_message, AdminTypes
  <2>2. QED BY <1>1, <2>1, Handling_handle_logon
<1>2. CASE m.type = "Logout"
  <2>1. h = handle_logout(t)
    BY <1>2 DEF handle_admin_message, AdminTypes
  <2>2. QED BY <1>2, <2>1, Handling_handle_logout
<1>3. CASE m.type = "Heartbeat"
  <2>1. h = t
    BY <1>3 DEF handle_admin_message, AdminTypes
  <2> HIDE DEF h
  <2>2. Handling(t, m, h)
    BY <1>0, <1>3, <2>1 DEF Handling, Posts
  <2>3. QED BY <2>2 DEF h
<1>4. CASE m.type = "TestRequest"
  <2>1. h = SendNew(t, "Heartbeat", Absent, Absent)
    BY <1>4 DEF handle_admin_message, AdminTypes, handle_test_request
  <2> HIDE DEF h
  <2>2. /\ SessionOK(h) /\ h.state = t.state /\ h.inb = t.inb /\ h.cfg = t.cfg
        /\ h.app = t.app /\ h.interval = t.interval /\ Posts(t, h, {"Heartbeat"})
    BY <1>0, <2>1, Posts_SendNew, FieldsKnown DEF WireTypes
  <2>3. Posts(t, h, AdminTypes)
    BY <2>2 DEF Posts, AdminTypes
  <2>4. Handling(t, m, h)
    BY <1>0, <1>4, <2>2, <2>3 DEF Handling
  <2>5. QED BY <2>4 DEF h
<1>5. CASE m.type = "App"
  <2>1. h = [t EXCEPT !.app = Append(@, m)]
    BY <1>5 DEF handle_app_message, AdminTypes
  <2> HIDE DEF h
  <2>2. Append(<<>>, m) = <<m>>
    OBVIOUS
  <2>3. /\ SessionOK(h) /\ h.state = t.state /\ h.inb = t.inb /\ h.cfg = t.cfg
        /\ h.app = <<m>> /\ h.interval = t.interval /\ h.tx = t.tx /\ h.outb = t.outb
    BY <1>0, <2>1, <2>2 DEF SessionOK, SessionFields
  <2>4. Handling(t, m, h)
    BY <1>0, <1>5, <2>3 DEF Handling, Posts
  <2>5. QED BY <2>4 DEF h
<1>6. m.type \in WireTypes
  BY WireFields
<1>7. QED BY <1>1, <1>2, <1>3, <1>4, <1>5, <1>6 DEF WireTypes

(* on_data_received() of the message the session expects: no early return is*)
(* taken, the expectation moves on by one and the message is dispatched.    *)
Receiving(t, m, r) ==
  /\ SessionOK(r) /\ r.cfg = t.cfg /\ r.inb = t.inb + 1
  /\ r.app = IF m.type = "App" THEN <<m>> ELSE <<>>
  /\ Posts(t, r, AdminTypes)
  /\ t.state # "LogonSent" => r.interval = t.interval
  /\ t.state \in Answered => r.state \in Answered
  /\ t.state \in {"SocketConnected", "LogonReceived"} /\ m.type = "Logon"
       => r.state = "Active" \/ (r.state = "LogonReceived" /\ r.tx = <<>>)

(* The message a session expects is taken, whatever its type and the state. *)
LEMMA Receiving_on_data_received ==
  ASSUME NEW t, Fresh(t), NEW m \in WireMsgs, m.seq = t.inb, t.inb < MAX_SEQ_NUM
  PROVE  Receiving(t, m, on_data_received(t, m))
<1> DEFINE b == message_received(t)
           st2 == IF b.cfg.store THEN set_next_target_seq_num(b.st, b.inb + 1) ELSE b.st
           c == [b EXCEPT !.inb = b.inb + 1, !.st = st2]
           r == IF m.type \in AdminTypes THEN handle_admin_message(c, m)
                ELSE handle_app_message(c, m)
<1>1. m.comp /\ m.time /\ ~m.dup /\ m.seq \in SeqNums
  BY WireFields
<1>2. SessionOK(t) /\ t.tx = <<>> /\ t.app = <<>> /\ t.outb < MAX_SEQ_NUM
  BY DEF Fresh
<1>3. Quiet(t, b) /\ Alike(t, b)
  BY Zenon, <1>2, Quiet_steps, Session_alike
<1> HIDE DEF b
<1>4. /\ b.inb = t.inb /\ b.inb + 1 \in Words
      /\ SequenceResult(b.inb, m.seq) = "Ok" /\ validate_inbound(b.inb, m.seq) = b.inb + 1
  <2>1. b.inb = t.inb
    BY <1>3 DEF Quiet
  <2>2. ASSUME NEW n \in SeqNums, n < MAX_SEQ_NUM
        PROVE  n + 1 \in Words /\ (n + 1) % UINT32 = n + 1
    BY <2>2, SeqNumAssumption DEF SeqNums, Words, UINT32_MAX, INITIAL_SEQ_NUM
  <2>3. b.inb \in SeqNums /\ b.inb < MAX_SEQ_NUM /\ m.seq = b.inb
    BY <1>1, <2>1
  <2>4. b.inb + 1 \in Words /\ (b.inb + 1) % UINT32 = b.inb + 1
    BY <2>2, <2>3
  <2>5. validate_inbound(b.inb, m.seq) = b.inb + 1
    BY <2>3, <2>4 DEF validate_inbound
  <2>6. ASSUME NEW n \in Nat PROVE SequenceResult(n, n) = "Ok"
    BY DEF SequenceResult
  <2>7. SequenceResult(b.inb, m.seq) = "Ok"
    BY <2>3, <2>6 DEF SeqNums, INITIAL_SEQ_NUM
  <2>8. QED BY <2>1, <2>4, <2>5, <2>7
<1>5. on_data_received(t, m) = ProcessMessage(b, m)
  BY <1>1 DEF on_data_received, BadCompId, BadSendingTime, b
<1>6. ProcessMessage(b, m) = r
  BY <1>4 DEF ProcessMessage
<1>7. StoreOK(st2)
  BY <1>3, <1>4 DEF Alike, SessionOK, StoreOK, StoreFields, set_next_target_seq_num, Keys
<1> HIDE DEF st2
<1>8. /\ SessionOK(c) /\ c.state = b.state /\ c.cfg = b.cfg /\ c.outb = b.outb
      /\ c.tx = b.tx /\ c.app = b.app /\ c.interval = b.interval /\ c.inb = b.inb + 1
  BY Zenon, <1>3, <1>4, <1>7 DEF Quiet, SessionOK, SessionFields
<1> HIDE DEF c
<1>9. Fresh(c)
  BY <1>3, <1>8 DEF Quiet, Fresh
<1>10. Handling(c, m, r)
  BY <1>9, Handling_message
<1> HIDE DEF r
<1>11. Posts(t, r, AdminTypes)
  BY <1>3, <1>8, <1>10 DEF Handling, Posts, Quiet
<1>12. c.state = t.state /\ c.interval = t.interval /\ c.cfg = t.cfg /\ c.inb = t.inb + 1
  BY <1>3, <1>4, <1>8 DEF Alike, Quiet
<1>13. Receiving(t, m, r)
  BY <1>10, <1>11, <1>12 DEF Handling, Receiving
<1>14. QED BY <1>5, <1>6, <1>13

-----------------------------------------------------------------------------
(* The messages on the way.                                                 *)

(* One more message at the end of the wire.                                 *)
LEMMA Wire_append ==
  ASSUME NEW q \in Seq(WireMsgs), NEW m \in WireMsgs
  PROVE  /\ q \o <<m>> \in Seq(WireMsgs)
         /\ Len(q \o <<m>>) = Len(q) + 1
         /\ \A n \in 1 .. Len(q) : (q \o <<m>>)[n] = q[n]
         /\ (q \o <<m>>)[Len(q) + 1] = m
         /\ \A n \in 1 .. Len(q \o <<m>>) : n \in 1 .. Len(q) \/ n = Len(q) + 1
OBVIOUS

(* The first message leaves the wire.                                       *)
LEMMA Wire_tail ==
  ASSUME NEW q \in Seq(WireMsgs), q # <<>>
  PROVE  /\ Head(q) \in WireMsgs /\ Head(q) = q[1] /\ Tail(q) \in Seq(WireMsgs)
         /\ Len(q) \in Nat /\ Len(q) > 0 /\ Len(Tail(q)) = Len(q) - 1
         /\ \A n \in 1 .. Len(Tail(q)) : Tail(q)[n] = q[n + 1] /\ n + 1 \in 1 .. Len(q)
OBVIOUS

(* A message under the sender's next number continues the sequence.         *)
LEMMA Numbered_append ==
  ASSUME NEW q \in Seq(WireMsgs), NEW m \in WireMsgs, NEW from \in Int, NEW to \in Int,
         Numbered(q, from, to), m.seq = to
  PROVE  Numbered(q \o <<m>>, from, to + 1)
<1> DEFINE p == q \o <<m>>
<1>1. /\ Len(p) = Len(q) + 1 /\ Len(q) \in Nat
      /\ \A n \in 1 .. Len(q) : p[n] = q[n]
      /\ p[Len(q) + 1] = m
      /\ \A n \in 1 .. Len(p) : n \in 1 .. Len(q) \/ n = Len(q) + 1
  BY Wire_append
<1>2. Len(q) = to - from /\ \A n \in 1 .. Len(q) : q[n].seq = from + n - 1 /\ ~q[n].dup
  BY Zenon DEF Numbered
<1>3. m.seq = from + (Len(q) + 1) - 1 /\ ~m.dup
  BY <1>2, WireFields
<1> HIDE DEF p
<1>4. \A n \in 1 .. Len(p) : p[n].seq = from + n - 1 /\ ~p[n].dup
  BY Zenon, <1>1, <1>2, <1>3
<1>5. Len(p) = (to + 1) - from
  BY <1>1, <1>2
<1>6. QED BY <1>4, <1>5 DEF Numbered, p

(* The message taken off the wire is the one expected.                      *)
LEMMA Numbered_tail ==
  ASSUME NEW q \in Seq(WireMsgs), q # <<>>, NEW from \in Int, NEW to \in Int,
         Numbered(q, from, to)
  PROVE  Head(q).seq = from /\ from < to /\ Numbered(Tail(q), from + 1, to)
<1> DEFINE p == Tail(q)
<1>1. /\ Head(q) = q[1] /\ Len(q) \in Nat /\ Len(q) > 0 /\ Len(p) = Len(q) - 1
      /\ \A n \in 1 .. Len(p) : p[n] = q[n + 1] /\ n + 1 \in 1 .. Len(q)
  BY Wire_tail
<1>2. Len(q) = to - from /\ \A n \in 1 .. Len(q) : q[n].seq = from + n - 1 /\ ~q[n].dup
  BY DEF Numbered
<1>3. 1 \in 1 .. Len(q)
  BY <1>1
<1>4. Head(q).seq = from /\ from < to
  BY <1>1, <1>2, <1>3
<1> HIDE DEF p
<1>5. ASSUME NEW n \in 1 .. Len(p) PROVE p[n].seq = (from + 1) + n - 1 /\ ~p[n].dup
  <2>1. p[n] = q[n + 1] /\ n + 1 \in 1 .. Len(q) /\ n \in Int
    BY <1>1
  <2>2. p[n].seq = from + (n + 1) - 1 /\ ~p[n].dup
    BY <1>2, <2>1
  <2>3. QED BY <2>1, <2>2
<1>6. Len(p) = to - (from + 1)
  BY <1>1, <1>2
<1>7. QED BY <1>4, <1>5, <1>6 DEF Numbered, p

(* The application messages of a longer and of a shorter wire.              *)
LEMMA Apps_append ==
  ASSUME NEW q \in Seq(WireMsgs), NEW m \in WireMsgs
  PROVE  /\ Apps(q \o <<m>>) = Apps(q) \cup Apps(<<m>>)
         /\ Apps(<<m>>) = IF m.type = "App" THEN {m} ELSE {}
<1> DEFINE p == q \o <<m>>
<1>1. /\ Len(p) = Len(q) + 1 /\ Len(q) \in Nat
      /\ \A n \in 1 .. Len(q) : p[n] = q[n]
      /\ p[Len(q) + 1] = m
      /\ \A n \in 1 .. Len(p) : n \in 1 .. Len(q) \/ n = Len(q) + 1
  BY Wire_append
<1> HIDE DEF p
<1>2. {p[n] : n \in 1 .. Len(p)} = {q[n] : n \in 1 .. Len(q)} \cup {m}
  <2>1. ASSUME NEW n \in 1 .. Len(p) PROVE p[n] \in {q[k] : k \in 1 .. Len(q)} \cup {m}
    BY <1>1
  <2>2. ASSUME NEW n \in 1 .. Len(q) PROVE q[n] \in {p[k] : k \in 1 .. Len(p)}
    BY <1>1
  <2>3. m \in {p[k] : k \in 1 .. Len(p)}
    BY <1>1
  <2>4. QED BY Zenon, <2>1, <2>2, <2>3
<1>3. {<<m>>[n] : n \in 1 .. Len(<<m>>)} = {m}
  OBVIOUS
<1>4. Apps(<<m>>) = IF m.type = "App" THEN {m} ELSE {}
  BY <1>3 DEF Apps
<1>5. Apps(p) = Apps(q) \cup Apps(<<m>>)
  BY Zenon, <1>2, <1>4 DEF Apps
<1>6. QED BY <1>4, <1>5 DEF p

(* Taking the first message off the wire takes it from those on the way.    *)
LEMMA Apps_tail ==
  ASSUME NEW q \in Seq(WireMsgs), q # <<>>
  PROVE  Apps(q) = Apps(Tail(q)) \cup (IF Head(q).type = "App" THEN {Head(q)} ELSE {})
<1> DEFINE p == Tail(q)
           m == Head(q)
<1>1. /\ m = q[1] /\ Len(q) \in Nat /\ Len(q) > 0 /\ Len(p) = Len(q) - 1
      /\ \A n \in 1 .. Len(p) : p[n] = q[n + 1] /\ n + 1 \in 1 .. Len(q)
  BY Wire_tail
<1> HIDE DEF p, m
<1>2. {q[n] : n \in 1 .. Len(q)} = {p[n] : n \in 1 .. Len(p)} \cup {m}
  <2>1. ASSUME NEW n \in 1 .. Len(q) PROVE q[n] \in {p[k] : k \in 1 .. Len(p)} \cup {m}
    <3>1. CASE n = 1
      BY <1>1, <3>1
    <3>2. CASE n # 1
      <4>1. n - 1 \in 1 .. Len(p) /\ (n - 1) + 1 = n
        BY <1>1, <3>2
      <4>2. QED BY Zenon, <1>1, <4>1
    <3>3. QED BY <3>1, <3>2
  <2>2. ASSUME NEW n \in 1 .. Len(p) PROVE p[n] \in {q[k] : k \in 1 .. Len(q)}
    BY <1>1
  <2>3. m \in {q[k] : k \in 1 .. Len(q)}
    <3>1. 1 \in 1 .. Len(q)
      BY <1>1
    <3>2. QED BY <1>1, <3>1
  <2>4. QED BY <2>1, <2>2, <2>3
<1>3. Apps(q) = Apps(p) \cup (IF m.type = "App" THEN {m} ELSE {})
  BY Zenon, <1>2 DEF Apps
<1>4. QED BY <1>3 DEF p, m

(* Nothing on the wire.                                                     *)
LEMMA Wire_empty ==
  /\ <<>> \in Seq(WireMsgs) /\ Apps(<<>>) = {}
  /\ \A n \in Int : Numbered(<<>>, n, n)
<1>1. {<<>>[n] : n \in 1 .. Len(<<>>)} = {}
  OBVIOUS
<1>2. Apps(<<>>) = {}
  BY <1>1 DEF Apps
<1>3. QED BY <1>2 DEF Numbered

(* What a call sends continues what is on the wire.                         *)
LEMMA Posts_wire ==
  ASSUME NEW t, NEW r, NEW types, Posts(t, r, types), t.outb \in Int,
         NEW q \in Seq(WireMsgs), NEW from \in Int
  PROVE  /\ q \o r.tx \in Seq(WireMsgs)
         /\ Numbered(q, from, t.outb) => Numbered(q \o r.tx, from, r.outb)
         /\ Apps(q \o r.tx) = Apps(q) \cup Apps(r.tx)
         /\ "App" \notin types => Apps(r.tx) = {}
         /\ r.tx = <<>> => q \o r.tx = q
<1>1. CASE r.tx = <<>> /\ r.outb = t.outb
  <2>1. q \o r.tx = q
    BY <1>1
  <2>2. QED BY <1>1, <2>1, Wire_empty
<1>2. CASE /\ r.outb = t.outb + 1
           /\ \E m \in WireMsgs : m.type \in types /\ m.seq = t.outb /\ r.tx = <<m>>
  <2>1. PICK m \in WireMsgs : m.type \in types /\ m.seq = t.outb /\ r.tx = <<m>>
    BY <1>2
  <2>2. q \o r.tx \in Seq(WireMsgs)
    BY <2>1, Wire_append
  <2>3. Numbered(q, from, t.outb) => Numbered(q \o r.tx, from, r.outb)
    BY <1>2, <2>1, Numbered_append
  <2>4. /\ Apps(q \o r.tx) = Apps(q) \cup Apps(r.tx)
        /\ "App" \notin types => Apps(r.tx) = {}
    <3>1. Apps(q \o <<m>>) = Apps(q) \cup Apps(<<m>>)
      BY Zenon, Apps_append
    <3>2. Apps(<<m>>) = IF m.type = "App" THEN {m} ELSE {}
      BY Zenon, Apps_append
    <3>3. QED BY <2>1, <3>1, <3>2
  <2>5. r.tx # <<>>
    BY <2>1
  <2>6. QED BY <2>2, <2>3, <2>4, <2>5
<1>3. QED BY <1>1, <1>2 DEF Posts

(* An application message that is taken off the wire is handed on, after    *)
(* those before it.                                                         *)
LEMMA AppsOK_tail ==
  ASSUME NEW q \in Seq(WireMsgs), q # <<>>, NEW inb \in Int, Head(q).seq = inb,
         NEW sn, NEW gt, AppsOK(sn, gt, q, inb),
         NEW app, app = IF Head(q).type = "App" THEN <<Head(q)>> ELSE <<>>
  PROVE  AppsOK(sn, gt \o app, Tail(q), inb + 1)
<1> DEFINE m == Head(q)
           A == {gt[n] : n \in 1 .. Len(gt)}
<1>0. m \in WireMsgs
  BY Wire_tail
<1>1. /\ gt \in Seq(WireMsgs)
      /\ \A n, k \in 1 .. Len(gt) : n < k => gt[n].seq < gt[k].seq
      /\ \A n \in 1 .. Len(gt) : gt[n].seq < inb
      /\ sn = A \cup Apps(q)
  BY DEF AppsOK
<1>2. Apps(q) = Apps(Tail(q)) \cup (IF m.type = "App" THEN {m} ELSE {})
  BY Apps_tail
<1>3. \A n \in 1 .. Len(gt) : gt[n].seq \in Int
  <2>1. ASSUME NEW n \in 1 .. Len(gt) PROVE gt[n].seq \in Int
    <3>1. gt[n] \in WireMsgs
      BY <1>1
    <3>2. QED BY <3>1, WireFields DEF SeqNums
  <2>2. QED BY <2>1
<1>4. CASE m.type # "App"
  <2>1. gt \o app = gt
    BY <1>1, <1>4
  <2>2. \A n \in 1 .. Len(gt) : gt[n].seq < inb + 1
    BY <1>1, <1>3
  <2>3. sn = A \cup Apps(Tail(q))
    BY <1>1, <1>2, <1>4
  <2>4. QED BY <1>1, <2>1, <2>2, <2>3 DEF AppsOK
<1>5. CASE m.type = "App"
  <2> DEFINE g == gt \o <<m>>
  <2>1. /\ g \in Seq(WireMsgs) /\ Len(g) = Len(gt) + 1 /\ Len(gt) \in Nat
        /\ \A n \in 1 .. Len(gt) : g[n] = gt[n]
        /\ g[Len(gt) + 1] = m
        /\ \A n \in 1 .. Len(g) : n \in 1 .. Len(gt) \/ n = Len(gt) + 1
    BY <1>0, <1>1, Wire_append
  <2>2. gt \o app = g
    BY <1>5
  <2> HIDE DEF g
  <2>3. ASSUME NEW n \in 1 .. Len(g) PROVE g[n].seq < inb + 1
    <3>1. CASE n \in 1 .. Len(gt)
      BY <1>1, <1>3, <2>1, <3>1
    <3>2. CASE n = Len(gt) + 1
      BY <2>1, <3>2
    <3>3. QED BY <2>1, <3>1, <3>2
  <2>4. ASSUME NEW n \in 1 .. Len(g), NEW k \in 1 .. Len(g), n < k
        PROVE  g[n].seq < g[k].seq
    <3>1. n \in 1 .. Len(gt)
      BY <2>1, <2>4
    <3>2. CASE k \in 1 .. Len(gt)
      BY <1>1, <2>1, <2>4, <3>1, <3>2
    <3>3. CASE k = Len(gt) + 1
      BY Zenon, <1>1, <2>1, <3>1, <3>3
    <3>4. QED BY <2>1, <3>2, <3>3
  <2>5. {g[n] : n \in 1 .. Len(g)} = A \cup {m}
    <3>1. ASSUME NEW n \in 1 .. Len(g) PROVE g[n] \in A \cup {m}
      BY <2>1
    <3>2. ASSUME NEW n \in 1 .. Len(gt) PROVE gt[n] \in {g[k] : k \in 1 .. Len(g)}
      BY <2>1
    <3>3. m \in {g[k] : k \in 1 .. Len(g)}
      BY <2>1
    <3>4. QED BY <3>1, <3>2, <3>3
  <2>6. sn = {g[n] : n \in 1 .. Len(g)} \cup Apps(Tail(q))
    BY Zenon, <1>1, <1>2, <1>5, <2>5
  <2>7. QED BY Zenon, <2>1, <2>2, <2>3, <2>4, <2>6 DEF AppsOK
<1>6. QED BY <1>4, <1>5

-----------------------------------------------------------------------------
(* The four ways a standing connection is used.                             *)

(* The initiator sends without having received.                             *)
LEMMA Link_ISends ==
  ASSUME NEW ii, NEW aa, NEW qa, NEW qi, NEW qw, NEW sn, NEW gt,
         Base(ii, aa, qa, qi, qw), LinkOK(ii, aa, qa, qi, sn, gt),
         NEW r, NEW types, Posts(ii, r, types),
         NEW jj, jj.outb = r.outb, jj.inb = ii.inb,
         ii.state \in Opening => r.tx = <<>> /\ jj.state = ii.state
  PROVE  /\ qa \o r.tx \in Seq(WireMsgs)
         /\ LinkOK(jj, aa, qa \o r.tx, qi, sn \cup Apps(r.tx), gt)
<1>1. ii.outb \in Int /\ aa.inb \in Int /\ qa \in Seq(WireMsgs)
  BY DEF Base, Idle, SessionOK, SeqNums, Words, INITIAL_SEQ_NUM
<1>2. /\ Numbered(qa, aa.inb, ii.outb) /\ Numbered(qi, ii.inb, aa.outb)
      /\ Handshake(ii, aa, qa, qi) /\ AppsOK(sn, gt, qa, aa.inb)
  BY DEF LinkOK
<1>3. /\ qa \o r.tx \in Seq(WireMsgs)
      /\ Numbered(qa \o r.tx, aa.inb, r.outb)
      /\ Apps(qa \o r.tx) = Apps(qa) \cup Apps(r.tx)
      /\ r.tx = <<>> => qa \o r.tx = qa
  BY <1>1, <1>2, Posts_wire
<1>4. Handshake(jj, aa, qa \o r.tx, qi)
  BY <1>2, <1>3 DEF Handshake
<1>5. AppsOK(sn \cup Apps(r.tx), gt, qa \o r.tx, aa.inb)
  BY <1>2, <1>3 DEF AppsOK
<1>6. QED BY <1>2, <1>3, <1>4, <1>5 DEF LinkOK

(* The initiator takes the message it expects, and may answer it.           *)
LEMMA Link_IReceives ==
  ASSUME NEW ii, NEW aa, NEW qa, NEW qi, NEW qw, NEW sn, NEW gt,
         Base(ii, aa, qa, qi, qw), LinkOK(ii, aa, qa, qi, sn, gt), qi # <<>>,
         NEW r, Posts(ii, r, AdminTypes),
         NEW jj, jj.outb = r.outb, jj.inb = ii.inb + 1
  PROVE  /\ qa \o r.tx \in Seq(WireMsgs)
         /\ LinkOK(jj, aa, qa \o r.tx, Tail(qi), sn \cup Apps(r.tx), gt)
<1>1. /\ ii.outb \in Int /\ aa.inb \in Int /\ ii.inb \in Int /\ aa.outb \in Int
      /\ qa \in Seq(WireMsgs) /\ qi \in Seq(WireMsgs)
  BY DEF Base, Idle, SessionOK, SeqNums, Words, INITIAL_SEQ_NUM
<1>2. /\ Numbered(qa, aa.inb, ii.outb) /\ Numbered(qi, ii.inb, aa.outb)
      /\ Handshake(ii, aa, qa, qi) /\ AppsOK(sn, gt, qa, aa.inb)
  BY DEF LinkOK
<1>3. /\ qa \o r.tx \in Seq(WireMsgs)
      /\ Numbered(qa \o r.tx, aa.inb, r.outb)
      /\ Apps(qa \o r.tx) = Apps(qa) \cup Apps(r.tx)
  BY <1>1, <1>2, Posts_wire
<1>4. Numbered(Tail(qi), ii.inb + 1, aa.outb)
  BY <1>1, <1>2, Numbered_tail
<1>5. Handshake(jj, aa, qa \o r.tx, Tail(qi))
  BY <1>2 DEF Handshake
<1>6. AppsOK(sn \cup Apps(r.tx), gt, qa \o r.tx, aa.inb)
  BY <1>2, <1>3 DEF AppsOK
<1>7. QED BY <1>2, <1>3, <1>4, <1>5, <1>6 DEF LinkOK

(* The acceptor sends without having received.                              *)
LEMMA Link_ASends ==
  ASSUME NEW ii, NEW aa, NEW qa, NEW qi, NEW qw, NEW sn, NEW gt,
         Base(ii, aa, qa, qi, qw), LinkOK(ii, aa, qa, qi, sn, gt),
         NEW r, NEW types, Posts(aa, r, types),
         NEW bb, bb.outb = r.outb, bb.inb = aa.inb,
         aa.state = "Active" => bb.state \in Answered,
         aa.state # "Active" => r.tx = <<>> /\ bb.state = aa.state
  PROVE  /\ qi \o r.tx \in Seq(WireMsgs)
         /\ LinkOK(ii, bb, qa, qi \o r.tx, sn, gt)
<1>1. aa.outb \in Int /\ ii.inb \in Int /\ qi \in Seq(WireMsgs)
  BY DEF Base, Idle, SessionOK, SeqNums, Words, INITIAL_SEQ_NUM
<1>2. /\ Numbered(qa, aa.inb, ii.outb) /\ Numbered(qi, ii.inb, aa.outb)
      /\ Handshake(ii, aa, qa, qi) /\ AppsOK(sn, gt, qa, aa.inb)
  BY DEF LinkOK
<1>3. /\ qi \o r.tx \in Seq(WireMsgs)
      /\ Numbered(qi \o r.tx, ii.inb, r.outb)
      /\ r.tx = <<>> => qi \o r.tx = qi
  BY <1>1, <1>2, Posts_wire
<1>4. Handshake(ii, bb, qa, qi \o r.tx)
  BY <1>2, <1>3 DEF Handshake, Answered
<1>5. QED BY <1>2, <1>3, <1>4 DEF LinkOK

(* The acceptor takes the message it expects, hands it on or answers it.    *)
LEMMA Link_AReceives ==
  ASSUME NEW ii, NEW aa, NEW qa, NEW qi, NEW qw, NEW sn, NEW gt,
         Base(ii, aa, qa, qi, qw), LinkOK(ii, aa, qa, qi, sn, gt), qa # <<>>,
         NEW r, Receiving(aa, Head(qa), r),
         NEW bb, bb.outb = r.outb, bb.inb = r.inb, bb.state = r.state
  PROVE  /\ qi \o r.tx \in Seq(WireMsgs)
         /\ LinkOK(ii, bb, Tail(qa), qi \o r.tx, sn, gt \o r.app)
<1> DEFINE m == Head(qa)
<1>1. /\ ii.outb \in Int /\ aa.inb \in Int /\ ii.inb \in Int /\ aa.outb \in Int
      /\ qa \in Seq(WireMsgs) /\ qi \in Seq(WireMsgs)
  BY DEF Base, Idle, SessionOK, SeqNums, Words, INITIAL_SEQ_NUM
<1>2. /\ Numbered(qa, aa.inb, ii.outb) /\ Numbered(qi, ii.inb, aa.outb)
      /\ Handshake(ii, aa, qa, qi) /\ AppsOK(sn, gt, qa, aa.inb)
  BY DEF LinkOK
<1>3. /\ Posts(aa, r, AdminTypes) /\ r.inb = aa.inb + 1
      /\ r.app = IF m.type = "App" THEN <<m>> ELSE <<>>
      /\ aa.state \in Answered => r.state \in Answered
      /\ aa.state \in {"SocketConnected", "LogonReceived"} /\ m.type = "Logon"
           => r.state = "Active" \/ (r.state = "LogonReceived" /\ r.tx = <<>>)
  BY DEF Receiving
<1>4. /\ qi \o r.tx \in Seq(WireMsgs)
      /\ Numbered(qi \o r.tx, ii.inb, r.outb)
      /\ r.tx = <<>> => qi \o r.tx = qi
  BY <1>1, <1>2, <1>3, Posts_wire
<1>5. m.seq = aa.inb /\ Numbered(Tail(qa), aa.inb + 1, ii.outb)
  BY <1>1, <1>2, Numbered_tail
<1>6. AppsOK(sn, gt \o r.app, Tail(qa), aa.inb + 1)
  BY <1>1, <1>2, <1>3, <1>5, AppsOK_tail
<1>7. Handshake(ii, bb, Tail(qa), qi \o r.tx)
  <2>1. CASE aa.state \in Answered
    BY <1>3, <2>1 DEF Handshake
  <2>2. CASE /\ aa.state \in {"SocketConnected", "LogonReceived"}
             /\ qi = <<>> /\ ii.state \in Opening
             /\ \A n \in 1 .. Len(qa) : qa[n].type = "Logon"
    <3>1. m.type = "Logon" /\ \A n \in 1 .. Len(Tail(qa)) : Tail(qa)[n].type = "Logon"
      <4>1. /\ m = qa[1] /\ 1 \in 1 .. Len(qa)
            /\ \A n \in 1 .. Len(Tail(qa)) : Tail(qa)[n] = qa[n + 1] /\ n + 1 \in 1 .. Len(qa)
        BY <1>1, Wire_tail
      <4>2. QED BY <2>2, <4>1
    <3>2. CASE r.state = "Active"
      BY <3>2 DEF Handshake, Answered
    <3>3. CASE r.state = "LogonReceived" /\ r.tx = <<>>
      BY <1>4, <2>2, <3>1, <3>3 DEF Handshake
    <3>4. QED BY <1>3, <2>2, <3>1, <3>2, <3>3
  <2>3. QED BY Zenon, <1>2, <2>1, <2>2 DEF Handshake
<1>8. QED BY <1>3, <1>4, <1>5, <1>6, <1>7 DEF LinkOK

-----------------------------------------------------------------------------
(* The actions.                                                             *)

(* The frame of a call that starts from a session between calls.            *)
LEMMA Called ==
  ASSUME NEW t, Idle(t), NEW fails
  PROVE  LET c == Call(t, fails) IN
         /\ SessionOK(c) /\ c.tx = <<>> /\ c.app = <<>> /\ c.state = t.state
         /\ c.cfg = t.cfg /\ c.outb = t.outb /\ c.inb = t.inb /\ c.interval = t.interval
BY DEF Idle, Call, SessionOK, SessionFields

(* The session after a call is again between calls.                         *)
LEMMA Returned ==
  ASSUME NEW r, SessionOK(r)
  PROVE  LET t == Return(r) IN
         /\ Idle(t) /\ t.state = r.state /\ t.cfg = r.cfg /\ t.outb = r.outb
         /\ t.inb = r.inb /\ t.interval = r.interval
BY Session_Return DEF Idle

(* Two engines that have not met.                                           *)
THEOREM LInv_Init == Init => LInv
<1> SUFFICES ASSUME Init PROVE LInv
  OBVIOUS
<1>1. PICK c \in InitiatorConfigs : i = NewSession(c, NewStore)
  BY DEF Init
<1>2. SessionOK(i) /\ i.tx = <<>> /\ i.app = <<>> /\ i.cfg = c
  BY <1>1, Store_New, Session_New
<1>3. SessionOK(a) /\ a.tx = <<>> /\ a.app = <<>> /\ a.cfg = AcceptorConfig
  BY Store_New, Session_New DEF Init
<1>4. Base(i, a, toA, toI, waiting)
  BY <1>2, <1>3, Wire_empty DEF Base, Idle, Init
<1>5. iconn = "closed" /\ aconn = "closed"
  BY DEF Init
<1>6. QED BY <1>4, <1>5 DEF LInv

(* What the initiator does with a connection that is neither in the backlog *)
(* nor standing concerns nobody.                                            *)
LEMMA LInv_ICall_dead ==
  ASSUME LInv, iconn \notin {"linked", "pending"},
         NEW r, SessionOK(r), r.cfg = i.cfg, NEW fails,
         ICall(r, fails), UNCHANGED <<a, iconn, aconn>>, toI' \in Seq(WireMsgs)
  PROVE  LInv'
<1>1. /\ i' = Return(r) /\ toA' = toA /\ waiting' = waiting
      /\ a' = a /\ iconn' = iconn /\ aconn' = aconn
  BY DEF ICall
<1>2. Idle(i') /\ i'.cfg = i.cfg
  BY <1>1, Returned
<1>3. Base(i', a', toA', toI', waiting')
  BY <1>1, <1>2 DEF LInv, Base
<1>4. QED BY <1>1, <1>3 DEF LInv

(* A call of the application or of the timer on the initiator's session.    *)
LEMMA LInv_ISends ==
  ASSUME LInv, NEW r, NEW types, NEW fails, Sending(i, r, types),
         i.state # "Active" => r.tx = <<>> /\ r.outb = i.outb /\ r.state = i.state,
         ICall(r, fails), UNCHANGED <<a, iconn, aconn, toI, got>>
  PROVE  LInv'
<1>1. SessionOK(r) /\ r.cfg = i.cfg /\ r.inb = i.inb /\ Posts(i, r, types)
  BY DEF Sending
<1>2. /\ i' = Return(r) /\ a' = a /\ iconn' = iconn /\ aconn' = aconn
      /\ toI' = toI /\ got' = got /\ sent' = sent \cup Apps(r.tx)
      /\ toA' = IF iconn = "linked" THEN toA \o r.tx ELSE toA
      /\ waiting' = IF iconn = "pending" THEN waiting \o r.tx ELSE waiting
  BY DEF ICall
<1>3. /\ Idle(i') /\ i'.state = r.state /\ i'.cfg = r.cfg /\ i'.outb = r.outb
      /\ i'.inb = r.inb
  BY <1>1, <1>2, Returned
<1>4. Base(i, a, toA, toI, waiting)
  BY DEF LInv
<1>5. CASE iconn = "linked"
  <2>1. LinkOK(i, a, toA, toI, sent, got)
    BY Zenon, <1>5 DEF LInv
  <2>2. i.state \in Opening => r.tx = <<>> /\ i'.state = i.state
    BY <1>3 DEF Opening
  <2>3. /\ toA \o r.tx \in Seq(WireMsgs)
        /\ LinkOK(i', a, toA \o r.tx, toI, sent \cup Apps(r.tx), got)
    BY Zenon, <1>1, <1>3, <1>4, <2>1, <2>2, Link_ISends
  <2>4. Base(i', a', toA', toI', waiting')
    BY Zenon, <1>1, <1>2, <1>3, <1>4, <1>5, <2>3 DEF Base
  <2>5. QED BY Zenon, <1>2, <1>5, <2>3, <2>4 DEF LInv
<1>6. CASE iconn = "pending"
  <2>1. PendingOK(i, waiting, sent)
    BY <1>6 DEF LInv
  <2>2. r.tx = <<>> /\ r.outb = i.outb /\ r.state = i.state
    BY <2>1 DEF PendingOK, Opening
  <2>3. waiting' = waiting /\ sent' = sent /\ toA' = toA
    <3>1. waiting \in Seq(WireMsgs)
      BY <1>4 DEF Base
    <3>2. waiting \o <<>> = waiting
      BY <3>1
    <3>3. QED BY <1>2, <1>6, <2>2, <3>2, Wire_empty
  <2>4. PendingOK(i', waiting', sent')
    BY <1>1, <1>3, <2>1, <2>2, <2>3 DEF PendingOK
  <2>5. Base(i', a', toA', toI', waiting')
    BY Zenon, <1>1, <1>2, <1>3, <1>4, <2>3 DEF Base
  <2>6. QED BY Zenon, <1>2, <1>6, <2>4, <2>5 DEF LInv
<1>7. CASE iconn \notin {"linked", "pending"}
  <2>1. toI' \in Seq(WireMsgs)
    BY <1>2, <1>4 DEF Base
  <2>2. UNCHANGED <<a, iconn, aconn>>
    BY <1>2
  <2>3. QED BY <1>1, <1>7, <2>1, <2>2, LInv_ICall_dead
<1>8. QED BY <1>5, <1>6, <1>7

(* Posts() and Sending() look at the numbers, not at the frame of the call. *)
LEMMA Sending_called ==
  ASSUME NEW t, NEW c, NEW r, NEW types,
         c.cfg = t.cfg, c.outb = t.outb, c.inb = t.inb, c.app = t.app,
         c.interval = t.interval, Sending(c, r, types)
  PROVE  Sending(t, r, types)
BY DEF Sending, Posts

(* send_app_message() of the initiator's application.                       *)
LEMMA LInv_SendApp ==
  ASSUME LInv, Unwrapped, NEW b \in Bodies, SendApp(b)
  PROVE  LInv'
<1>1. PICK fails \in FailSets : ICall(send_app_message(Call(i, fails), b), fails)
  BY DEF SendApp
<1> DEFINE c == Call(i, fails)
           r == send_app_message(c, b)
<1>2. Idle(i) /\ i.outb < MAX_SEQ_NUM
  BY DEF LInv, Base, Unwrapped
<1>3. /\ SessionOK(c) /\ c.tx = <<>> /\ c.app = <<>> /\ c.state = i.state
      /\ c.cfg = i.cfg /\ c.outb = i.outb /\ c.inb = i.inb /\ c.interval = i.interval
  BY <1>2, Called
<1> HIDE DEF c
<1>4. Sending(c, r, {"App"}) /\ (c.state # "Active" => r = c)
  BY <1>2, <1>3, Sending_send_app_message
<1> HIDE DEF r
<1>5. Sending(i, r, {"App"})
  BY <1>2, <1>3, <1>4, Sending_called DEF Idle
<1>6. ICall(r, fails) /\ UNCHANGED <<a, iconn, aconn, toI, got>>
  BY <1>1 DEF SendApp, r, c
<1>7. QED BY <1>3, <1>4, <1>5, <1>6, LInv_ISends

(* FixInitiator::stop().                                                    *)
LEMMA LInv_Logout ==
  ASSUME LInv, Unwrapped, Logout
  PROVE  LInv'
<1>1. PICK fails \in FailSets : ICall(initiate_logout(Call(i, fails)), fails)
  BY DEF Logout
<1> DEFINE c == Call(i, fails)
           r == initiate_logout(c)
<1>2. Idle(i) /\ i.outb < MAX_SEQ_NUM
  BY DEF LInv, Base, Unwrapped
<1>3. /\ SessionOK(c) /\ c.tx = <<>> /\ c.app = <<>> /\ c.state = i.state
      /\ c.cfg = i.cfg /\ c.outb = i.outb /\ c.inb = i.inb /\ c.interval = i.interval
  BY <1>2, Called
<1> HIDE DEF c
<1>4. Sending(c, r, {"Logout"}) /\ (c.state # "Active" => r = c)
  BY <1>2, <1>3, Sending_initiate_logout
<1> HIDE DEF r
<1>5. Sending(i, r, {"Logout"})
  BY <1>2, <1>3, <1>4, Sending_called DEF Idle
<1>6. ICall(r, fails) /\ UNCHANGED <<a, iconn, aconn, toI, got>>
  BY <1>1 DEF Logout, r, c
<1>7. QED BY <1>3, <1>4, <1>5, <1>6, LInv_ISends

(* A tick after any time has passed.                                        *)
LEMMA Sending_tick ==
  ASSUME NEW t, Idle(t), t.outb < MAX_SEQ_NUM, NEW ages, NEW fails
  PROVE  LET r == Now(on_timer_tick(Call(Later(t, ages), fails))) IN
         /\ Sending(t, r, {"TestRequest", "Heartbeat"})
         /\ t.state # "Active" => r.tx = <<>> /\ r.outb = t.outb /\ r.state = t.state
         /\ r.state \in {t.state, "Error"}
<1> DEFINE l == Later(t, ages)
           c == Call(l, fails)
           d == on_timer_tick(c)
           r == Now(d)
<1>1. Idle(l) /\ l.state = t.state /\ Quiet(t, l)
  <2>1. SessionOK(t)
    BY DEF Idle
  <2>2. Quiet(t, l)
    BY Zenon, <2>1, Quiet_steps
  <2>3. l.state = t.state
    BY <2>1 DEF Later, SessionOK, SessionFields
  <2> HIDE DEF l
  <2>4. QED BY <2>2, <2>3 DEF Idle, Quiet
<1> HIDE DEF l
<1>2. /\ SessionOK(c) /\ c.tx = <<>> /\ c.app = <<>> /\ c.state = l.state
      /\ c.cfg = l.cfg /\ c.outb = l.outb /\ c.inb = l.inb /\ c.interval = l.interval
  BY <1>1, Called
<1> HIDE DEF c
<1>3. /\ c.cfg = t.cfg /\ c.outb = t.outb /\ c.inb = t.inb /\ c.app = t.app
      /\ c.interval = t.interval /\ c.state = t.state
  BY <1>1, <1>2 DEF Quiet, Idle
<1>4. /\ Sending(c, d, {"TestRequest", "Heartbeat"})
      /\ c.state # "Active" => d = c
      /\ d.state \in {c.state, "Error"}
  BY <1>2, <1>3, Sending_on_timer_tick
<1> HIDE DEF d
<1>5. Sending(t, d, {"TestRequest", "Heartbeat"}) /\ SessionOK(d)
  BY <1>3, <1>4, Sending_called DEF Sending
<1>6. Quiet(d, r) /\ r.state = d.state
  BY Zenon, <1>5, Quiet_steps DEF Now, SessionOK, SessionFields
<1> HIDE DEF r
<1>7. Sending(t, r, {"TestRequest", "Heartbeat"})
  BY <1>5, <1>6 DEF Sending, Posts, Quiet
<1>8. t.state # "Active" => r.tx = <<>> /\ r.outb = t.outb /\ r.state = t.state
  BY <1>2, <1>3, <1>4, <1>6 DEF Quiet
<1>9. r.state \in {t.state, "Error"}
  BY <1>3, <1>4, <1>6
<1>10. QED BY <1>7, <1>8, <1>9 DEF r, d, c, l

(* The initiator's timer.                                                   *)
LEMMA LInv_ITick ==
  ASSUME LInv, Unwrapped, ITick
  PROVE  LInv'
<1>1. PICK fails \in FailSets, ages \in Ages(i) :
        ICall(Now(on_timer_tick(Call(Later(i, ages), fails))), fails)
  BY DEF ITick
<1> DEFINE r == Now(on_timer_tick(Call(Later(i, ages), fails)))
<1>2. Idle(i) /\ i.outb < MAX_SEQ_NUM
  BY DEF LInv, Base, Unwrapped
<1>3. /\ Sending(i, r, {"TestRequest", "Heartbeat"})
      /\ i.state # "Active" => r.tx = <<>> /\ r.outb = i.outb /\ r.state = i.state
  BY Zenon, <1>2, Sending_tick
<1>4. ICall(r, fails) /\ UNCHANGED <<a, iconn, aconn, toI, got>>
  BY <1>1 DEF ITick
<1> HIDE DEF r
<1>5. QED BY <1>3, <1>4, LInv_ISends

(* The initiator's socket has a message.                                    *)
LEMMA LInv_IReceive ==
  ASSUME LInv, Unwrapped, IReceive
  PROVE  LInv'
<1>1. PICK fails \in FailSets : ICall(on_data_received(Call(i, fails), Head(toI)), fails)
  BY DEF IReceive
<1> DEFINE c == Call(i, fails)
           m == Head(toI)
           r == on_data_received(c, m)
<1>2. /\ iconn \in {"linked", "dead"} /\ toI # <<>> /\ toI' = Tail(toI) /\ ICall(r, fails)
      /\ UNCHANGED <<a, iconn, aconn, got>>
  BY <1>1 DEF IReceive
<1>3. Base(i, a, toA, toI, waiting) /\ Idle(i) /\ i.cfg \in InitiatorConfigs
  BY DEF LInv, Base
<1>4. toI \in Seq(WireMsgs) /\ Tail(toI) \in Seq(WireMsgs) /\ m \in WireMsgs
  BY <1>2, <1>3, Wire_tail DEF Base
<1>5. /\ SessionOK(c) /\ c.tx = <<>> /\ c.app = <<>> /\ c.state = i.state
      /\ c.cfg = i.cfg /\ c.outb = i.outb /\ c.inb = i.inb /\ c.interval = i.interval
  BY Zenon, <1>3, Called
<1> HIDE DEF c, m
<1>6. CASE iconn = "dead"
  <2>1. PeerOK(m)
    BY <1>4, WireFields
  <2>2. SessionOK(r) /\ r.cfg = i.cfg
    BY <1>5, <2>1, Keeps_on_data_received DEF Keeps
  <2> HIDE DEF r
  <2>3. UNCHANGED <<a, iconn, aconn>> /\ toI' \in Seq(WireMsgs)
    BY <1>2, <1>4
  <2>4. QED BY <1>2, <1>6, <2>2, <2>3, LInv_ICall_dead
<1>7. CASE iconn = "linked"
  <2>1. LinkOK(i, a, toA, toI, sent, got)
    BY <1>7 DEF LInv
  <2>2. i.inb \in Int /\ a.outb \in Int
    BY <1>3 DEF Base, Idle, SessionOK, SeqNums, Words, INITIAL_SEQ_NUM
  <2>3. m.seq = i.inb /\ i.inb < a.outb
    <3>1. Numbered(toI, i.inb, a.outb)
      BY <2>1 DEF LinkOK
    <3>2. QED BY <1>2, <1>4, <2>2, <3>1, Numbered_tail DEF m
  <2>4. c.inb < MAX_SEQ_NUM /\ Fresh(c)
    BY <1>3, <1>5, <2>2, <2>3, SeqNumAssumption DEF Unwrapped, Fresh
  <2>5. Receiving(c, m, r)
    BY <1>4, <1>5, <2>3, <2>4, Receiving_on_data_received
  <2> HIDE DEF r
  <2>6. /\ SessionOK(r) /\ r.cfg = i.cfg /\ r.inb = i.inb + 1 /\ Posts(i, r, AdminTypes)
    BY <1>5, <2>5 DEF Receiving, Posts
  <2>7. i' = Return(r) /\ toA' = toA \o r.tx /\ waiting' = waiting /\ sent' = sent \cup Apps(r.tx)
    BY <1>2, <1>7 DEF ICall
  <2>8. Idle(i') /\ i'.cfg = r.cfg /\ i'.outb = r.outb /\ i'.inb = i.inb + 1
    BY <2>6, <2>7, Returned
  <2>9. /\ toA \o r.tx \in Seq(WireMsgs)
        /\ LinkOK(i', a, toA \o r.tx, Tail(toI), sent \cup Apps(r.tx), got)
    BY Zenon, <1>2, <1>3, <2>1, <2>6, <2>8, Link_IReceives
  <2>10. Base(i', a', toA', toI', waiting')
    BY Zenon, <1>2, <1>3, <1>4, <2>6, <2>7, <2>8, <2>9 DEF Base
  <2>11. QED BY <1>2, <1>7, <2>7, <2>9, <2>10 DEF LInv
<1>8. QED BY <1>2, <1>6, <1>7

(* What an acceptor does with a connection that is gone.                    *)
LEMMA LInv_ACall_dead ==
  ASSUME LInv, aconn # "linked", NEW r, SessionOK(r), r.cfg = a.cfg, NEW fails,
         ACall(r, fails), UNCHANGED <<i, iconn, aconn, waiting, sent>>,
         toA' \in Seq(WireMsgs)
  PROVE  LInv'
<1>1. /\ a' = Return(r) /\ toI' = toI /\ i' = i /\ iconn' = iconn /\ aconn' = aconn
      /\ waiting' = waiting /\ sent' = sent
  BY Zenon DEF ACall
<1>2. Idle(a') /\ a'.cfg = a.cfg
  BY <1>1, Returned
<1>3. Base(i', a', toA', toI', waiting')
  BY <1>1, <1>2 DEF LInv, Base
<1>4. QED BY Zenon, <1>1, <1>3 DEF LInv

(* The acceptor's socket has a message.                                     *)
LEMMA LInv_AReceive ==
  ASSUME LInv, Unwrapped, AReceive
  PROVE  LInv'
<1>1. PICK fails \in FailSets : ACall(on_data_received(Call(a, fails), Head(toA)), fails)
  BY DEF AReceive
<1> DEFINE c == Call(a, fails)
           m == Head(toA)
           r == on_data_received(c, m)
<1>2. /\ aconn \in {"linked", "dead"} /\ toA # <<>> /\ toA' = Tail(toA) /\ ACall(r, fails)
      /\ UNCHANGED <<i, iconn, aconn, waiting, sent>>
  BY <1>1 DEF AReceive
<1>3. Base(i, a, toA, toI, waiting) /\ Idle(a) /\ a.cfg = AcceptorConfig
  BY DEF LInv, Base
<1>4. toA \in Seq(WireMsgs) /\ Tail(toA) \in Seq(WireMsgs) /\ m \in WireMsgs
  BY <1>2, <1>3, Wire_tail DEF Base
<1>5. /\ SessionOK(c) /\ c.tx = <<>> /\ c.app = <<>> /\ c.state = a.state
      /\ c.cfg = a.cfg /\ c.outb = a.outb /\ c.inb = a.inb /\ c.interval = a.interval
  BY Zenon, <1>3, Called
<1> HIDE DEF c, m
<1>6. CASE aconn = "dead"
  <2>1. PeerOK(m)
    BY <1>4, WireFields
  <2>2. SessionOK(r) /\ r.cfg = a.cfg
    BY <1>5, <2>1, Keeps_on_data_received DEF Keeps
  <2> HIDE DEF r
  <2>3. aconn # "linked" /\ toA' \in Seq(WireMsgs)
    BY <1>2, <1>4, <1>6
  <2>4. QED BY <1>2, <2>2, <2>3, LInv_ACall_dead
<1>7. CASE aconn = "linked"
  <2>1. LinkOK(i, a, toA, toI, sent, got) /\ iconn = "linked"
    BY <1>7 DEF LInv
  <2>2. a.inb \in Int /\ i.outb \in Int
    BY <1>3 DEF Base, Idle, SessionOK, SeqNums, Words, INITIAL_SEQ_NUM
  <2>3. m.seq = a.inb /\ a.inb < i.outb
    <3>1. Numbered(toA, a.inb, i.outb)
      BY <2>1 DEF LinkOK
    <3>2. QED BY <1>2, <1>4, <2>2, <3>1, Numbered_tail DEF m
  <2>4. c.inb < MAX_SEQ_NUM /\ Fresh(c)
    BY <1>3, <1>5, <2>2, <2>3, SeqNumAssumption DEF Unwrapped, Fresh
  <2>5. Receiving(c, m, r)
    BY <1>4, <1>5, <2>3, <2>4, Receiving_on_data_received
  <2> HIDE DEF r
  <2>6. Receiving(a, m, r)
    BY <1>5, <2>5 DEF Receiving, Posts
  <2>7. SessionOK(r) /\ r.cfg = a.cfg
    BY <2>6 DEF Receiving
  <2>8. a' = Return(r) /\ toI' = toI \o r.tx /\ got' = got \o r.app
    BY <1>2, <1>7 DEF ACall
  <2>9. /\ Idle(a') /\ a'.cfg = r.cfg /\ a'.outb = r.outb /\ a'.inb = r.inb
        /\ a'.state = r.state
    BY <2>7, <2>8, Returned
  <2>10. /\ toI \o r.tx \in Seq(WireMsgs)
         /\ LinkOK(i, a', Tail(toA), toI \o r.tx, sent, got \o r.app)
    BY Zenon, <1>2, <1>3, <2>1, <2>6, <2>9, Link_AReceives DEF m
  <2>11. Base(i', a', toA', toI', waiting')
    BY <1>2, <1>3, <1>4, <2>7, <2>8, <2>9, <2>10 DEF Base
  <2>12. QED BY <1>2, <1>7, <2>1, <2>8, <2>10, <2>11 DEF LInv
<1>8. QED BY <1>2, <1>6, <1>7

(* The acceptor's timer, which may give the peer up on a standing           *)
(* connection: the session is then in Error and sends nothing.              *)
LEMMA LInv_ATick ==
  ASSUME LInv, Unwrapped, ATick
  PROVE  LInv'
<1>1. PICK fails \in FailSets, ages \in Ages(a) :
        ACall(Now(on_timer_tick(Call(Later(a, ages), fails))), fails)
  BY DEF ATick
<1> DEFINE r == Now(on_timer_tick(Call(Later(a, ages), fails)))
           types == {"TestRequest", "Heartbeat"}
<1>2. Base(i, a, toA, toI, waiting) /\ Idle(a) /\ a.outb < MAX_SEQ_NUM
  BY DEF LInv, Base, Unwrapped
<1>3. /\ Sending(a, r, types)
      /\ a.state # "Active" => r.tx = <<>> /\ r.outb = a.outb /\ r.state = a.state
      /\ r.state \in {a.state, "Error"}
  BY Zenon, <1>2, Sending_tick
<1>4. ACall(r, fails) /\ UNCHANGED <<i, iconn, aconn, toA, waiting, sent>>
  BY Zenon, <1>1 DEF ATick
<1> HIDE DEF r
<1>5. CASE aconn # "linked"
  <2>1. SessionOK(r) /\ r.cfg = a.cfg
    BY <1>3 DEF Sending
  <2>2. toA' \in Seq(WireMsgs)
    BY <1>2, <1>4 DEF Base
  <2>3. QED BY <1>4, <1>5, <2>1, <2>2, LInv_ACall_dead
<1>6. CASE aconn = "linked"
  <2>1. LinkOK(i, a, toA, toI, sent, got) /\ iconn = "linked"
    BY <1>6 DEF LInv
  <2>2. a.state = "Active" => r.state \in Answered
    BY <1>3 DEF Answered
  <2>5. /\ SessionOK(r) /\ r.cfg = a.cfg /\ r.inb = a.inb /\ r.interval = a.interval
        /\ r.app = <<>> /\ Posts(a, r, types)
    BY <1>2, <1>3 DEF Sending, Idle
  <2>6. a' = Return(r) /\ toI' = toI \o r.tx /\ got' = got \o r.app
    BY <1>4, <1>6 DEF ACall
  <2>7. /\ Idle(a') /\ a'.cfg = r.cfg /\ a'.outb = r.outb /\ a'.inb = r.inb
        /\ a'.state = r.state
    BY <2>5, <2>6, Returned
  <2>8. /\ toI \o r.tx \in Seq(WireMsgs)
        /\ LinkOK(i, a', toA, toI \o r.tx, sent, got)
    BY Zenon, <1>2, <1>3, <2>1, <2>2, <2>5, <2>7, Link_ASends
  <2>9. got' = got
    <3>1. got \in Seq(WireMsgs)
      BY <2>1 DEF LinkOK, AppsOK
    <3>2. got \o <<>> = got
      BY <3>1
    <3>3. QED BY <2>5, <2>6, <3>2
  <2>10. Base(i', a', toA', toI', waiting')
    BY Zenon, <1>2, <1>4, <2>5, <2>6, <2>7, <2>8 DEF Base
  <2>11. QED BY <1>4, <1>6, <2>1, <2>6, <2>8, <2>9, <2>10 DEF LInv
<1>7. QED BY <1>5, <1>6

(* A new connection: the initiator starts again from the first number.      *)
LEMMA LInv_Connect ==
  ASSUME LInv, ResetsAtLogon, Connect
  PROVE  LInv'
<1>1. PICK fails \in FailSets :
        LET r == initiate_logon(Call(on_connect(i), fails)) IN
        i' = Return(r) /\ waiting' = r.tx
  BY DEF Connect
<1> DEFINE d == on_connect(i)
           c == Call(d, fails)
           r == initiate_logon(c)
<1>2. /\ Base(i, a, toA, toI, waiting) /\ SessionOK(i) /\ i.tx = <<>> /\ i.app = <<>>
      /\ i.cfg \in InitiatorConfigs
  BY DEF LInv, Base, Idle
<1>3. i.state \in {"Disconnected", "Reconnecting", "Error"}
  BY DEF Connect
<1>4. Quiet(i, d) /\ d.state = "SocketConnected"
  <2>1. Quiet(i, d)
    BY Zenon, <1>2, Quiet_steps DEF on_connect
  <2>2. d.state = next_state(i.state, "Connect")
    BY <1>2, Session_transition DEF on_connect
  <2>3. QED BY <1>3, <2>1, <2>2 DEF next_state
<1> HIDE DEF d
<1>5. Idle(d)
  BY <1>2, <1>4 DEF Quiet, Idle
<1>6. /\ SessionOK(c) /\ c.tx = <<>> /\ c.app = <<>> /\ c.state = "SocketConnected"
      /\ c.cfg = i.cfg
  BY <1>4, <1>5, Called DEF Quiet
<1> HIDE DEF c
<1>7. c.cfg.reset_seq_num_on_logon /\ c.cfg \in InitiatorConfigs
  BY <1>2, <1>6 DEF ResetsAtLogon
<1>8. /\ SessionOK(r) /\ r.cfg = c.cfg /\ r.inb = 1 /\ r.state \in Opening
      /\ \/ r.tx = <<>> /\ r.outb = 1
         \/ /\ r.outb = 2
            /\ \E m \in WireMsgs : m.type = "Logon" /\ m.seq = 1 /\ r.tx = <<m>>
  BY <1>6, <1>7, Sending_initiate_logon
<1>9. i' = Return(r) /\ waiting' = r.tx
  BY <1>1 DEF r, c, d
<1> HIDE DEF r
<1>10. /\ Idle(i') /\ i'.state = r.state /\ i'.cfg = r.cfg /\ i'.outb = r.outb
       /\ i'.inb = r.inb
  BY <1>8, <1>9, Returned
<1>11. /\ r.tx \in Seq(WireMsgs) /\ Numbered(r.tx, 1, r.outb)
       /\ \A n \in 1 .. Len(r.tx) : r.tx[n].type = "Logon"
  <2>1. CASE r.tx = <<>> /\ r.outb = 1
    <3>1. r.tx \in Seq(WireMsgs) /\ Numbered(<<>>, 1, 1) /\ Len(r.tx) = 0
      BY <2>1, Wire_empty
    <3>2. QED BY <2>1, <3>1
  <2>2. CASE /\ r.outb = 2
             /\ \E m \in WireMsgs : m.type = "Logon" /\ m.seq = 1 /\ r.tx = <<m>>
    <3>1. PICK m \in WireMsgs : m.type = "Logon" /\ m.seq = 1 /\ r.tx = <<m>>
      BY <2>2
    <3>2. <<m>> \in Seq(WireMsgs) /\ Len(<<m>>) = 1 /\ <<m>>[1] = m
      OBVIOUS
    <3>3. ~m.dup
      BY WireFields
    <3>4. QED BY <2>2, <3>1, <3>2, <3>3 DEF Numbered
  <2>3. QED BY <1>8, <2>1, <2>2
<1>12. /\ iconn' = "pending" /\ aconn' = (IF iconn = "linked" THEN "dead" ELSE aconn)
       /\ toI' = <<>> /\ sent' = {} /\ a' = a /\ toA' = toA
  BY DEF Connect
<1>13. PendingOK(i', waiting', sent')
  BY <1>8, <1>9, <1>10, <1>11, <1>12 DEF PendingOK, INITIAL_SEQ_NUM
<1>14. Base(i', a', toA', toI', waiting')
  BY <1>2, <1>6, <1>8, <1>9, <1>10, <1>11, <1>12, Wire_empty DEF Base
<1>15. aconn' # "linked"
  BY <1>12 DEF LInv
<1>16. QED BY <1>12, <1>13, <1>14, <1>15 DEF LInv

(* The acceptor takes the connection and builds a session for it.           *)
LEMMA LInv_Accept ==
  ASSUME LInv, Accept
  PROVE  LInv'
<1> DEFINE n == NewSession(a.cfg, a.st)
           c == on_connect(n)
<1>1. /\ Base(i, a, toA, toI, waiting) /\ PendingOK(i, waiting, sent)
      /\ SessionOK(a) /\ a.cfg = AcceptorConfig
  BY DEF LInv, Base, Idle, Accept
<1>2. StoreOK(a.st)
  BY <1>1 DEF SessionOK
<1>3. /\ SessionOK(n) /\ n.state = "Disconnected" /\ n.cfg = AcceptorConfig
      /\ n.outb = 1 /\ n.inb = 1
  <2>1. /\ SessionOK(n) /\ n.state = "Disconnected" /\ n.cfg = a.cfg
        /\ n.outb = 1 /\ n.inb = 1
    BY <1>2, Session_New
  <2>2. QED BY Zenon, <1>1, <2>1
<1> HIDE DEF n
<1>4. Quiet(n, c) /\ c.state = "SocketConnected"
  <2>1. Quiet(n, c)
    BY Zenon, <1>3, Quiet_steps DEF on_connect
  <2>2. c.state = next_state(n.state, "Connect")
    BY <1>3, Session_transition DEF on_connect
  <2>3. QED BY <1>3, <2>1, <2>2 DEF next_state
<1> HIDE DEF c
<1>5. SessionOK(c)
  BY <1>4 DEF Quiet
<1>6. /\ a' = Return(c) /\ aconn' = "linked" /\ iconn' = "linked" /\ toA' = waiting
      /\ waiting' = <<>> /\ toI' = <<>> /\ got' = <<>> /\ i' = i /\ sent' = sent
  BY DEF Accept, c, n
<1>7. /\ Idle(a') /\ a'.state = "SocketConnected" /\ a'.cfg = AcceptorConfig
      /\ a'.outb = 1 /\ a'.inb = 1
  <2>1. c.cfg = n.cfg /\ c.outb = n.outb /\ c.inb = n.inb
    BY <1>4 DEF Quiet
  <2>2. /\ Idle(a') /\ a'.state = c.state /\ a'.cfg = c.cfg /\ a'.outb = c.outb
        /\ a'.inb = c.inb
    BY <1>5, <1>6, Returned
  <2>3. QED BY <1>3, <1>4, <2>1, <2>2
<1>8. Base(i', a', toA', toI', waiting')
  BY <1>1, <1>6, <1>7, Wire_empty DEF Base
<1>9. Numbered(toA', a'.inb, i'.outb) /\ Numbered(toI', i'.inb, a'.outb)
  BY <1>1, <1>6, <1>7, Wire_empty DEF PendingOK, INITIAL_SEQ_NUM
<1>10. Handshake(i', a', toA', toI')
  BY <1>1, <1>6, <1>7 DEF PendingOK, Handshake
<1>11. AppsOK(sent', got', toA', a'.inb)
  <2>1. sent = {} /\ \A k \in 1 .. Len(waiting) : waiting[k].type = "Logon"
    BY <1>1 DEF PendingOK
  <2>2. Apps(waiting) = {}
    BY <2>1 DEF Apps
  <2>3. /\ \A k \in 1 .. Len(<<>>) : FALSE
        /\ {<<>>[k] : k \in 1 .. Len(<<>>)} = {}
    OBVIOUS
  <2>4. QED BY <1>6, <2>1, <2>2, <2>3, Wire_empty DEF AppsOK
<1>12. LinkOK(i', a', toA', toI', sent', got')
  BY <1>7, <1>9, <1>10, <1>11 DEF LinkOK
<1>13. QED BY <1>6, <1>8, <1>12 DEF LInv

(* Losing a connection and noticing the loss.                               *)
LEMMA LInv_Loss ==
  ASSUME LInv, Break \/ INotice \/ ANotice
  PROVE  LInv'
<1>1. Base(i, a, toA, toI, waiting) /\ Idle(i)
  BY DEF LInv, Base
<1>2. CASE Break
  <2>1. Base(i', a', toA', toI', waiting')
    BY <1>1, <1>2, Wire_empty DEF Base, Break
  <2>2. iconn' = "dead" /\ aconn' # "linked"
    BY <1>2 DEF Break, LInv
  <2>3. QED BY <2>1, <2>2 DEF LInv
<1>3. CASE INotice
  <2> DEFINE d == on_disconnect(i)
  <2>1. Quiet(i, d)
    BY Zenon, <1>1, Quiet_steps DEF on_disconnect, Idle
  <2>2. i' \in {i, Return(d)}
    BY <1>3 DEF INotice
  <2> HIDE DEF d
  <2>3. Idle(i') /\ i'.cfg = i.cfg
    <3>1. SessionOK(d) /\ d.cfg = i.cfg
      BY <2>1 DEF Quiet
    <3>2. CASE i' = i
      BY <1>1, <3>2
    <3>3. CASE i' = Return(d)
      BY <3>1, <3>3, Returned
    <3>4. QED BY <2>2, <3>2, <3>3
  <2>4. /\ iconn = "dead" /\ iconn' = "closed" /\ toI' = <<>> /\ a' = a /\ aconn' = aconn
        /\ toA' = toA /\ waiting' = waiting
    BY <1>3 DEF INotice
  <2>5. Base(i', a', toA', toI', waiting')
    BY <1>1, <2>3, <2>4, Wire_empty DEF Base
  <2>6. QED BY <2>4, <2>5 DEF LInv
<1>4. CASE ANotice
  <2>1. /\ aconn = "dead" /\ aconn' = "closed" /\ toA' = <<>> /\ i' = i /\ a' = a
        /\ iconn' = iconn /\ toI' = toI /\ waiting' = waiting /\ sent' = sent
    BY <1>4 DEF ANotice
  <2>2. Base(i', a', toA', toI', waiting')
    BY <1>1, <2>1, Wire_empty DEF Base
  <2>3. iconn # "linked"
    BY <2>1 DEF LInv
  <2>4. QED BY <2>1, <2>2, <2>3 DEF LInv
<1>5. QED BY <1>2, <1>3, <1>4

(* A step from a state in which no counter is at its last number.           *)
THEOREM LInv_Next ==
  ASSUME ResetsAtLogon
  PROVE  LInv /\ Unwrapped /\ [Next]_vars => LInv'
<1> SUFFICES ASSUME LInv, Unwrapped, [Next]_vars PROVE LInv'
  OBVIOUS
<1>1. CASE Connect
  BY <1>1, LInv_Connect
<1>2. CASE Accept
  BY <1>2, LInv_Accept
<1>3. CASE Break \/ INotice \/ ANotice
  BY <1>3, LInv_Loss
<1>4. CASE IReceive
  BY <1>4, LInv_IReceive
<1>5. CASE AReceive
  BY <1>5, LInv_AReceive
<1>6. CASE \E b \in Bodies : SendApp(b)
  BY <1>6, LInv_SendApp
<1>7. CASE Logout
  BY <1>7, LInv_Logout
<1>8. CASE ITick
  BY <1>8, LInv_ITick
<1>9. CASE ATick
  BY <1>9, LInv_ATick
<1>10. CASE UNCHANGED vars
  BY <1>10 DEF vars, LInv
<1>11. QED BY <1>1, <1>2, <1>3, <1>4, <1>5, <1>6, <1>7, <1>8, <1>9, <1>10 DEF Next

(* The invariant as long as no counter reaches its last number.             *)
THEOREM LinkInvariant ==
  ASSUME ResetsAtLogon
  PROVE  Spec /\ []Unwrapped => []LInv
<1>1. Init => LInv
  BY LInv_Init
<1>2. LInv /\ Unwrapped /\ [Next]_vars => LInv'
  BY LInv_Next
<1>3. QED BY <1>1, <1>2, PTL DEF Spec

(* With an initiator that resets at logon, the messages on a standing or    *)
(* pending connection carry consecutive numbers, whatever sends fail and    *)
(* however often the connection breaks and is made again.                   *)
THEOREM WireStaysInSequence ==
  ASSUME ResetsAtLogon
  PROVE  Spec /\ []Unwrapped => []WireInSequence
<1>1. LInv => WireInSequence
  BY DEF LInv, LinkOK, PendingOK, WireInSequence
<1>2. QED BY <1>1, LinkInvariant, PTL

(* The acceptor's application gets every message the initiator sent on the  *)
(* connection once and in order.                                            *)
THEOREM AppsAlwaysArrive ==
  ASSUME ResetsAtLogon
  PROVE  Spec /\ []Unwrapped => []AppsArrive
<1>1. LInv => AppsArrive
  <2> SUFFICES ASSUME LInv, iconn = "linked"
               PROVE  /\ \A n, k \in 1 .. Len(got) : n < k => got[n].seq < got[k].seq
                      /\ {got[n] : n \in 1 .. Len(got)} = {m \in sent : m.seq < a.inb}
                      /\ Apps(toA) = {m \in sent : m.seq >= a.inb}
    BY DEF AppsArrive
  <2> DEFINE A == {got[n] : n \in 1 .. Len(got)}
  <2>1. /\ Numbered(toA, a.inb, i.outb) /\ a.inb \in Int
        /\ AppsOK(sent, got, toA, a.inb)
    BY DEF LInv, LinkOK, Base, Idle, SessionOK, Words
  <2>2. /\ got \in Seq(WireMsgs)
        /\ \A n, k \in 1 .. Len(got) : n < k => got[n].seq < got[k].seq
        /\ \A n \in 1 .. Len(got) : got[n].seq < a.inb
        /\ sent = A \cup Apps(toA)
    BY <2>1 DEF AppsOK
  <2>3. \A m \in A : m.seq < a.inb /\ m.seq \in Int
    <3>1. ASSUME NEW n \in 1 .. Len(got) PROVE got[n].seq < a.inb /\ got[n].seq \in Int
      <4>1. got[n] \in WireMsgs
        BY <2>2
      <4>2. QED BY <2>2, <4>1, WireFields DEF SeqNums
    <3>2. QED BY <3>1
  <2>4. \A m \in Apps(toA) : m.seq >= a.inb
    <3>1. ASSUME NEW n \in 1 .. Len(toA) PROVE toA[n].seq >= a.inb
      BY <2>1 DEF Numbered
    <3>2. QED BY <3>1 DEF Apps
  <2> HIDE DEF A
  <2>5. A = {m \in sent : m.seq < a.inb} /\ Apps(toA) = {m \in sent : m.seq >= a.inb}
    <3>1. \A m \in A : ~(m.seq >= a.inb)
      BY <2>1, <2>3
    <3>2. \A m \in Apps(toA) : ~(m.seq < a.inb)
      <4>1. \A m \in Apps(toA) : m.seq \in Int
        <5>1. ASSUME NEW n \in 1 .. Len(toA) PROVE toA[n].seq \in Int
          BY <2>1 DEF Numbered
        <5>2. QED BY <5>1 DEF Apps
      <4>2. QED BY <2>1, <2>4, <4>1
    <3>3. QED BY <2>2, <2>3, <2>4, <3>1, <3>2
  <2>6. QED BY <2>2, <2>5 DEF A
<1>2. QED BY <1>1, LinkInvariant, PTL

(* An initiator is active only when its peer has taken its Logon and has    *)
(* answered it.                                                             *)
THEOREM ActiveAlwaysHasPeer ==
  ASSUME ResetsAtLogon
  PROVE  Spec /\ []Unwrapped => []ActiveHasPeer
<1>1. LInv => ActiveHasPeer
  BY DEF LInv, LinkOK, Handshake, Answered, Opening, ActiveHasPeer
<1>2. QED BY <1>1, LinkInvariant, PTL
=============================================================================
