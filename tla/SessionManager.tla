--------------------------- MODULE SessionManager ---------------------------
(***************************************************************************)
(* SessionManager and HeartbeatTimer (session/session_manager.hpp).  A     *)
(* session is a record; each method is a function from the session before  *)
(* the call to the session after it, the calls it makes included.          *)
(*                                                                         *)
(*   cfg       the configuration; cfg.store tells whether a store is set   *)
(*   state     state_                                                      *)
(*   outb      sequences_.next_outbound_                                   *)
(*   inb       sequences_.expected_inbound_                                *)
(*   interval  heartbeat_timer_.interval_, in seconds                      *)
(*   sentAge, recvAge  half seconds since last_sent_ and last_received_    *)
(*   pending   heartbeat_timer_.test_request_pending_                      *)
(*   st        the message store                                           *)
(*                                                                         *)
(* The other fields describe the call in progress: calls counts the uses   *)
(* of the on_send callback, fails says which of them return false (a       *)
(* truncated message is one of those), tx is what went out, app what was   *)
(* handed to on_app_message, and cb the other callbacks made.              *)
(***************************************************************************)
EXTENDS SessionState, SequenceManager, MessageStore

CONSTANTS
  AgeCap,             \* ages stop growing here: longer silences are not told apart
  MAX_FIELDS,         \* ParsedMessage::MAX_FIELDS
  MAX_MESSAGE_SIZE,   \* MessageAssembler::MAX_MESSAGE_SIZE
  DupBytes,           \* what PossDupFlag and OrigSendingTime add to a message
  FieldsOf(_),        \* the number of fields of a message
  CharOf(_)           \* the type that the first character of MsgType stands for

ASSUME AgeAssumption == AgeCap \in Nat

-----------------------------------------------------------------------------
(* Messages.  x and y hold the fields a handler reads: HeartBtInt and       *)
(* ResetSeqNumFlag of a Logon, BeginSeqNo and EndSeqNo of a ResendRequest,  *)
(* NewSeqNo and GapFillFlag of a SequenceReset, the body of an application  *)
(* message.  orig: OrigSendingTime is present.  comp: the CompIDs are those *)
(* configured.  time: SendingTime is within max_latency.  cut: the end of   *)
(* the message is missing, since it did not fit in the buffer.              *)

Absent == -1

AdminTypes ==
  {"Logon", "Logout", "Heartbeat", "TestRequest", "ResendRequest",
   "SequenceReset", "Reject"}

MsgTypes == AdminTypes \cup {"App"}

Message(type, seq, x, y) ==
  [type |-> type, seq |-> seq, dup |-> FALSE, orig |-> FALSE,
   comp |-> TRUE, time |-> TRUE, cut |-> FALSE, x |-> x, y |-> y]

(* The buffer has room for the message with PossDupFlag and OrigSendingTime.*)
Fits(m) == SizeOf(m) + DupBytes <= MAX_MESSAGE_SIZE

(* A stored message is parsed and put together again, with the two fields.  *)
(* Of the messages a session has sent, those with too many fields do not    *)
(* parse, and nothing comes back.  The parser keeps the first character of  *)
(* MsgType.  Whether the new message was cut is not asked.                  *)
mark_poss_dup(m) ==
  IF FieldsOf(m) > MAX_FIELDS THEN <<>>
  ELSE <<[type |-> CharOf(m), seq |-> m.seq, dup |-> TRUE, orig |-> TRUE,
          comp |-> TRUE, time |-> TRUE, cut |-> ~Fits(m), x |-> m.x, y |-> m.y]>>

Flag(b) == IF b THEN 1 ELSE 0

(* A new Logon is among the messages of tx.                                 *)
LogonIn(tx) == \E n \in 1 .. Len(tx) : tx[n].type = "Logon" /\ ~tx[n].dup

-----------------------------------------------------------------------------
(* The session object and the frame of a call.                              *)

NewSession(cfg, st) ==
  [cfg |-> cfg, state |-> "Disconnected",
   outb |-> INITIAL_SEQ_NUM, inb |-> INITIAL_SEQ_NUM,
   interval |-> cfg.heart_bt_int, sentAge |-> 0, recvAge |-> 0, pending |-> FALSE,
   st |-> st,
   calls |-> 0, fails |-> {}, tx |-> <<>>, app |-> <<>>, cb |-> {}]

Call(s, fails) == [s EXCEPT !.fails = fails]

Return(s) ==
  [s EXCEPT !.calls = 0, !.fails = {}, !.tx = <<>>, !.app = <<>>, !.cb = {}]

Notify(s, callback) == [s EXCEPT !.cb = @ \cup {callback}]

transition(s, event) == [s EXCEPT !.state = next_state(@, event)]

-----------------------------------------------------------------------------
(* HeartbeatTimer.                                                          *)

Older(age) == IF age < AgeCap THEN age + 1 ELSE age

(* Half a second passes.                                                    *)
Elapse(s) == [s EXCEPT !.sentAge = Older(@), !.recvAge = Older(@)]

(* Mutant: what is sent also counts as a sign of life of the peer.          *)
message_sent_as_life(s) == [s EXCEPT !.sentAge = 0, !.recvAge = 0]

message_sent(s) == [s EXCEPT !.sentAge = 0]

message_received(s) == [s EXCEPT !.recvAge = 0, !.pending = FALSE]

reset_timer(s) == [s EXCEPT !.sentAge = 0, !.recvAge = 0, !.pending = FALSE]

should_send_heartbeat(s) == s.sentAge >= 2 * s.interval

(* Mutant: the TestRequest is due only when the session times out.          *)
should_send_test_request_late(s) == ~s.pending /\ s.recvAge >= 4 * s.interval

should_send_test_request(s) == ~s.pending /\ s.recvAge >= 3 * s.interval

has_timed_out(s) == s.recvAge >= 4 * s.interval

-----------------------------------------------------------------------------
(* Sending.                                                                 *)

(* Whether the next use of on_send succeeds.                                *)
Sends(s) == (s.calls + 1) \notin s.fails

transmit(s, m) ==
  IF Sends(s)
  THEN message_sent([s EXCEPT !.calls = @ + 1, !.tx = Append(@, m)])
  ELSE [s EXCEPT !.calls = @ + 1]

(* Mutant: the key of a stored message ignores the wrap of the counter.     *)
Persist_without_wrap(s, m) ==
  IF s.cfg.store
  THEN [s EXCEPT !.st = set_next_sender_seq_num(store(@, s.outb - 1, m), s.outb)]
  ELSE s

(* Mutant: the message is stored, the counter is not.                       *)
Persist_without_counter(s, m) ==
  IF s.cfg.store
  THEN [s EXCEPT !.st = store(@, rollback_outbound(s.outb), m)]
  ELSE s

(* The message is kept under the number before the counter, whatever number *)
(* its header carries; the result of store() is ignored.                    *)
Persist(s, m) ==
  IF s.cfg.store
  THEN [s EXCEPT !.st = set_next_sender_seq_num(
                          store(@, rollback_outbound(s.outb), m), s.outb)]
  ELSE s

(* Mutant: a failed send keeps the number it took.                          *)
send_message_without_rollback(s, m) ==
  IF Sends(s) THEN Persist(transmit(s, m), m) ELSE transmit(s, m)

(* Mutant: the message is stored before it is known to be sent.             *)
send_message_store_first(s, m) ==
  IF Sends(s) THEN transmit(Persist(s, m), m)
  ELSE [transmit(Persist(s, m), m) EXCEPT !.outb = rollback_outbound(@)]

send_message(s, m) ==
  IF Sends(s) THEN Persist(transmit(s, m), m)
  ELSE [transmit(s, m) EXCEPT !.outb = rollback_outbound(@)]

(* Every sender builds its message around next_outbound() and passes it to  *)
(* send_message().                                                          *)
SendNew(s, type, x, y) ==
  send_message([s EXCEPT !.outb = next_outbound(@)], Message(type, s.outb, x, y))

send_heartbeat(s) == SendNew(s, "Heartbeat", Absent, Absent)

send_test_request(s) ==
  LET t == SendNew(s, "TestRequest", Absent, Absent)
  IN IF Sends(s) THEN [t EXCEPT !.pending = TRUE] ELSE t

send_reject(s, ref, reason) == SendNew(s, "Reject", ref, reason)

send_logout_and_disconnect(s) ==
  Notify(transition(SendNew(s, "Logout", Absent, Absent), "Disconnect"), "error")

-----------------------------------------------------------------------------
(* The calls of the engine and of the application.                          *)

on_connect(s) == transition(s, "Connect")

on_disconnect(s) == transition(s, "Disconnect")

(* The numbers a Logon starts from.  A reset leaves the store alone; a      *)
(* stored number replaces the session's only when it is past the first.     *)
LogonNumbers(s) ==
  IF s.cfg.reset_seq_num_on_logon
  THEN [s EXCEPT !.outb = INITIAL_SEQ_NUM, !.inb = INITIAL_SEQ_NUM]
  ELSE IF s.cfg.store
  THEN [s EXCEPT !.outb = IF s.st.next_sender_seq > INITIAL_SEQ_NUM
                          THEN s.st.next_sender_seq ELSE @,
                 !.inb = IF s.st.next_target_seq > INITIAL_SEQ_NUM
                         THEN s.st.next_target_seq ELSE @]
  ELSE s

(* Mutant: the session does not wait for the answer to its Logon.           *)
initiate_logon_unanswered(s) ==
  IF s.state # "SocketConnected" THEN s
  ELSE LET t == SendNew(LogonNumbers(s), "Logon", s.cfg.heart_bt_int,
                        Flag(s.cfg.reset_seq_num_on_logon))
       IN IF Sends(s) THEN transition(transition(t, "LogonSent"), "LogonReceived") ELSE t

initiate_logon(s) ==
  IF s.state # "SocketConnected" THEN s
  ELSE LET t == SendNew(LogonNumbers(s), "Logon", s.cfg.heart_bt_int,
                        Flag(s.cfg.reset_seq_num_on_logon))
       IN IF Sends(s) THEN transition(t, "LogonSent") ELSE t

initiate_logout(s) ==
  IF s.state # "Active" THEN s
  ELSE LET t == SendNew(s, "Logout", Absent, Absent)
       IN IF Sends(s) THEN transition(t, "LogoutSent") ELSE t

send_app_message(s, body) ==
  IF can_send_app_messages(s.state) THEN SendNew(s, "App", body, Absent) ELSE s

on_timer_tick(s) ==
  IF s.state # "Active" THEN s
  ELSE IF has_timed_out(s) THEN transition(s, "HeartbeatTimeout")
  ELSE IF should_send_test_request(s) THEN send_test_request(s)
  ELSE IF should_send_heartbeat(s) THEN send_heartbeat(s)
  ELSE s

-----------------------------------------------------------------------------
(* Admin messages.                                                          *)

(* Mutant: the session becomes active even if its reply was not sent.       *)
handle_logon_unchecked(s, m) ==
  IF s.state = "LogonSent"
  THEN reset_timer(transition(s, "LogonReceived"))
  ELSE IF s.state = "SocketConnected"
  THEN reset_timer(transition(SendNew(transition(s, "LogonReceived"), "Logon",
                                      s.cfg.heart_bt_int, 0), "LogonAcknowledged"))
  ELSE s

(* The answer to our Logon, or the Logon of a peer that connected to us.    *)
handle_logon(s, m) ==
  IF s.state = "LogonSent"
  THEN LET t == IF m.x # Absent THEN [s EXCEPT !.interval = m.x] ELSE s
       IN Notify(reset_timer(transition(t, "LogonReceived")), "logon")
  ELSE IF s.state = "SocketConnected"
  THEN LET t == SendNew(transition(s, "LogonReceived"), "Logon", s.cfg.heart_bt_int, 0)
       IN IF Sends(s)
          THEN Notify(reset_timer(transition(t, "LogonAcknowledged")), "logon")
          ELSE t
  ELSE s

(* Mutant: a Logout is not answered.                                        *)
handle_logout_silent(s) == Notify(transition(s, "LogoutReceived"), "logout")

handle_logout(s) ==
  LET t == transition(s, "LogoutReceived")
      r == SendNew(t, "Logout", Absent, Absent)
  IN Notify(IF s.state = "LogoutPending" THEN t
            ELSE IF Sends(s) THEN transition(r, "LogoutSent")
            ELSE r, "logout")

handle_test_request(s) == SendNew(s, "Heartbeat", Absent, Absent)

(* The stored messages of the range go out again through on_send, whose     *)
(* result is ignored; the counters are not touched.  Those that are not     *)
(* parsed again are passed over.                                            *)
Replay(s, kept) ==
  LET marked == {i \in 1 .. Len(kept) : mark_poss_dup(kept[i]) # <<>>}
      sent == {i \in 1 .. Cardinality(marked) : (s.calls + i) \notin s.fails}
      r == [s EXCEPT !.calls = @ + Cardinality(marked),
                     !.tx = @ \o [j \in 1 .. Cardinality(sent) |->
                                     mark_poss_dup(kept[Nth(marked, Nth(sent, j))])[1]]]
  IN IF marked = {} THEN s ELSE message_sent(r)

(* Without stored messages, one gap fill up to the next number to be sent.  *)
GapFill(s, begin) == transmit(s, Message("SequenceReset", begin, s.outb, 1))

handle_resend_request(s, m) ==
  LET kept == IF s.cfg.store THEN retrieve_range(s.st, m.x, m.y) ELSE <<>>
  IN IF m.x = Absent \/ m.y = Absent THEN s
     ELSE IF kept # <<>> THEN Replay(s, kept)
     ELSE GapFill(s, m.x)

(* Mutant: a gap fill is not compared with the expectation.                 *)
handle_sequence_reset_unchecked(s, m) ==
  IF m.x = Absent THEN s ELSE [s EXCEPT !.inb = m.x]

handle_sequence_reset(s, m) ==
  IF m.x = Absent THEN s
  ELSE IF m.y = 1 /\ m.x < s.inb THEN send_reject(s, m.seq, 5)
  ELSE [s EXCEPT !.inb = m.x]

handle_admin_message(s, m) ==
  CASE m.type = "Logon"         -> handle_logon(s, m)
    [] m.type = "Logout"        -> handle_logout(s)
    [] m.type = "Heartbeat"     -> s
    [] m.type = "TestRequest"   -> handle_test_request(s)
    [] m.type = "ResendRequest" -> handle_resend_request(s, m)
    [] m.type = "SequenceReset" -> handle_sequence_reset(s, m)
    [] m.type = "Reject"        -> Notify(s, "error")

handle_app_message(s, m) == [s EXCEPT !.app = Append(@, m)]

-----------------------------------------------------------------------------
(* Incoming data: one message that parses, or one that does not.            *)

handle_parse_error(s) == Notify(s, "error")

handle_sequence_gap(s, received) ==
  LET gap == gap_range(s.inb, received)
  IN SendNew(s, "ResendRequest", gap[1], gap[2])

handle_sequence_error(s) == Notify(s, "error")

(* The CompIDs of the message that opens an accepted connection are not     *)
(* compared, and SendingTime is compared only in an active session.         *)
BadCompId(s, m) ==
  s.cfg.validate_comp_ids /\ s.state # "SocketConnected" /\ ~m.comp

BadSendingTime(s, m) == s.cfg.check_latency /\ s.state = "Active" /\ ~m.time

(* A message beyond the expected number is answered with a ResendRequest    *)
(* and then handled at once; a duplicate marked as such is handled too.     *)
ProcessMessage(s, m) ==
  LET verdict == SequenceResult(s.inb, m.seq)
      expected == validate_inbound(s.inb, m.seq)
      t == CASE verdict = "GapDetected" -> handle_sequence_gap(s, m.seq)
             [] verdict = "TooLow" -> s
             [] verdict = "Ok" ->
                  [s EXCEPT !.inb = expected,
                            !.st = IF s.cfg.store
                                   THEN set_next_target_seq_num(@, expected) ELSE @]
  IN IF verdict = "TooLow" /\ ~m.dup THEN handle_sequence_error(s)
     ELSE IF m.type \in AdminTypes THEN handle_admin_message(t, m)
     ELSE handle_app_message(t, m)

on_data_received(before, m) ==
  LET s == message_received(before)
  IN IF BadCompId(s, m) THEN send_logout_and_disconnect(send_reject(s, m.seq, 9))
     ELSE IF BadSendingTime(s, m) THEN send_logout_and_disconnect(send_reject(s, m.seq, 10))
     ELSE IF m.dup /\ ~m.orig THEN send_reject(s, m.seq, 1)
     ELSE ProcessMessage(s, m)

(* Data that ParsedMessage::parse refuses.                                  *)
on_bad_data_received(before) == handle_parse_error(message_received(before))
=============================================================================
