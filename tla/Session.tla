------------------------------- MODULE Session -------------------------------
(***************************************************************************)
(* One SessionManager driven by its engine against an arbitrary peer.      *)
(*                                                                         *)
(* An initiator (engine/fix_initiator.hpp) keeps one SessionManager over   *)
(* all its connections and logs on as soon as a connection is made.  An    *)
(* acceptor (engine/fix_acceptor.hpp) builds a new SessionManager for      *)
(* every connection.  Both hand the same message store to every session.   *)
(*                                                                         *)
(* s is the session, connected whether its socket is open, quiet whether   *)
(* the peer has stopped sending for good.  The monitors only observe:      *)
(* last is the number of the last new message sent (0: none yet), log the  *)
(* new messages that went out and that the store still holds or has just   *)
(* been asked for, logonIn and logonOut whether a Logon was received and   *)
(* sent on this connection, inOrder whether the new messages were in       *)
(* sequence so far, again the messages that the last call sent again.      *)
(***************************************************************************)
EXTENDS SessionManager, FiniteSetsExt

CONSTANTS
  Configs,        \* the configurations, role ("initiator", "acceptor") included
  PeerMessages,   \* what the peer may send
  Bodies,         \* application messages the application may send
  FailSets,       \* which uses of on_send may fail during one call
  Restarts,       \* BOOLEAN: the initiator object may be built anew
  MaySilence      \* BOOLEAN: the peer may fall silent

ASSUME SessionAssumption ==
  /\ \A f \in FailSets : f \subseteq Nat
  /\ \A c \in Configs : /\ c.role \in {"initiator", "acceptor"}
                        /\ c.heart_bt_int \in Int
                        /\ c.store \in BOOLEAN
                        /\ c.reset_seq_num_on_logon \in BOOLEAN
                        /\ c.validate_comp_ids \in BOOLEAN
                        /\ c.check_latency \in BOOLEAN
  /\ \A m \in PeerMessages : /\ m.type \in MsgTypes
                             /\ m.seq \in Words
                             /\ m.type = "Logon" => m.x \in Int
                             /\ m.type = "SequenceReset" => m.x \in Words \cup {Absent}

VARIABLES s, connected, quiet, last, log, logonIn, logonOut, inOrder, again

monitors == <<last, log, logonIn, logonOut, inOrder, again>>

vars == <<s, connected, quiet, last, log, logonIn, logonOut, inOrder, again>>

-----------------------------------------------------------------------------
(* What the monitors see of the messages of one call.                       *)

(* A message that consumed a number: not a replay and not a gap fill.       *)
IsNew(m) == ~m.dup /\ m.type # "SequenceReset"

NewAt(tx) == {i \in 1 .. Len(tx) : IsNew(tx[i])}

(* The number of the last new message at one of the places; before: there   *)
(* is none.                                                                 *)
LastOf(tx, places, before) == IF places = {} THEN before ELSE tx[Max(places)].seq

InSequence(tx, before) ==
  \A i \in NewAt(tx) :
    LET prev == LastOf(tx, {j \in NewAt(tx) : j < i}, before)
    IN prev = 0 \/ tx[i].seq = next_outbound(prev)

(* The call ends with the session in r; numbering begins anew from start.   *)
Observe(r, start) ==
  /\ s' = Return(r)
  /\ last' = LastOf(r.tx, NewAt(r.tx), start)
  /\ inOrder' = (inOrder /\ InSequence(r.tx, start))
  /\ again' = {r.tx[i] : i \in {j \in 1 .. Len(r.tx) : r.tx[j].dup}}
  /\ log' = {m \in log \cup {r.tx[i] : i \in NewAt(r.tx)} :
              \/ \E q \in Keys(r.st) : r.st.msgs[q] = m
              \/ \E c \in again' : c.seq = m.seq}

-----------------------------------------------------------------------------
Init ==
  /\ \E c \in Configs : s = NewSession(c, NewStore)
  /\ connected = FALSE /\ quiet = FALSE
  /\ last = 0 /\ log = {} /\ again = {}
  /\ logonIn = FALSE /\ logonOut = FALSE /\ inOrder = TRUE

(* A call on an open connection, started with what the peer sent, if any.   *)
Handle(r, gotLogon) ==
  /\ Observe(r, last)
  /\ logonIn' = (logonIn \/ gotLogon)
  /\ logonOut' = (logonOut \/ LogonIn(r.tx))
  /\ UNCHANGED connected

(* FixInitiator::start and drive_reconnection: the old socket is closed, a  *)
(* connection is made and the session logs on at once.                      *)
Connect ==
  /\ s.cfg.role = "initiator"
  /\ ~connected \/ s.state = "Reconnecting"
  /\ connected' = TRUE
  /\ \E fails \in FailSets :
       LET r == initiate_logon(Call(on_connect(s), fails)) IN
       /\ Observe(r, IF s.cfg.reset_seq_num_on_logon THEN 0 ELSE last)
       /\ logonOut' = LogonIn(r.tx)
  /\ logonIn' = FALSE
  /\ UNCHANGED quiet

(* FixInitiator::poll finds the socket closed.                              *)
ConnectionLost ==
  /\ s.cfg.role = "initiator" /\ connected
  /\ connected' = FALSE
  /\ Observe(IF s.state \in {"Disconnected", "Reconnecting", "Error"} THEN s
             ELSE on_disconnect(s), last)
  /\ logonIn' = FALSE /\ logonOut' = FALSE
  /\ UNCHANGED quiet

(* The initiator dies at any point and a new one takes over its store.      *)
Restart ==
  /\ Restarts /\ s.cfg.role = "initiator"
  /\ connected' = FALSE
  /\ Observe(NewSession(s.cfg, s.st), IF s.cfg.store THEN last ELSE 0)
  /\ logonIn' = FALSE /\ logonOut' = FALSE
  /\ UNCHANGED quiet

(* FixAcceptor::run_loop: a session of its own for each connection, which   *)
(* is told of the end of the connection only when stop() ends it.           *)
Accept ==
  /\ s.cfg.role = "acceptor" /\ ~connected
  /\ connected' = TRUE
  /\ Observe(on_connect(NewSession(s.cfg, s.st)), 0)
  /\ logonIn' = FALSE /\ logonOut' = FALSE
  /\ UNCHANGED quiet

EndOfConnection ==
  /\ s.cfg.role = "acceptor" /\ connected
  /\ connected' = FALSE
  /\ Observe(s, last) \/ Observe(on_disconnect(s), last)
  /\ logonIn' = FALSE /\ logonOut' = FALSE
  /\ UNCHANGED quiet

Receive(m) ==
  /\ connected /\ ~quiet
  /\ \E fails \in FailSets : Handle(on_data_received(Call(s, fails), m), m.type = "Logon")
  /\ UNCHANGED quiet

ReceiveBad ==
  /\ connected /\ ~quiet
  /\ Handle(on_bad_data_received(s), FALSE)
  /\ UNCHANGED quiet

SendApp(body) ==
  /\ connected
  /\ \E fails \in FailSets : Handle(send_app_message(Call(s, fails), body), FALSE)
  /\ UNCHANGED quiet

Logout ==
  /\ connected
  /\ \E fails \in FailSets : Handle(initiate_logout(Call(s, fails)), FALSE)
  /\ UNCHANGED quiet

(* The engine ticks every 100 ms: at least once after each half second, and *)
(* possibly again before the next one.                                      *)
Elapsed ==
  /\ connected
  /\ \E fails \in FailSets : Handle(on_timer_tick(Call(Elapse(s), fails)), FALSE)
  /\ UNCHANGED quiet

Tick ==
  /\ connected
  /\ \E fails \in FailSets : Handle(on_timer_tick(Call(s, fails)), FALSE)
  /\ UNCHANGED quiet

FallSilent ==
  /\ MaySilence /\ ~quiet
  /\ quiet' = TRUE
  /\ UNCHANGED <<s, connected, monitors>>

Next ==
  \/ Connect \/ ConnectionLost \/ Restart \/ Accept \/ EndOfConnection
  \/ \E m \in PeerMessages : Receive(m)
  \/ ReceiveBad
  \/ \E b \in Bodies : SendApp(b)
  \/ Logout \/ Elapsed \/ Tick \/ FallSilent

Spec == Init /\ [][Next]_vars

(* The engine keeps polling: time passes for a connected session.           *)
FairSpec == Spec /\ WF_vars(Elapsed)

-----------------------------------------------------------------------------
(* Every field stays in the range of its C++ type, and the outbound counter *)
(* within the numbers FIX allows.                                           *)
TypeOK ==
  /\ s.state \in States
  /\ s.outb \in SeqNums
  /\ s.inb \in Words
  /\ s.st.next_sender_seq \in SeqNums
  /\ s.st.next_target_seq \in Words
  /\ s.pending \in BOOLEAN
  /\ connected \in BOOLEAN

(* send_message() derives the key it stores a message under from the        *)
(* counter and not from the message: the two agree for every message kept,  *)
(* across failed sends, reconnections and the wrap of the counter.          *)
StoreKeysMatch ==
  \A q \in Keys(s.st) : s.st.msgs[q].seq = q /\ ~s.st.msgs[q].dup

(* From the moment a session has logged on, the number the store would give *)
(* to a session that takes over is the number this session would use next.  *)
PersistedOutbound ==
  (s.cfg.store /\ s.state \in {"LogonSent", "Active", "LogoutPending",
                               "LogoutReceived", "Reconnecting", "Error"})
    => s.st.next_sender_seq = s.outb

(* The new messages on the wire carry consecutive numbers, a failed send    *)
(* leaving no hole, also over reconnections and over the replacement of an  *)
(* initiator that has a store.                                              *)
NewNumbersConsecutive == inOrder

(* A session is active only after a Logon went each way on the connection   *)
(* it has now.                                                              *)
ActiveMeansLoggedOn ==
  (connected /\ s.state \in {"Active", "LogoutPending", "LogoutReceived"})
    => logonIn /\ logonOut

(* A message sent again in answer to a ResendRequest went out before under  *)
(* that number, with the same body: nothing whose send failed is in the     *)
(* store, and nothing under another's number, over wraps and resets too.    *)
(* It has all its fields if the buffer has room for the two more, and its   *)
(* type if MsgType is a single character.                                   *)
ReplaysAreFaithful ==
  \A r \in again : \E m \in log :
    /\ r.seq = m.seq /\ r.x = m.x /\ r.y = m.y /\ r.orig
    /\ CharOf(m) = m.type => r.type = m.type
    /\ Fits(m) => ~r.cut

(* The expected inbound number goes back only on a SequenceReset in reset   *)
(* mode, at a new Logon or with a new session, and at the end of the        *)
(* integer's range: a gap fill, a duplicate or a message out of order never *)
(* moves it back.                                                           *)
InboundBackOnlyByReset ==
  s'.inb < s.inb =>
    \/ Connect \/ Restart \/ Accept
    \/ s.inb = UINT32_MAX
    \/ \E m \in PeerMessages : m.type = "SequenceReset" /\ m.y # 1 /\ Receive(m)

InboundNeverBack == [][InboundBackOnlyByReset]_vars

(* An active session whose peer has been silent for longer than one and a   *)
(* half intervals has a TestRequest outstanding: none is declared dead      *)
(* without having been asked.                                               *)
AskedBeforeTimeout ==
  (s.state = "Active" /\ connected /\ s.interval > 0 /\ s.recvAge > 3 * s.interval)
    => s.pending

(* An active session notices that its peer has fallen silent for good.      *)
SilenceIsNoticed ==
  (quiet /\ connected /\ s.state = "Active") ~> (s.state # "Active" \/ ~connected)

(* A session waiting for the answer to its Logon gives up some time after   *)
(* the peer has fallen silent (SessionConfig::logon_timeout).               *)
LogonTimesOut ==
  (quiet /\ s.state = "LogonSent") ~> (s.state # "LogonSent" \/ ~connected)

(* No message goes out that did not fit in its buffer (transmit()).         *)
NothingCutGoesOut == \A r \in again : ~r.cut

(* The number the store would give to a session that takes over is the      *)
(* inbound number this session expects.                                     *)
PersistedInbound ==
  (s.cfg.store /\ s.state = "Active") => s.st.next_target_seq = s.inb
=============================================================================
