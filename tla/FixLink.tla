------------------------------- MODULE FixLink -------------------------------
(***************************************************************************)
(* A FixInitiator and a FixAcceptor (engine/*.hpp) over TCP.               *)
(*                                                                         *)
(* i and a are the two sessions.  iconn and aconn are the connection as    *)
(* each end has it: "closed", "pending" (made, and waiting in the backlog  *)
(* of an acceptor that is not done with the one before), "linked", or      *)
(* "dead": gone, and not noticed yet.  toA and toI are the messages on the *)
(* way, waiting those written to a pending connection.  A dead connection  *)
(* swallows or refuses what is sent; what was on the way may still be read. *)
(*                                                                         *)
(* again tells whether the initiator's present connection was made by      *)
(* drive_reconnection(), failed whether a send on it has failed before it  *)
(* died.  sent and got are the application messages of this connection:    *)
(* those the initiator sent, and those the acceptor handed on, in order.   *)
(***************************************************************************)
EXTENDS SessionManager

CONSTANTS
  InitiatorConfigs, AcceptorConfig,
  Bodies,         \* application messages
  FailSets,       \* which uses of on_send may fail during one call
  MaxOut          \* no message is sent unasked beyond this number

ASSUME LinkAssumption == MaxOut < MAX_SEQ_NUM

VARIABLES i, a, iconn, aconn, toA, toI, waiting, again, failed, sent, got

vars == <<i, a, iconn, aconn, toA, toI, waiting, again, failed, sent, got>>

-----------------------------------------------------------------------------
(* The application messages among ms.                                       *)
Apps(ms) == {m \in {ms[n] : n \in 1 .. Len(ms)} : m.type = "App"}

(* A call on the initiator's session that ends in r.                        *)
ICall(r, fails) ==
  /\ i' = Return(r)
  /\ toA' = IF iconn = "linked" THEN toA \o r.tx ELSE toA
  /\ waiting' = IF iconn = "pending" THEN waiting \o r.tx ELSE waiting
  /\ failed' = (failed \/ (iconn # "dead" /\ \E n \in fails : n <= r.calls))
  /\ sent' = sent \cup Apps(r.tx)

(* A call on the acceptor's session that ends in r.                         *)
ACall(r, fails) ==
  /\ a' = Return(r)
  /\ toI' = IF aconn = "linked" THEN toI \o r.tx ELSE toI
  /\ failed' = (failed \/ (aconn # "dead" /\ \E n \in fails : n <= r.calls))
  /\ got' = got \o r.app

Init ==
  /\ \E c \in InitiatorConfigs : i = NewSession(c, NewStore)
  /\ a = NewSession(AcceptorConfig, NewStore)
  /\ iconn = "closed" /\ aconn = "closed"
  /\ toA = <<>> /\ toI = <<>> /\ waiting = <<>>
  /\ again = FALSE /\ failed = FALSE /\ sent = {} /\ got = <<>>

(* start(), and drive_reconnection() in the state Reconnecting: the old     *)
(* socket is closed, a connection is made and the session logs on.          *)
Connect ==
  /\ i.state \in {"Disconnected", "Reconnecting", "Error"}
  /\ \E fails \in FailSets :
       LET r == initiate_logon(Call(on_connect(i), fails)) IN
       /\ i' = Return(r)
       /\ waiting' = r.tx
       /\ failed' = (fails # {})
  /\ iconn' = "pending"
  /\ aconn' = IF iconn = "linked" THEN "dead" ELSE aconn
  /\ again' = (i.state = "Reconnecting")
  /\ toI' = <<>> /\ sent' = {}
  /\ UNCHANGED <<a, toA, got>>

(* run_loop() takes a connection and builds a session for it.               *)
Accept ==
  /\ aconn = "closed" /\ iconn = "pending"
  /\ a' = Return(on_connect(NewSession(a.cfg, a.st)))
  /\ aconn' = "linked" /\ iconn' = "linked"
  /\ toA' = waiting /\ waiting' = <<>> /\ toI' = <<>> /\ got' = <<>>
  /\ UNCHANGED <<i, again, failed, sent>>

(* The network fails, or either host does.  What waits in the backlog on a  *)
(* lost connection is passed over: the acceptor keeps nothing of it.        *)
Break ==
  /\ iconn \in {"pending", "linked"}
  /\ iconn' = "dead"
  /\ aconn' = IF iconn = "linked" THEN "dead" ELSE aconn
  /\ waiting' = <<>>
  /\ UNCHANGED <<i, a, toA, toI, again, failed, sent, got>>

(* poll() finds the socket closed.                                          *)
INotice ==
  /\ iconn = "dead"
  /\ iconn' = "closed" /\ toI' = <<>>
  /\ i' = IF i.state \in {"Disconnected", "Reconnecting", "Error"} THEN i
          ELSE Return(on_disconnect(i))
  /\ UNCHANGED <<a, aconn, toA, waiting, again, failed, sent, got>>

(* run_loop() leaves its loop; the session is destroyed with its scope.     *)
ANotice ==
  /\ aconn = "dead"
  /\ aconn' = "closed" /\ toA' = <<>>
  /\ UNCHANGED <<i, a, iconn, toI, waiting, again, failed, sent, got>>

(* poll_once() reads the next message.  A session in Reconnecting is not    *)
(* polled.                                                                  *)
IReceive ==
  /\ iconn \in {"linked", "dead"} /\ i.state # "Reconnecting" /\ toI # <<>>
  /\ \E fails \in FailSets :
       ICall(on_data_received(Call(i, fails), Head(toI)), fails)
  /\ toI' = Tail(toI)
  /\ UNCHANGED <<a, iconn, aconn, again, got>>

AReceive ==
  /\ aconn \in {"linked", "dead"} /\ toA # <<>>
  /\ \E fails \in FailSets :
       ACall(on_data_received(Call(a, fails), Head(toA)), fails)
  /\ toA' = Tail(toA)
  /\ UNCHANGED <<i, iconn, aconn, waiting, again, sent>>

SendApp(body) ==
  /\ iconn # "closed" /\ i.outb < MaxOut
  /\ \E fails \in FailSets : ICall(send_app_message(Call(i, fails), body), fails)
  /\ UNCHANGED <<a, iconn, aconn, toI, again, got>>

(* FixInitiator::stop().                                                    *)
Logout ==
  /\ iconn # "closed" /\ i.outb < MaxOut
  /\ \E fails \in FailSets : ICall(initiate_logout(Call(i, fails)), fails)
  /\ UNCHANGED <<a, iconn, aconn, toI, again, got>>

(* Any time may have passed since a session last sent and last received,    *)
(* also on a connection that stands: the peer's heartbeats may fail or come *)
(* late.                                                                    *)
Ages(s) == {0, 2 * s.interval} \X {0, 3 * s.interval, 4 * s.interval}

Later(s, ages) == [s EXCEPT !.sentAge = ages[1], !.recvAge = ages[2]]

Now(s) == [s EXCEPT !.sentAge = 0, !.recvAge = 0]

ITick ==
  /\ iconn # "closed" /\ i.state # "Reconnecting" /\ i.outb < MaxOut
  /\ \E fails \in FailSets, ages \in Ages(i) :
       ICall(Now(on_timer_tick(Call(Later(i, ages), fails))), fails)
  /\ UNCHANGED <<a, iconn, aconn, toI, again, got>>

ATick ==
  /\ aconn # "closed" /\ a.outb < MaxOut
  /\ \E fails \in FailSets, ages \in Ages(a) :
       ACall(Now(on_timer_tick(Call(Later(a, ages), fails))), fails)
  /\ UNCHANGED <<i, iconn, aconn, toA, waiting, again, sent>>

Next ==
  \/ Connect \/ Accept \/ Break \/ INotice \/ ANotice \/ IReceive \/ AReceive
  \/ \E b \in Bodies : SendApp(b)
  \/ Logout \/ ITick \/ ATick

Spec == Init /\ [][Next]_vars

(* Both engines keep polling, and keepalive probes end a dead connection.   *)
FairSpec ==
  /\ Spec
  /\ WF_vars(Accept) /\ WF_vars(ANotice) /\ WF_vars(IReceive) /\ WF_vars(AReceive)

-----------------------------------------------------------------------------
Numbered(ms, from, to) ==
  /\ Len(ms) = to - from
  /\ \A n \in 1 .. Len(ms) : ms[n].seq = from + n - 1 /\ ~ms[n].dup

(* While a connection stands, the messages on the way to each end carry     *)
(* exactly the numbers between the one it expects and the one its peer will *)
(* use next: nothing is missing, doubled or out of order, although sends    *)
(* fail and Logons reset the numbers.                                       *)
WireInSequence ==
  /\ iconn = "linked" => /\ Numbered(toA, a.inb, i.outb)
                         /\ Numbered(toI, i.inb, a.outb)
  /\ iconn = "pending" => Numbered(waiting, INITIAL_SEQ_NUM, i.outb)

(* Of the application messages the initiator sent on this connection, the   *)
(* acceptor has handed on those before the number it expects, each once and *)
(* in the order of their numbers; the others are on the way.                *)
AppsArrive ==
  iconn = "linked" =>
    /\ \A n, k \in 1 .. Len(got) : n < k => got[n].seq < got[k].seq
    /\ {got[n] : n \in 1 .. Len(got)} = {m \in sent : m.seq < a.inb}
    /\ Apps(toA) = {m \in sent : m.seq >= a.inb}

(* An active initiator has a peer whose session, between two calls on it,   *)
(* has taken its Logon: no message but the answer makes it active.  The     *)
(* peer's session is active, or was and has ended since: by a Logout, by a  *)
(* message it refused, or in Error because it heard nothing for too long,   *)
(* which leaves the connection open and is not told to the initiator.       *)
ActiveHasPeer ==
  (iconn = "linked" /\ i.state = "Active")
    => a.state \in {"Active", "LogoutReceived", "Disconnected", "Error"}

(* A Logon or a Logout that went out is answered, unless the connection     *)
(* dies or a send fails.                                                    *)
Waits == i.state \in {"LogonSent", "LogoutPending"}

HandshakesEnd == (Waits /\ ~failed) ~> (~Waits \/ iconn \in {"dead", "closed"} \/ failed)

(* An initiator that has connected again after a lost connection is logged  *)
(* on once its Logon has been received and answered.                        *)
ReconnectLogsOn ==
  ~(again /\ iconn = "linked" /\ i.state = "LogonSent" /\ ~failed /\ toA = <<>> /\ toI = <<>>)
=============================================================================
