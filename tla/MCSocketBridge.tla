---------------------------- MODULE MCSocketBridge ----------------------------
(***************************************************************************)
(* Instances of SocketBridge for TLC.                                      *)
(***************************************************************************)
EXTENDS SocketBridge

(* A message with the given body and BodyLength.                            *)
Frame(declared, body) ==
  [tokens |-> <<Begin, Length(declared)>> \o body \o <<Trailer, End>>,
   sound  |-> declared = Len(body)]

Texts(n) == [k \in 1 .. n |-> Text]

(* Messages of up to half the buffer, and two whose BodyLength is too large *)
(* or too small.                                                            *)
Plain == {Frame(0, <<>>), Frame(1, Texts(1)), Frame(2, Texts(2)),
          Frame(99, Texts(1)), Frame(0, Texts(2))}

(* A message with the text of a trailer inside its body.                    *)
Embedded == {Frame(2, <<Trailer, End>>)}

PlainLists == {<<f, g, h, Frame(2, Texts(2))>> : f, g, h \in Plain}
EmbeddedLists == {<<f>> : f \in Embedded}
=============================================================================
