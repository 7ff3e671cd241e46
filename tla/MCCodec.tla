---- MODULE MCCodec ----
(***************************************************************************)
(* Instances of Codec: the values that setters are called with.            *)
(***************************************************************************)
EXTENDS Codec

MCValues(t) ==
    CASE t \in QtyTags -> {Qty(0), Qty(20000), Qty(110000)}
      [] t \in PriceTags -> {FixedPrice(0), FixedPrice(-25000000), FixedPrice(1)}
      [] t \in IntTags -> {Num(0), Num(11)}
      [] t \in {40, 263} -> {Text("1"), Text("2"), Text("3"), Text("4")}
      [] t \in {21, 54} -> {Text("2"), Nul}
      [] t \in CharTags \ {40, 263, 21, 54} -> {Text("2")}
      [] t \in FlagTags -> {Text("Y"), Text("N")}
      [] t = 8 -> {Text("FIX.4.2"), Empty}
      [] OTHER -> {Empty, Text("B")}

\* Quantities with a fraction, for orders only.
FractionalValues(t) == IF t = 38 THEN {Qty(25000), Qty(5000), Qty(20000)} ELSE {}
====
