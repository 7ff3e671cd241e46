---- MODULE FixText ----
(***************************************************************************)
(* The texts that FIX fields carry, abstracted to what the codec tells     *)
(* apart: a literal text s, or (s = "#") the decimal numeral of n / 10^p,  *)
(* written with p digits behind the point.  The conversions between texts  *)
(* and the engine's integers, prices and quantities are those of           *)
(* field_types.hpp, field_view.hpp and MessageAssembler.                   *)
(***************************************************************************)
EXTENDS Integers, Sequences

Text(s) == [s |-> s, n |-> 0, p |-> 0]
Decimal(n, p) == [s |-> "#", n |-> n, p |-> p]
Num(n) == Decimal(n, 0)

Empty == Text("")
Nul == Text("NUL")                  \* one byte, '\0'
NoInt == Text("nullopt")

Abs(n) == IF n < 0 THEN -n ELSE n

\* Decimal digits of a natural number of at most eight digits.
Digits(n) == CHOOSE d \in 1..9 : n < 10^d /\ (d = 1 \/ n >= 10^(d - 1))

\* The literal texts in use, each with its number of bytes.
Bytes(s) == CASE s = "" -> 0
              [] s \in {"FIX.4.2", "FIX.4.3", "FIX.4.4"} -> 7
              [] s = "FIXT.1.1" -> 8
              [] s = "AE" -> 2
              [] OTHER -> 1

\* The number of bytes of a text.
Width(v) == IF v.s # "#" THEN Bytes(v.s)
            ELSE LET whole == Abs(v.n) \div 10^v.p
                 IN (IF v.n < 0 THEN 1 ELSE 0) + Digits(whole) + (IF v.p > 0 THEN v.p + 1 ELSE 0)

\* Additive over the fields of a message, like the sum of their bytes.
Letters == <<"", "NUL", "0", "1", "2", "3", "4", "7", "9", "A", "B", "N", "Y", "AE", "FIX.4.2", "FIX.4.3", "FIX.4.4", "FIXT.1.1">>
LetterSum == [s \in {Letters[i] : i \in DOMAIN Letters} |-> CHOOSE i \in DOMAIN Letters : Letters[i] = s]
ByteSum(v) == IF v.s = "#" THEN 48 + v.n + v.p ELSE IF v.s \in DOMAIN LetterSum THEN LetterSum[v.s] ELSE 77

-----------------------------------------------------------------------------
PricePlaces == 8
QtyPlaces == 4

\* FixedPrice::from_string and Qty::from_string: digits beyond the last place are dropped.
from_string(v, places) ==
    LET m == Abs(v.n)
        raw == IF v.p <= places THEN m * 10^(places - v.p) ELSE m \div 10^(v.p - places)
    IN IF v.s # "#" THEN 0 ELSE IF v.n < 0 THEN -raw ELSE raw

\* MessageAssembler::field(tag, FixedPrice): no trailing zeros behind the point.
price_text(raw) ==
    LET Exact(p) == Abs(raw) % 10^(PricePlaces - p) = 0
        p == CHOOSE k \in 0..PricePlaces : Exact(k) /\ \A j \in 0..(k - 1) : ~Exact(j)
        m == Abs(raw) \div 10^(PricePlaces - p)
    IN Decimal(IF raw < 0 THEN -m ELSE m, p)

\* Qty::whole
whole(raw) == IF raw < 0 THEN -(Abs(raw) \div 10^QtyPlaces) ELSE raw \div 10^QtyPlaces

\* FieldView's readings of a text.  The first character only, of a numeral its sign or first digit.
DigitText == <<"0", "1", "2", "3", "4", "5", "6", "7", "8", "9">>
as_char(v) ==
    LET whole_part == Abs(v.n) \div 10^v.p
    IN CASE v.s = "" -> Nul
         [] v.s \in {"FIX.4.2", "FIX.4.3", "FIX.4.4", "FIXT.1.1"} -> Text("F")
         [] v.s = "AE" -> Text("A")
         [] v.s = "#" -> Text(IF v.n < 0 THEN "-" ELSE DigitText[1 + whole_part \div 10^(Digits(whole_part) - 1)])
         [] OTHER -> v
as_bool(v) == as_char(v) = Text("Y")
as_int(v) == IF v.s = "#" /\ v.p = 0 THEN v ELSE NoInt
as_uint(v) == IF v.s = "#" /\ v.p = 0 /\ v.n >= 0 THEN v ELSE NoInt
as_price(v) == from_string(v, PricePlaces)
as_qty(v) == from_string(v, QtyPlaces)
====
