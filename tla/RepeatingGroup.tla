---- MODULE RepeatingGroup ----
(***************************************************************************)
(* RepeatingGroupIterator (parser/repeating_group.hpp) over the fields of  *)
(* a message: the entries that next() returns for a declared count, and    *)
(* the comparison of that count with the delimiters that are really there. *)
(***************************************************************************)
EXTENDS FixParser

\* The positions of the delimiter tag, in order (find_tag_position).
DelimitersOf(fs, d) == SelectSeq([i \in DOMAIN fs |-> i], LAMBDA i : fs[i].tag = d)

count_mismatch(fs, d, count) == Len(DelimitersOf(fs, d)) # count

\* A slip: every entry ends at the next delimiter, so the last one swallows the trailer.
find_next_entry_start_open(fs, d, from, last) ==
    LET ends == {i \in (from + 1)..Len(fs) : fs[i].tag = d} IN IF ends = {} THEN Len(fs) + 1 ELSE Min(ends)

\* Where an entry ends: the last one at the trailer, another one at the next delimiter.
find_next_entry_start(fs, d, from, last) ==
    LET ends == {i \in (from + 1)..Len(fs) : fs[i].tag = IF last THEN 10 ELSE d}
    IN IF ends = {} THEN Len(fs) + 1 ELSE Min(ends)

\* The entries of count calls of next(); one that has no delimiter is empty.
EntriesOf(fs, d, count) ==
    LET at == DelimitersOf(fs, d)
        From(k) == SubSeq(fs, at[k], find_next_entry_start(fs, d, at[k], k = count) - 1)
    IN [k \in 1..count |-> IF k <= Len(at) THEN From(k) ELSE <<>>]

\* parse_md_entry: the first field with each tag; what is absent keeps MDEntry's default.
Or(v, default) == IF as_char(v) = Nul THEN default ELSE as_char(v)
OrZero(v) == IF as_int(v) = NoInt THEN Num(0) ELSE v
parse_md_entry(e) ==
    [entry_type |-> Or(First(e, 269), Text("0")), price_raw |-> as_price(First(e, 270)),
     size_raw |-> as_qty(First(e, 271)), update_action |-> Or(First(e, 279), Text("0")),
     symbol |-> First(e, 55), entry_id |-> First(e, 278), entry_date |-> First(e, 272),
     entry_time |-> First(e, 273), position_no |-> OrZero(First(e, 290)), number_of_orders |-> OrZero(First(e, 346))]

parse_related_symbol(e) ==
    [symbol |-> First(e, 55), security_id |-> First(e, 48), security_exchange |-> First(e, 207)]
====
