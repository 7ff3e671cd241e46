----------------------------- MODULE GapTracker -----------------------------
(***************************************************************************)
(* session/sequence.hpp, GapTracker: the ranges of numbers still missing,  *)
(* at most MAX_GAPS of them.  While a gap is open the expectation does not *)
(* move, so the gap found by the next message overlaps the first, and fill *)
(* has to shrink, split or remove every range that holds the number.       *)
(***************************************************************************)
EXTENDS Integers, Sequences

CONSTANTS MAX_GAPS, MaxNum

VARIABLES gaps_,        \* the first count_ ranges
          truncated_,
          missing,      \* numbers reported missing and not filled (history)
          accepted      \* those of them add_gap took (history)

vars == <<gaps_, truncated_, missing, accepted>>

Nums == 1 .. MaxNum

Init == gaps_ = <<>> /\ truncated_ = FALSE /\ missing = {} /\ accepted = {}

add_gap(begin, end) ==
    /\ \/ /\ Len(gaps_) >= MAX_GAPS
          /\ truncated_' = TRUE
          /\ UNCHANGED <<gaps_, accepted>>
       \/ /\ Len(gaps_) < MAX_GAPS
          /\ gaps_' = Append(gaps_, [begin |-> begin, end |-> end])
          /\ accepted' = accepted \cup (begin .. end)
          /\ UNCHANGED truncated_
    /\ missing' = missing \cup (begin .. end)

\* The last range takes the place of the one removed.
remove_gap(gs, i) == SubSeq([gs EXCEPT ![i] = gs[Len(gs)]], 1, Len(gs) - 1)

\* A loop that goes on to the next place after a removal.
After_removal_next(i) == i + 1

\* The range moved into the place is looked at next.
After_removal(i) == i

RECURSIVE fill_from(_, _, _, _)
fill_from(gs, cut, i, n) ==
    IF i > Len(gs) THEN [gaps |-> gs, truncated |-> cut]
    ELSE LET g == gs[i] IN
         IF n < g.begin \/ n > g.end THEN fill_from(gs, cut, i + 1, n)
         ELSE IF n = g.begin /\ n = g.end THEN fill_from(remove_gap(gs, i), cut, After_removal(i), n)
         ELSE IF n = g.begin THEN fill_from([gs EXCEPT ![i].begin = @ + 1], cut, i + 1, n)
         ELSE IF n = g.end THEN fill_from([gs EXCEPT ![i].end = @ - 1], cut, i + 1, n)
         ELSE IF Len(gs) < MAX_GAPS
              THEN fill_from(Append([gs EXCEPT ![i].end = n - 1], [begin |-> n + 1, end |-> g.end]),
                             cut, i + 1, n)
         ELSE fill_from(gs, TRUE, i + 1, n)

fill(n) ==
    /\ gaps_' = fill_from(gaps_, truncated_, 1, n).gaps
    /\ truncated_' = fill_from(gaps_, truncated_, 1, n).truncated
    /\ missing' = missing \ {n} /\ accepted' = accepted \ {n}

clear == gaps_' = <<>> /\ truncated_' = FALSE /\ missing' = {} /\ accepted' = {}

Next == \/ clear
        \/ \E n \in Nums : fill(n)
        \/ \E begin, end \in Nums : begin <= end /\ add_gap(begin, end)

Spec == Init /\ [][Next]_vars

Tracked == UNION {gaps_[i].begin .. gaps_[i].end : i \in DOMAIN gaps_}

\* The ranges hold exactly the missing numbers, overlaps and splits
\* included; once the array overflowed, which truncated() then reports, they
\* still hold every missing number that add_gap took (add_gap, fill).
GapsTracked ==
    /\ Len(gaps_) <= MAX_GAPS
    /\ \A i \in DOMAIN gaps_ : gaps_[i].begin <= gaps_[i].end
    /\ accepted \subseteq Tracked
    /\ ~truncated_ => Tracked = missing
=============================================================================
