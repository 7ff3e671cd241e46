-------------------------- MODULE StructuralIndex ---------------------------
(***************************************************************************)
(* The two-stage index of parser/structural_index.hpp: stage one records   *)
(* the positions of every SOH and every '=', stage two reads tag and value *)
(* of a field from the k-th SOH and the k-th '='.  The two arrays fill     *)
(* independently, so a value that holds '=' shifts one against the other.  *)
(***************************************************************************)
EXTENDS VectorScan

CONSTANTS MAX_FIELDS,   \* capacity of both arrays
          HEAD_TAGS,    \* the vector builders look for 9= and 35= at the first 10 '='
          TAIL_TAGS,    \* and for 10= at the last 5
          INT_MAX,
          Pieces,       \* the byte strings the input is put together from
          MaxLen        \* bound on the input's length

VARIABLE data   \* the bytes given to the scanners

Digits == {"0", "1", "9"}

DigitValue(c) == ByteValue(c) - 48

IsDigit(i) == i >= 0 /\ data[i + 1] \in Digits

(***************************************************************************)
(* Stage one.                                                              *)
(***************************************************************************)
\* extract_positions: the hits of one mask, up to the array's capacity
extract_positions(ps, hits) == Take(ps \o hits, MAX_FIELDS)

\* The byte loop ends at the SOH that fills the array; a '=' beyond the
\* array's capacity is skipped.
Delimiters(i, soh, eq) ==
    LET all == ByteLoop(data, SOH, i, soh, MAX_FIELDS)
        end == IF Len(all) < MAX_FIELDS THEN Len(data) ELSE all[MAX_FIELDS]
    IN  [soh    |-> all,
         equals |-> eq \o Take(PositionsIn(data, EQUALS, i, end), MAX_FIELDS - Len(eq))]

\* truncated_: a SOH lies beyond the last one recorded.
Truncated(soh) ==
    Len(soh) >= MAX_FIELDS /\ PositionsIn(data, SOH, soh[MAX_FIELDS] + 1, Len(data)) # <<>>

\* The number before the '=' at i, if it has one or two digits in sight.
ShortTag(i) == IF ~IsDigit(i - 1) THEN -1
               ELSE IF IsDigit(i - 2) THEN 10 * DigitValue(data[i - 1]) + DigitValue(data[i])
               ELSE DigitValue(data[i])

LastOr0(S) == IF S = {} THEN 0 ELSE Max(S)

\* The scalar builder looks at every '=', and takes the last of each tag.
ScalarMarks(eq) ==
    LET at(t) == {i \in ToSet(eq) : ShortTag(i) = t}
        nine  == LastOr0(at(9))
    IN  [body_length_start |-> IF at(9) = {} THEN 0
                               ELSE (nine - (IF nine >= 2 /\ data[nine - 1] # SOH THEN 2 ELSE 1)) % POSITIONS,
         checksum_start    |-> IF at(10) = {} THEN 0 ELSE (Max(at(10)) - 2) % POSITIONS,
         msg_type_start    |-> IF at(35) = {} THEN 0 ELSE (Max(at(35)) - 2) % POSITIONS]

\* The vector builders look at the stored positions of the first '=', and of
\* the last for 10=; they take 9 for a tag only if no digit stands before it.
VectorMarks(eq) ==
    LET head  == {i \in ToSet(Take(eq, HEAD_TAGS)) : i >= 2}
        one   == {i \in head : ~IsDigit(i - 2) /\ ShortTag(i) = 9}
        two   == {i \in head : IsDigit(i - 2) /\ ShortTag(i) = 35}
        ten   == {eq[j] : j \in {j \in 1 .. Len(eq) : j > Len(eq) - TAIL_TAGS}}
        tens  == {i \in ten : i >= 2 /\ data[i - 1] = "1" /\ data[i] = "0"}
    IN  [body_length_start |-> IF one = {} THEN 0 ELSE Max(one) - 1,
         checksum_start    |-> IF tens = {} THEN 0 ELSE Max(tens) - 2,
         msg_type_start    |-> IF two = {} THEN 0 ELSE Max(two) - 2]

Index(d, marks) == [soh |-> Stored(d.soh), equals |-> Stored(d.equals),
                    truncated |-> Truncated(Stored(d.soh)), marks |-> marks]

build_index_scalar ==
    LET d == Delimiters(0, <<>>, <<>>) IN Index(d, ScalarMarks(d.equals))

\* A loop that only stops when the array is full.
IndexRoom_full(count, w) == count < MAX_FIELDS

\* The vector loop goes on while a whole chunk of SOHs still fits.
IndexRoom(count, w) == count < MAX_FIELDS - w

build_index_vector(w) ==
    LET n == WholeChunks(data, w) \div w
        hits(c, k) == PositionsIn(data, c, (k - 1) * w, k * w)
        after[k \in 0 .. n] ==
            IF k = 0 THEN [soh |-> <<>>, equals |-> <<>>]
            ELSE [soh    |-> extract_positions(after[k - 1].soh, hits(SOH, k)),
                  equals |-> extract_positions(after[k - 1].equals, hits(EQUALS, k))]
        stop == Min({k \in 0 .. n : k = n \/ ~IndexRoom(Len(after[k].soh), w)})
        d == Delimiters(ResumeAt(stop, data, w), after[stop].soh, after[stop].equals)
    IN  Index(d, VectorMarks(Stored(d.equals)))

build_index_avx2 == build_index_vector(AVX2_REGISTER_SIZE)

build_index_avx512 == build_index_vector(AVX512_REGISTER_SIZE)

SimdImpl == {"Scalar", "AVX2", "AVX512"}

\* build_index: the builder init_simd_dispatch selected for this processor.
build_index(impl) ==
    CASE impl = "Scalar" -> build_index_scalar
      [] impl = "AVX2"   -> build_index_avx2
      [] impl = "AVX512" -> build_index_avx512

(***************************************************************************)
(* Stage two.                                                              *)
(***************************************************************************)
valid(idx) == ~idx.truncated /\ Len(idx.soh) > 0 /\ Len(idx.soh) = Len(idx.equals)

\* Positions that were never recorded read 0; sums are uint16_t again.
field_bounds(idx, k) ==
    LET tag_end == IF k <= Len(idx.equals) THEN idx.equals[k] ELSE 0
    IN  [tag_start   |-> IF k = 1 THEN 0 ELSE (idx.soh[k - 1] + 1) % POSITIONS,
         tag_end     |-> tag_end,
         value_start |-> (tag_end + 1) % POSITIONS,
         value_end   |-> idx.soh[k]]

Bytes(from, upto) == SubSeq(data, from + 1, upto)

Number(s) == FoldLeft(LAMBDA n, c : 10 * n + DigitValue(c), 0, s)

\* An accessor that does not look at what it takes for a tag.
tag_at_unchecked(idx, k) ==
    LET f == field_bounds(idx, k)
    IN  IF f.tag_start >= f.tag_end THEN 0
        ELSE Number(SelectSeq(Bytes(f.tag_start, f.tag_end), LAMBDA c : c \in Digits))

\* 0 unless the bytes before '=' are digits, at least one, of a number that
\* an int can hold.
tag_at(idx, k) ==
    LET f == field_bounds(idx, k)
        s == Bytes(f.tag_start, f.tag_end)
    IN  IF f.tag_start >= f.tag_end \/ ~(ToSet(s) \subseteq Digits) THEN 0
        ELSE IF Number(s) > INT_MAX THEN 0 ELSE Number(s)

value_at(idx, k) ==
    LET f == field_bounds(idx, k)
    IN  IF f.value_start >= f.value_end \/ f.value_end > Len(data) THEN <<>>
        ELSE Bytes(f.value_start, f.value_end)

\* find_tag and IndexedFieldAccessor::get: the value of the first field with
\* this tag.
get(idx, tag) ==
    LET ks == {k \in DOMAIN idx.soh : tag_at(idx, k) = tag}
    IN  IF ks = {} THEN <<>> ELSE value_at(idx, Min(ks))

(***************************************************************************)
(* The inputs: any bytes a peer may send, piece by piece.                  *)
(***************************************************************************)
Init == data = <<>>

Arrive(p) == /\ Len(data) + Len(p) <= MaxLen
             /\ data' = data \o p

Next == \E p \in Pieces : Arrive(p)

Spec == Init /\ [][Next]_data

(***************************************************************************)
(* What the text says, read field by field.                                *)
(***************************************************************************)
FieldText(k) == LET ps == PositionsIn(data, SOH, 0, Len(data))
                IN  Bytes(IF k = 1 THEN 0 ELSE ps[k - 1] + 1, ps[k])

TagText(s) == Take(s, HeadOr(PositionsIn(s, EQUALS, 0, Len(s)), 0))

ValueText(s) == SubSeq(s, Len(TagText(s)) + 2, Len(s))

WellFormed(s) == /\ TagText(s) # <<>> /\ ToSet(TagText(s)) \subseteq Digits
                 /\ Len(PositionsIn(s, EQUALS, 0, Len(s))) = 1

Impls == {AVX2_REGISTER_SIZE, AVX512_REGISTER_SIZE}

\* What an index holds of the delimiters.
Delimited(idx) == [soh |-> idx.soh, equals |-> idx.equals, truncated |-> idx.truncated]

\* Every 9= among the '=' is a field of its own, 9= and 35= are among the first
\* and the last 10= among the last that the vector builders look at.
PlainMarks(eq) ==
    LET at(t) == {j \in DOMAIN eq : ShortTag(eq[j]) = t}
    IN  /\ \A j \in at(9) \cup at(35) : j <= HEAD_TAGS
        /\ \A j \in at(9) : eq[j] >= 2 /\ data[eq[j] - 1] = SOH
        /\ at(10) # {} => Max(at(10)) > Len(eq) - TAIL_TAGS

\* Whatever the length, the alignment and the number of delimiters, the
\* vector scanners return what the byte loops return, at every capacity, and
\* no vector load reaches past the span (scan_soh, find_soh, find_equals,
\* count_soh and checksum in all their versions).  The versions of build_index
\* record the same delimiters, and the same marks for 9=, 10= and 35= when
\* these stand where the vector builders look for them; otherwise the marks
\* may differ (SameContract).
VectorEqualsScalar ==
    /\ \A w \in Impls :
           /\ scan_soh_vector(data, w) = scan_soh_scalar(data)
           /\ count_soh_vector(data, w) = Len(PositionsIn(data, SOH, 0, Len(data)))
           /\ checksum_xsimd(data, w) = checksum_scalar(data)
           /\ checksum_sad(data, w) = checksum_scalar(data)
           /\ \A base \in 0 .. (w - 1), start \in 0 .. Len(data) :
                  /\ find_vector(data, SOH, base, start, w) = find_soh_scalar(data, start)
                  /\ find_vector(data, EQUALS, base, start, w) = find_equals_scalar(data, start)
                  /\ LoadedUpTo(data, base, start, w) <= Len(data)
    /\ \A start \in 0 .. Len(data) :
           /\ find_soh(data, 0, start) = find_soh_scalar(data, start)
           /\ find_equals(data, 0, start) = find_equals_scalar(data, start)
           /\ IncrementalChecksum(data, start) = checksum_scalar(data)
    /\ scan_soh(data) = scan_soh_scalar(data)
    /\ count_soh(data) = Len(PositionsIn(data, SOH, 0, Len(data)))
    /\ \A impl \in SimdImpl :
           /\ Delimited(build_index(impl)) = Delimited(build_index_scalar)
           /\ Len(data) <= POSITIONS /\ PlainMarks(build_index_scalar.equals) =>
                  build_index(impl) = build_index_scalar

\* The vector builders are variants of the scalar one with the same contract
\* (fuzz/fuzz_structural_index.cpp).  At 109= the scalar builder takes the last
\* two digits for the tag 9 and sets body_length_start, the others do not.
SameContract == \A impl \in SimdImpl : build_index(impl) = build_index_scalar

TagNumber(s) == IF Number(TagText(s)) > INT_MAX THEN 0 ELSE Number(TagText(s))

\* In a span whose positions a uint16_t can hold, a field the accessor gives a
\* tag to has that tag and that value in the text, however '=' and SOH are
\* mixed (tag_at, value_at: the k-th '=' need not belong to the k-th field);
\* and a message of well-formed fields that fits the arrays is called valid,
\* and every tag of it that an int can hold is read.
IndexNeverMisreads ==
    Len(data) <= POSITIONS => \A impl \in SimdImpl :
        LET idx == build_index(impl)
        IN  /\ \A k \in DOMAIN idx.soh :
                  tag_at(idx, k) # 0 => /\ tag_at(idx, k) = Number(TagText(FieldText(k)))
                                        /\ value_at(idx, k) = ValueText(FieldText(k))
            /\ (/\ data # <<>> /\ Last(data) = SOH
                /\ \A k \in 1 .. count_soh(data) : WellFormed(FieldText(k)))
               => /\ valid(idx) <=> count_soh(data) <= MAX_FIELDS
                  /\ \A k \in DOMAIN idx.soh : tag_at(idx, k) = TagNumber(FieldText(k))
=============================================================================
