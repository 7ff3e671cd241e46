----------------------------- MODULE VectorScan -----------------------------
(***************************************************************************)
(* The delimiter scanners of parser/simd_scanner.hpp and the checksums of  *)
(* parser/simd_checksum.hpp.  Each comes as a byte loop and as a vector    *)
(* loop that handles w bytes at a time and leaves the rest to a byte loop; *)
(* the xsimd templates and the intrinsics differ only in w.                *)
(*                                                                         *)
(* Positions count from 0.                                                 *)
(***************************************************************************)
EXTENDS Integers, SequencesExt, FiniteSetsExt

CONSTANTS MAX_SOH_POSITIONS,    \* capacity of SohPositions
          AVX2_REGISTER_SIZE,   \* bytes of one AVX2 load
          AVX512_REGISTER_SIZE, \* bytes of one AVX-512 load
          POSITIONS             \* 2^16: the values of a stored position

SOH == "|"

EQUALS == "="

\* The positions of c among from .. upto - 1, in order.
PositionsIn(data, c, from, upto) ==
    SelectSeq([j \in 1 .. (upto - from) |-> from + j - 1],
              LAMBDA i : i < Len(data) /\ data[i + 1] = c)

\* size & ~(w - 1)
WholeChunks(data, w) == Len(data) - (Len(data) % w)

(***************************************************************************)
(* scan_soh: all SOH positions, at most MAX_SOH_POSITIONS of them.         *)
(***************************************************************************)
Take(s, n) == SubSeq(s, 1, IF n < Len(s) THEN n ELSE Len(s))

\* Positions are kept as uint16_t.
Stored(ps) == [k \in DOMAIN ps |-> ps[k] % POSITIONS]

EmptyPositions == [ps |-> <<>>, truncated |-> FALSE]

\* SohPositions::push for each position of ps
push(r, ps) ==
    [ps        |-> Take(r.ps \o ps, MAX_SOH_POSITIONS),
     truncated |-> r.truncated \/ Len(r.ps) + Len(ps) > MAX_SOH_POSITIONS]

check_truncation(r, data) ==
    [r EXCEPT !.truncated =
        \/ @
        \/ /\ Len(r.ps) >= MAX_SOH_POSITIONS
           /\ PositionsIn(data, SOH, r.ps[MAX_SOH_POSITIONS] + 1, Len(data)) # <<>>]

\* The byte loop from position i on: it stops when the result is full.
ByteLoop(data, c, i, ps, cap) == ps \o Take(PositionsIn(data, c, i, Len(data)), cap - Len(ps))

scan_soh_scalar(data) ==
    check_truncation([ps |-> Stored(ByteLoop(data, SOH, 0, <<>>, MAX_SOH_POSITIONS)), truncated |-> FALSE], data)

\* The vector loop goes on while a whole chunk of hits still fits.
RoomForChunk(count, w) == count < MAX_SOH_POSITIONS - w

\* A loop that forgets the chunks it did not reach.
ResumeAt_end(k, data, w) == WholeChunks(data, w)

\* The vector loop resumes its byte loop where it stopped, not at the last
\* whole chunk.
ResumeAt(k, data, w) == k * w

scan_soh_vector(data, w) ==
    LET n == WholeChunks(data, w) \div w
        after[k \in 0 .. n] == IF k = 0 THEN EmptyPositions
                               ELSE push(after[k - 1], PositionsIn(data, SOH, (k - 1) * w, k * w))
        stop == Min({k \in 0 .. n : k = n \/ ~RoomForChunk(Len(after[k].ps), w)})
        ps   == ByteLoop(data, SOH, ResumeAt(stop, data, w), after[stop].ps, MAX_SOH_POSITIONS)
    IN  check_truncation([ps |-> Stored(ps), truncated |-> after[stop].truncated], data)

scan_soh_avx2(data) == scan_soh_vector(data, AVX2_REGISTER_SIZE)

scan_soh_avx512(data) == scan_soh_vector(data, AVX512_REGISTER_SIZE)

\* The unified entry: the wider loop from twice its register on.
scan_soh(data) ==
    IF Len(data) >= 2 * AVX512_REGISTER_SIZE THEN scan_soh_avx512(data)
    ELSE IF Len(data) >= 2 * AVX2_REGISTER_SIZE THEN scan_soh_avx2(data)
    ELSE scan_soh_scalar(data)

(***************************************************************************)
(* find_soh, find_equals: the first c at or after start, else the size.    *)
(***************************************************************************)
HeadOr(s, default) == IF s = <<>> THEN default ELSE Head(s)

find_soh_scalar(data, start) == HeadOr(PositionsIn(data, SOH, start, Len(data)), Len(data))

find_equals_scalar(data, start) == HeadOr(PositionsIn(data, EQUALS, start, Len(data)), Len(data))

\* Where the byte prologue leaves i: the next address that is a multiple of w.
Aligned(data, base, start, w) ==
    Min({i \in start .. Len(data) : i = Len(data) \/ (base + i) % w = 0})

\* The bound before it was corrected: size & ~(width - 1), whatever i is.
ChunksFrom_rounded(data, i, w) ==
    IF i < WholeChunks(data, w) THEN (WholeChunks(data, w) - i + w - 1) \div w ELSE 0

\* while (i + width <= size): the whole chunks from i on.
ChunksFrom(data, i, w) == (Len(data) - i) \div w

\* Where the vector loop leaves i: it has loaded every byte before.
LoadedUpTo(data, base, start, w) ==
    LET i == Aligned(data, base, start, w) IN i + ChunksFrom(data, i, w) * w

find_vector(data, c, base, start, w) ==
    LET i     == Aligned(data, base, start, w)
        after == LoadedUpTo(data, base, start, w)
    IN  IF start >= Len(data) THEN Len(data)
        ELSE HeadOr(PositionsIn(data, c, start, i) \o PositionsIn(data, c, i, after)
                        \o PositionsIn(data, c, after, Len(data)), Len(data))

find_soh_avx2(data, base, start) == find_vector(data, SOH, base, start, AVX2_REGISTER_SIZE)

find_soh_avx512(data, base, start) == find_vector(data, SOH, base, start, AVX512_REGISTER_SIZE)

find_equals_avx2(data, base, start) == find_vector(data, EQUALS, base, start, AVX2_REGISTER_SIZE)

find_equals_avx512(data, base, start) == find_vector(data, EQUALS, base, start, AVX512_REGISTER_SIZE)

find_soh(data, base, start) ==
    IF Len(data) - start >= 2 * AVX512_REGISTER_SIZE THEN find_soh_avx512(data, base, start)
    ELSE IF Len(data) - start >= 2 * AVX2_REGISTER_SIZE THEN find_soh_avx2(data, base, start)
    ELSE find_soh_scalar(data, start)

find_equals(data, base, start) ==
    IF Len(data) - start >= 2 * AVX512_REGISTER_SIZE THEN find_equals_avx512(data, base, start)
    ELSE IF Len(data) - start >= 2 * AVX2_REGISTER_SIZE THEN find_equals_avx2(data, base, start)
    ELSE find_equals_scalar(data, start)

(***************************************************************************)
(* count_soh: the population count of each chunk's mask, then the tail.    *)
(***************************************************************************)
count_soh_vector(data, w) ==
    LET masks == [k \in 0 .. (WholeChunks(data, w) \div w - 1) |->
                      Len(PositionsIn(data, SOH, k * w, (k + 1) * w))]
    IN  SumFunction(masks) + Len(PositionsIn(data, SOH, WholeChunks(data, w), Len(data)))

count_soh_avx2(data) == count_soh_vector(data, AVX2_REGISTER_SIZE)

count_soh_avx512(data) == count_soh_vector(data, AVX512_REGISTER_SIZE)

count_soh(data) ==
    IF Len(data) >= 2 * AVX512_REGISTER_SIZE THEN count_soh_avx512(data)
    ELSE IF Len(data) >= 2 * AVX2_REGISTER_SIZE THEN count_soh_avx2(data)
    ELSE Len(PositionsIn(data, SOH, 0, Len(data)))

(***************************************************************************)
(* Checksums: the sum of the bytes modulo 256.                             *)
(***************************************************************************)
ByteValue(c) == CASE c = SOH -> 1 [] c = EQUALS -> 61 [] c = "0" -> 48 [] c = "1" -> 49 [] c = "9" -> 57

SumBytes(data, from, upto) == SumFunction([i \in from .. (upto - 1) |-> ByteValue(data[i + 1])])

checksum_scalar(data) == SumBytes(data, 0, Len(data)) % 2^8

\* One uint8 accumulator per lane, reduced modulo 256, then the tail.
checksum_xsimd(data, w) ==
    LET lanes == [j \in 0 .. (w - 1) |->
                     SumFunction([k \in 0 .. (WholeChunks(data, w) \div w - 1) |->
                                      ByteValue(data[k * w + j + 1])]) % 2^8]
    IN  ((SumFunction(lanes) % 2^8) + SumBytes(data, WholeChunks(data, w), Len(data))) % 2^8

\* The intrinsics: sums of absolute differences, added in 64-bit lanes.
checksum_sad(data, w) ==
    (SumFunction([k \in 0 .. (WholeChunks(data, w) \div w - 1) |-> SumBytes(data, k * w, (k + 1) * w)])
        + SumBytes(data, WholeChunks(data, w), Len(data))) % 2^8

checksum_avx2(data) == checksum_sad(data, AVX2_REGISTER_SIZE)

checksum_avx512(data) == checksum_sad(data, AVX512_REGISTER_SIZE)

\* IncrementalChecksum over the two parts of the data cut at position i.
IncrementalChecksum(data, i) ==
    (checksum_avx512(SubSeq(data, 1, i)) + checksum_avx512(SubSeq(data, i + 1, Len(data)))) % 2^8
=============================================================================
