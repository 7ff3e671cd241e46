---------------------------- MODULE MCComponents ----------------------------
(***************************************************************************)
(* The library components that share no state with the session, side by    *)
(* side: in a behaviour only the component "which" names takes steps, so   *)
(* the state spaces add up instead of multiplying.  Seqlock is extended,   *)
(* the others are instances.                                               *)
(***************************************************************************)
EXTENDS Seqlock, Sequences

CONSTANTS Handles, Buffers, Threads, Ptrs

VARIABLES which

\* ObjectPool, MessagePool, ThreadLocalPool
VARIABLES free_list_, available_, constructed, ptr_, raw, growing,
          pools, pooled, asked,
          free_stack_, stats_, tptr_, lost

\* GapTracker, RingBuffer, StructuralIndex
VARIABLES gaps_, truncated_, missing, tracked,
          buffer_, head_, tail_, arriving, queue,
          data

\* BatchSubmitter
VARIABLES sqes, sqhead, sqtail, count_, total_submitted_, total_flushes_, iovecs_, last_sqe_,
          chain, accepted, wire, disturbed, refilled, cleared

\* Timestamps, SbeCodec
VARIABLES generator, text, cached_second_, last_ns_, instant,
          buffer, codec, cut_off, given, cut, calls

OP == INSTANCE ObjectPool WITH Capacity <- 3, ChunkSize <- 2, MaxChunks <- 2

MP == INSTANCE MessagePool WITH BlockSize <- <<2, 4, 6>>, NumBlocks <- <<2, 1, 1>>,
                                Requests <- {1, 2, 3, 6, 7}, buffer_ <- pooled

TP == INSTANCE ThreadLocalPool WITH Capacity <- 2, MaxAcquires <- 3, ptr_ <- tptr_

GT == INSTANCE GapTracker WITH MAX_GAPS <- 3, MaxNum <- 5, accepted <- tracked

RB == INSTANCE RingBuffer WITH Size <- 4, Width <- 8, Bytes <- 5

\* Fields of one to three digits and stray delimiters, against registers of two
\* and four bytes, arrays of five places and positions up to six.
SI == INSTANCE StructuralIndex WITH MAX_SOH_POSITIONS <- 5, MAX_FIELDS <- 5,
                                    AVX2_REGISTER_SIZE <- 2, AVX512_REGISTER_SIZE <- 4, POSITIONS <- 7,
                                    HEAD_TAGS <- 3, TAIL_TAGS <- 2, INT_MAX <- 109,
                                    Pieces <- {<<"|">>, <<"=">>, <<"1", "0">>, <<"9">>}, MaxLen <- 8

BS == INSTANCE BatchSubmitter WITH Entries <- 2, MaxBatchSize <- 2, MAX_IOVECS <- 2, MaxOps <- 4

\* Days about the ends of February and of the year, in years with and without
\* a leap day by each of the three rules.
TS == INSTANCE Timestamps WITH Years <- {1970, 2000, 2024, 2100}, Months <- {2, 3, 12},
                               Days <- {1, 28, 29, 31}, Seconds <- {59, 86399}, Millis <- {7, 999},
                               buffer_ <- text, asked <- instant

\* Strings that are empty, hold a space, end in one once cut to eight, and are
\* longer than every field; 300 and -1.
SB == INSTANCE SbeCodec WITH Strings <- {<<>>, <<65, 32, 66>>, <<65, 65, 65, 65, 65, 65, 65, 32, 66>>,
                                         [i \in 1 .. 21 |-> 66]},
                             Chars <- {49, 50},
                             Int64s <- {<<44, 1, 0, 0, 0, 0, 0, 0>>, [i \in 1 .. 8 |-> 255]},
                             MaxCalls <- 4, truncated_ <- cut_off

Components == {"seqlock", "object_pool", "message_pool", "thread_local_pool", "gap_tracker",
               "ring_buffer", "structural_index", "batch_submitter",
               "timestamps", "sbe"}

MCInit == /\ which \in Components
          /\ Init /\ OP!Init /\ MP!Init /\ TP!Init /\ GT!Init /\ RB!Init /\ SI!Init /\ BS!Init
          /\ TS!Init /\ SB!Init
          /\ which # "timestamps" => generator = "FastTimestamp"

opVars == <<free_list_, available_, constructed, ptr_, raw, growing>>

mpVars == <<pools, pooled, asked>>

tpVars == <<free_stack_, stats_, tptr_, lost>>

gtVars == <<gaps_, truncated_, missing, tracked>>

rbVars == <<buffer_, head_, tail_, arriving, queue>>

bsVars == <<sqes, sqhead, sqtail, count_, total_submitted_, total_flushes_, iovecs_, last_sqe_,
            chain, accepted, wire, disturbed, refilled, cleared>>

tsVars == <<generator, text, cached_second_, last_ns_, instant>>

sbVars == <<buffer, codec, cut_off, given, cut, calls>>

mcVars == <<which, vars, opVars, mpVars, tpVars, gtVars, rbVars, data, bsVars, tsVars, sbVars>>

\* The other components stand still.
Only(c) ==
    /\ which = c /\ UNCHANGED which
    /\ IF c = "seqlock" THEN TRUE ELSE UNCHANGED vars
    /\ IF c = "object_pool" THEN TRUE ELSE UNCHANGED opVars
    /\ IF c = "message_pool" THEN TRUE ELSE UNCHANGED mpVars
    /\ IF c = "thread_local_pool" THEN TRUE ELSE UNCHANGED tpVars
    /\ IF c = "gap_tracker" THEN TRUE ELSE UNCHANGED gtVars
    /\ IF c = "ring_buffer" THEN TRUE ELSE UNCHANGED rbVars
    /\ IF c = "structural_index" THEN TRUE ELSE UNCHANGED data
    /\ IF c = "batch_submitter" THEN TRUE ELSE UNCHANGED bsVars
    /\ IF c = "timestamps" THEN TRUE ELSE UNCHANGED tsVars
    /\ IF c = "sbe" THEN TRUE ELSE UNCHANGED sbVars

MCNext == \/ Only("seqlock") /\ Next
          \/ Only("object_pool") /\ OP!Next
          \/ Only("message_pool") /\ MP!Next
          \/ Only("thread_local_pool") /\ TP!Next
          \/ Only("gap_tracker") /\ GT!Next
          \/ Only("ring_buffer") /\ RB!Next
          \/ Only("structural_index") /\ SI!Next
          \/ Only("batch_submitter") /\ BS!Next
          \/ Only("timestamps") /\ TS!Next
          \/ Only("sbe") /\ SB!Next

MCSpec == MCInit /\ [][MCNext]_mcVars

\* Every slot, block and object of ObjectPool, GrowingObjectPool, MessagePool
\* and ThreadLocalPool is free once or held by one owner, and the counters
\* agree (memory/object_pool.hpp, memory/buffer_pool.hpp,
\* util/thread_local_pool.hpp).
PoolsExact == /\ which = "object_pool" => OP!SlotsExact
              /\ which = "message_pool" => MP!BlocksExact
              /\ which = "thread_local_pool" => TP!ObjectsExact

\* The tracker holds exactly the numbers missing, but for ranges it said it
\* dropped (session/sequence.hpp, GapTracker).
GapsTracked == which = "gap_tracker" => GT!GapsTracked

\* Bytes leave the ring buffer in the order they came, none lost or repeated,
\* across the wrap of its counters (transport/socket.hpp, RingBuffer).
RingInOrder == which = "ring_buffer" => RB!RingInOrder

\* The vector scanners and checksums return what the byte loops return and
\* load no byte outside the span (parser/simd_scanner.hpp, simd_checksum.hpp,
\* structural_index.hpp).
VectorEqualsScalar == which = "structural_index" => SI!VectorEqualsScalar

\* A field the structural index gives a tag to is the field the text has
\* there (parser/structural_index.hpp).
IndexNeverMisreads == which = "structural_index" => SI!IndexNeverMisreads

\* The kernel gets each accepted operation once, in order, linked as chained
\* (transport/batch_submitter.hpp).
BatchesExact == which = "batch_submitter" => BS!BatchesExact

\* A timestamp reads as the instant it was written for, and a binary message
\* as the values it was given (util/fast_timestamp.hpp,
\* util/rdtsc_timestamp.hpp, parser/timestamp_parser.hpp, sbe/).
EncodingsExact == /\ which = "timestamps" => TS!TimesExact
                  /\ which = "sbe" => SB!SbeExact
=============================================================================
