# NexusFix in TLA+

NexusFix is a header-only C++ engine for the FIX protocol: sessions over TCP,
a message store, a zero-copy parser, and the lock-free queues and pools a
low-latency client needs. This directory holds its specifications: TLA+ modules
translated from the code, TLC models that check them on small instances, and
proofs checked by TLAPS for every instance.

Paths below are relative to `src/include/nexusfix/`. `PROJECT.json` maps each
definition to the lines it models and lists components, runs, hazards and
theorems.

## The system

| Part | State | Operations | Here |
|---|---|---|---|
| Session state machine, `session/state.hpp` | nine states, thirteen events | `next_state` | `SessionState` |
| Sequence numbers, `session/sequence.hpp` | next outbound, expected inbound | take, roll back, validate, reset | `SequenceManager` |
| Message store, `store/*.hpp` | messages by number, byte counts, pool, two counters | store with eviction, retrieve a range, set counters | `MessageStore` |
| Session manager, `session/session_manager.hpp` | state, numbers, heartbeat timer, store | connect, logon, logout, send, receive, tick; one handler per message type | `SessionManager`, `Session` |
| Engine, `engine/*.hpp` | sockets, one session, reconnection | poll cycle, accept loop, reconnect | `Session`, `FixLink` |
| SPSC queue, `memory/spsc_queue.hpp` | ring, two indices, two cached copies | push, pop | `SPSCQueue` |
| MPSC queue, `memory/mpsc_queue.hpp` | ring of numbered slots, two counters | push by compare-and-swap, pop | `MPSCQueue` |
| Deferred processor, `util/deferred_processor.hpp` | queue, flags, worker thread | submit, reserve and publish, start, stop | `DeferredProcessor` |
| Stream framing, `parser/runtime_parser.hpp`, `parser/simd_scanner.hpp`, `engine/socket_bridge.hpp` | byte buffer, two positions | read, find messages, compact | `StreamParser`, `SocketBridge` |
| Messages, `messages/*/*.hpp`, `types/field_types.hpp` | builder members, the assembler's buffer | set, add, build; `from_buffer` | `FixText`, `MessageAssembler`, `MessageCodec`, `Messages44`, `Messages4x`, `Messages50` |
| Parsers, `parser/*.hpp` | a table of fields | parse, look up, iterate over groups | `FixParser`, `RepeatingGroup`, `Codec` |
| Vector scanners and structural index, `parser/simd_*.hpp`, `parser/structural_index.hpp` | arrays of positions | scan, count, sum, index | `VectorScan`, `StructuralIndex` |
| Sequence lock, `memory/seqlock.hpp` | a value and its version | write, read, try_read, read_if_changed | `Seqlock` |
| Pools, `memory/object_pool.hpp`, `memory/buffer_pool.hpp`, `util/thread_local_pool.hpp` | free lists, handles | allocate, release, move, grow | `ObjectPool`, `MessagePool`, `ThreadLocalPool` |
| Gap tracker, `session/sequence.hpp` | table of 32 gaps | add, fill, clear | `GapTracker` |
| Ring buffer, `transport/socket.hpp` | bytes, two wrapping counters | write, read, spans, commit | `RingBuffer` |
| io_uring, `transport/io_uring_transport.hpp`, `transport/batch_submitter.hpp` | rings, pending operations, registered buffers, batches | connect, send, receive, poll; queue, flush, link | `IoUringTransport`, `BatchSubmitter` |
| Timestamps, `util/*_timestamp.hpp`, `parser/timestamp_parser.hpp` | the last text and its second | get, parse, convert | `Timestamps` |
| Binary codecs, `sbe/*.hpp` | a buffer and a view of it | encode, decode, dispatch | `SbeCodec` |
| TCP and Windows sockets, coroutines, platform, utilities | handles of the operating system | I/O | not modelled |

How the parts interact. `FixInitiator::poll` and `FixAcceptor::run_loop` each
own one socket and drive one `SessionManager` through a `SocketBridge`: bytes
are framed, each message goes to `on_data_received`, and every 100 ms
`on_timer_tick` runs. The session answers through the callback `on_send`, which
may fail, takes its numbers from a `SequenceManager` and writes each message
that went out to an `IMessageStore`. An initiator that loses its connection
reconnects and logs on again; an acceptor builds a new session for each
connection and hands it the same store. The queues and the deferred processor
carry messages between an application's threads; the session does not use them.
An application builds its messages with the `Builder` of a message class, which
writes into a `MessageAssembler`, and reads those it gets with `from_buffer`, which
runs `IndexedParser` over the framed bytes. The remaining parts are a library beside
the session: they share no state with it or with each other.

What is hard about it:

- a send can fail after its number was taken, and the number must be given back,
  also when the counter has just wrapped;
- an initiator can be replaced at any point and the next one lives on what the
  store holds; the acceptor never reads the store's counters back;
- the peer may send anything at any number, in any state of the session;
- timers and messages race, and only the state Active looks at a timer;
- a connection can die with messages on the way while the next one is already in
  the acceptor's backlog;
- the queues decide on copies of the other thread's index that may be stale;
- the deferred processor's worker reads its flags after it looked at the queue;
- the three parsers keep fields in tables of different sizes and differ in which of
  two equal tags they keep; each message class picks its own fields to require,
  default and drop, in the builder and again in the parser;
- a message that does not fit is cut in the middle of a field and still returned;
- the vector loops handle a register at a time and leave a rest to another loop;
- a handle can be moved, assigned over and released on another thread;
- io_uring completes operations in any order, and a connection always has a receive
  under way.

## Modules

A session is a record and the methods of `SessionManager` are operators on it,
named as in the code. A method's record carries the frame of the call: `calls`
counts the uses of `on_send`, `fails` says which of them fail, `tx` collects what
went out, `app` and `cb` the callbacks made. An action of `Session` or `FixLink`
is one call from the engine: it chooses the failures, applies the method, and
empties the frame again with `Return`.

- `SequenceManager`: the counters. `MAX_SEQ_NUM` is the last outbound
  number and `UINT32` the number of values of the inbound counter's type: the
  outbound counter wraps to 1, the inbound one overflows.
- `SessionState`: the transition table; an event without an entry leaves the
  state as it is.
- `MessageStore`: `MemoryMessageStore` as a record of messages by number with
  its limits (`max_messages`, `max_bytes`, the pool that is never freed) and
  `evict_oldest`. A store with `max_messages = 0` is the `NullMessageStore`.
- `SessionManager`: heartbeat timer (ages in half seconds), `transmit`,
  `send_message` with rollback and persistence, and every handler. A message is
  its type, number, flags and the two fields its handler reads. `mark_poss_dup`
  parses a stored message and puts it together again: one with more than
  `MAX_FIELDS` fields is dropped, of MsgType the first character (`CharOf`) is left,
  and what does not fit with the two new fields is cut.
- `Session`: one session and its engine, as initiator or acceptor, with a peer
  that sends any message of `PeerMessages`. Actions: `Connect`,
  `ConnectionLost`, `Restart` (a new object on the old store), `Accept`,
  `EndOfConnection`, `Receive`, `ReceiveBad`, `SendApp`, `Logout`, `Elapsed` and
  `Tick`. Monitors record what went over the wire.
- `FixLink`: both engines over TCP. `iconn` and `aconn` are the connection as
  each end has it, so that one end may have reconnected while the other has not
  noticed the loss; `waiting` is what lies in the backlog. `sent` and `got` are the
  application messages of the present connection. A timer may find any age at any
  time, also on a connection that stands (`Ages`). Messages are read within
  `max_latency`.
- `StreamParser`, `SocketBridge`: from bytes to messages. The stream is a sequence
  of tokens, the pieces of text `find_message_boundary` tells apart; a poll reads
  any number of them that fits and hands over every message it finds.
- `BoundedFifo`: what a queue promises. `SPSCQueue` and `MPSCQueue`: one step
  per access to shared memory. A load of an index written by another thread
  returns any value the index had since the last load.
- `DeferredProcessor`: producer, worker and owner, with the queue as one
  `BoundedFifo` step.
- `FixText`: the texts of fields, as literals and decimal numerals with their
  width, and the conversions between them and integers, prices and quantities.
  `MessageAssembler`: the buffer a message is written to, with what is dropped
  when it is full. `FixParser`: `FieldTable`, the header, BodyLength and checksum
  tests, `ParsedMessage`, `IndexedParser` and its strict form. The members of the
  header are as wide as in the code: one character of MsgType, 32 bits (`WORD`) of
  MsgSeqNum and BodyLength. `RepeatingGroup`: the entries of a group.
- `MessageCodec`: what the message classes share. `Messages44`, `Messages4x` and
  `Messages50`: one `Builder`, `build` and `from_buffer` for each class of FIX 4.4,
  of 4.2 and 4.3, and of 5.0 and FIXT 1.1. `Codec` composes them: an application
  sets members and builds, a peer writes the message its own way (fields repeated,
  moved, left out or added, with a right length and checksum), and the line damages
  it. One state is one message, and the properties say what the parsers make of it.
- `VectorScan`, `StructuralIndex`: each scanner as a byte loop and as a vector loop
  whose register width is a parameter; the input grows piece by piece. Positions are
  kept modulo `POSITIONS`, the 2^16 of `uint16_t`, and a tag above `INT_MAX` is read
  as 0. The index has its marks for `9=`, `10=` and `35=`, which the vector builders
  look for only among the first `HEAD_TAGS` and the last `TAIL_TAGS` '='.
- `Seqlock`: each load and store of the writer and the readers.
- `ObjectPool`, `MessagePool`, `ThreadLocalPool`: pools with the handles that own
  what they gave out. `GapTracker`, `RingBuffer`, `Timestamps`, `SbeCodec`: each
  component's calls in any order, with a history variable that says what it was told.
- `BatchSubmitter`: the four classes of `batch_submitter.hpp` over one ring, with no
  agreement between them about who prepares or submits when. The kernel takes any part
  of the ring or refuses (`Returns`); an iovec list is read when its entry is taken.
  `disturbed`, `refilled` and `cleared` record the chains others came between, the
  lists filled again too early and the operations cleared.
- `IoUringTransport`: the application thread, inside a call or not, and the kernel
  that completes operations in any order.
- `MCSession`, `MCFixLink`, `MCSocketBridge`, `MCCodec`: constants for TLC.
  `MCComponents` puts the library components side by side, of which one takes steps
  in a behaviour. `SessionManagerProofs`, `SessionProofs`,
  `SessionNumbersProofs`, `SPSCQueueProofs`, `MPSCQueueProofs`, `DeferredProcessorProofs`,
  `FixLinkProofs`, `ComponentsProofs`: the proofs.

Definitions marked as mutants are plausible mistakes. None is used by a
specification; each replaces the definition after it to show that some property
notices.

## What is checked

| Run | Configuration | Properties | Result |
|---|---|---|---|
| `session_numbers` | `MCSession_numbers.cfg` | `TypeOK`, `StoreKeysMatch`, `PersistedOutbound`, `NewNumbersConsecutive`, `ActiveMeansLoggedOn`, `ReplaysAreFaithful`, `InboundNeverBack` | hold |
| `session_silence` | `MCSession_silence.cfg` | `AskedBeforeTimeout`, `SilenceIsNoticed` | hold |
| `fix_link` | `MCFixLink.cfg` | `WireInSequence`, `AppsArrive`, `ActiveHasPeer`, `HandshakesEnd` | hold |
| `framing` | `MCSocketBridge.cfg` | `DeliveredOnArrival`, `BufferInOrder`, `RoomToRead` | hold |
| `spsc_queue` | `SPSCQueue.cfg` | `NoSlotRace`, `ImplementsFifo`, `EveryItemTaken` | hold |
| `mpsc_queue` | `MPSCQueue.cfg` | `NoSlotRace`, `ImplementsFifo`, `EveryItemTaken` | hold |
| `deferred_processor` | `DeferredProcessor.cfg` | `Conserved`, `OneWorker`, `EveryMessageProcessed`, `StopReturns` | hold |
| `codec` | `MCCodec.cfg` | `RoundTrip`, `TruncatedNeverAccepted`, `ParsersAgree`, `StrictParser`, `DamagedNeverAccepted`, `GroupsExact` | hold |
| `components` | `MCComponents.cfg` | `CopiesAreWhole`, `PoolsExact`, `GapsTracked`, `RingInOrder`, `VectorEqualsScalar`, `IndexNeverMisreads`, `BatchesExact`, `EncodingsExact` | hold |
| `reconnect_logon` | `MCFixLink_reconnect.cfg` | `ReconnectLogsOn` | violated |
| `fractional_qty` | `MCCodec_fractional.cfg` | `QuantityArrives` | violated |
| `uring_send` | `IoUringTransport.cfg` | `SendBlocks` | violated |

More disagreements have no configuration of their own in the list. TLC shows each
when its property is added to a configuration:

| Property | Added to |
|---|---|
| `LogonTimesOut` | properties of `MCSession_silence.cfg` |
| `PersistedInbound`, `NothingCutGoesOut` | invariants of `MCSession_numbers.cfg` |
| `StopDrains` | invariants of `DeferredProcessor.cfg` |
| `DeliveredOnArrival`, with `FrameLists <- EmbeddedLists` | `MCSocketBridge.cfg` |
| `OwnTypeOnly` | invariants of `MCCodec.cfg` |
| `SI!SameContract`, `BS!ClearedNeverSubmitted`, `BS!SubmittedReached`, `BS!ChainsHold`, named by a definition of `MCComponents` | invariants of `MCComponents.cfg` |

The questions behind them:

- *Numbers.* Do new messages carry consecutive numbers whatever sends fail,
  connections are lost and initiators are replaced; does the store know the
  number to go on from; is a replay a message that went out under that number, whole
  if there is room for it; does the expected
  number go back only when a SequenceReset in reset mode says so? Checked for an
  initiator with a store, with a store and `reset_seq_num_on_logon`, without a
  store, and for an acceptor with a store.
- *Silence.* Is no peer given up without a TestRequest, and is one that falls
  silent noticed?
- *Both ends.* Do the two sessions agree at every moment, counting what is on the
  way, on the numbers and on the application messages; does each Logon and Logout
  get its answer?
- *Framing.* Does the session get exactly the sound messages, whatever the reads
  are, and does the buffer always have room for the next read?
- *Queues.* Is each an exact bounded FIFO queue (refinement of `BoundedFifo`),
  free of data races on its slots, although loads are stale?
- *Deferred processor.* Is no accepted message lost, doubled or overtaken over
  stops and restarts; does `stop()` return?
- *Messages.* Does a message read as what its builder was given, for every class; is
  one that did not fit, or was damaged, never accepted; do the parsers agree with
  each other, and does the strict one accept every message of our own; do the
  entries of a group cover it exactly?
- *Library components.* Does a reader of the sequence lock only keep whole and
  recent values; is each slot of a pool free once or owned once; does the gap
  tracker know exactly what is missing; do bytes leave the ring buffer in order over
  the wrap of its counters; do the vector loops return what the byte loops return
  and load nothing outside their input; do the builders of the structural index find
  the same delimiters, and the same marks where all of them look; is a field that the
  index gives a tag to really there, up to 2^16 bytes; does the kernel get each
  accepted operation once and in order, with the right buffers and linked as chained
  as long as nobody came between; are timestamps and binary messages read as written?

Where the code and its documentation disagree (violated properties, each with
the quoted line in `PROJECT.json`):

- The builders write `Qty::whole()`: an order for 2.5 shares leaves as `38=2`, one
  for half a share as `38=0` (`messages/fix44/new_order_single.hpp:253`).
- `IoUringTransport::send` takes the first completion there is for its own. With the
  receive that `connect` leaves under way, that may be received data: `send` then
  returns while its write is still in the ring (`transport/io_uring_transport.hpp:1007`).
- `SessionConfig::logon_timeout` is declared and never read: an unanswered Logon
  is waited for without limit on an open connection.
- `handle_sequence_reset` moves the session's expected number and not the stored
  one; the session that takes over the store starts from the old number.
- An acceptor's session numbers from 1 on each connection, while an initiator
  that does not reset at logon keeps its expected number. After the acceptor has
  sent one message more than its Logon, the initiator drops its answers as too
  low on the next connection and stays in LogonSent.
- A message whose body contains the text of a trailer is framed by its BodyLength
  when it arrives whole, and skipped as corrupt when a read ends between that text
  and the real trailer.
- `stop(true)` of the deferred processor can leave messages behind: the worker
  finds the queue empty, a message is accepted, `running_` is cleared, and the
  worker ends on the flag alone. (`Conserved` still holds: they stay in the queue.)
- A replay does not ask whether the message was cut: one with no room for PossDupFlag
  and OrigSendingTime goes out without its end (`session/session_manager.hpp:515`).
- The header keeps one character of MsgType: `Logon::from_buffer` accepts `35=AE`, and
  a replay sends a message of a two-character type as one of another type
  (`parser/consteval_parser.hpp:337`).
- The builders of the structural index disagree about the marks: at `109=` the scalar
  one sets `body_length_start`, the vector ones do not
  (`parser/structural_index.hpp:253`). No code reads the marks.
- `BatchSubmitter::clear` forgets entries that stay in the ring and are submitted later;
  `submit` reports its own count when the kernel took fewer; a chain of
  `LinkedOperations` is broken by others that prepare or submit in the middle of it
  (`transport/batch_submitter.hpp:164`, `:204`, `:356`).

### Bounds

- `MAX_SEQ_NUM = 3` with `UINT32 = 8` in `Session`: the outbound counter wraps
  after three messages. The peer's numbers end at 3, so TLC does not take the
  inbound counter to the end of its type; the proofs cover it.
  In `FixLink`, `MaxOut = 4` ends unasked sending below
  `MAX_SEQ_NUM = 9`: its properties are about connections that live for fewer
  messages than there are numbers, since after a wrap of the outbound counter the
  peer takes every message as too low.
- `MaxMessages = 2`, messages of one or two bytes, `MaxBytes = 2` and `PoolBytes = 3`:
  the store is full after one or two messages, evicts, and then runs out of its pool.
  The four bodies of application messages are a plain one, one with a two-character
  type, one with no room for PossDupFlag and one with too many fields to parse.
- `PeerMessages` has every type, below, at and above the expected number, with
  and without duplicates, wrong CompIDs and stale times. `FailSets` fails no send
  of a call, its first, or its second (the most any call makes unless it replays).
- `BufferSize = 12` with messages of four to six tokens: as in the code (8192 bytes
  against the 4096 of `MessageAssembler`) a message is at most half the buffer, and
  one of exactly half can begin exactly in the middle. Wrong BodyLengths fit no
  later trailer of the stream. `MAX_PENDING = 2` is exceeded by one read.
- `AgeCap = 9` half seconds exceeds twice the longest interval, two seconds, after
  which nothing more can change.
- Four slots of an SPSC queue wrap with every distance of the indices; two slots,
  two producers and five pushes use each MPSC slot again twice, which makes every
  outcome of the compare-and-swap happen.
- Five messages, a queue of three, batches of one and two, and two stops: batches
  cross a stop, and a queue left behind meets a restart.
- `Codec`: each builder is left empty, filled completely, or changed by one setter
  more (`MaxSets = 1`), with values of every kind a field has (zero, two digits,
  a negative price, the empty text). `MAX_MESSAGE_SIZE = 165`, `MAX_FIELDS = 26` and
  `MAX_SOH = 28` lie inside the range of lengths the messages have, so that some are
  cut and some exceed a table. `MAX_TAG = 512` is the code's; `MaxOverflow = 4` is
  exceeded by the larger tags. `WORD = 1024` is exceeded by numbers of the peer.
- `MCComponents`: two words, one reader and two writes of the sequence lock (a
  reader sees the counter move twice); pools of two or three slots with as many
  handles; three gaps over five numbers, so that the table is full and a gap is split;
  a ring of four bytes with counters that wrap at eight; registers of two and four
  bytes over inputs of up to eight with positions that wrap at seven, marks among the
  first three and the last two '=' and tags up to 109; a submission ring of two entries,
  batches of two and four operations, so that each place of the ring is used twice;
  the days about the ends of February and of the year by each leap rule; strings
  empty, full, longer than their field and ending in a space. `IoUringTransport`: six
  operations, a buffer of two bytes.

### Fairness

- `Session`: `WF(Elapsed)`. The engine polls in a loop and ticks every 100 ms.
- `FixLink`: `WF` of `Accept`, `ANotice`, `IReceive`, `AReceive`: both loops go
  on polling, and a dead connection ends the acceptor's read. Nothing is assumed
  about breaking, reconnecting, sending or the initiator's notice of a loss.
- Queues: `WF` of the consumer, which runs in a loop, and in `MPSCQueue` of a
  producer that has claimed a slot. Nothing makes a producer start a push.
- `DeferredProcessor`: `WF` of the worker thread, and of an owner inside `stop()`.

## What is proved

`SPSCQueueProofs` proves for every capacity and every set of items that indices
stay in range (`TypeCorrect`), that the threads never access one slot at once
(`NoRace`) and that the queue implements `BoundedFifo` with `Capacity - 1` places
(`QueueImplementsFifo`). The inductive invariant `Inv` adds to the types that each
cached index lies between the two real ones, measured as distances around the
ring, and what a thread in the middle of an operation knows: a producer past its
test has room as seen from its cached index, a consumer past its test has an item.
The cached copies make the types alone useless: a stale copy is safe because it
always errs to the side of a full, or an empty, queue.

`SessionManagerProofs` proves of each method of the session manager what it
preserves: `Keeps` (the record stays sound and a persisted counter persisted) and
`Advances` (which Logons a change of state needs). `SessionProofs` puts the
actions of `Session` on top, one step each, for every width of the integers, every
configuration, every set of peer messages and every choice of failing sends:
`TypeCorrect`, `StoreKeysCorrect`, `OutboundPersisted`, `LogonExchanged` and the
action property `InboundMonotone`. The inductive invariant `IInv` strengthens them
by: LogonSent means that our Logon went out and LogonReceived that the peer's came
in on this connection, no call is in progress, and a disconnected initiator is in
a state it connects from. Without the last part `Connect` could keep an active
session of the connection before. The key step is `Session_SendNew`: a send either
leaves numbers and store as they were, over the wrap of the counter too, or stores
the message under its own number with the counter behind it.

`AskedInTime`, in the same module, is `AskedBeforeTimeout` for every interval and
every peer under the condition that no send fails (`NothingFails`): a TestRequest
that could not be sent leaves nothing outstanding, and the session then times out
without having asked. The invariant `TInv` adds the types of the ages. The lemmas
named `Heard` say that handling a message, however it ends, leaves the peer's age
at zero; only `on_timer_tick` lets an old peer be seen, and `Asked_on_timer_tick`
that it has asked by then.

`SessionNumbersProofs` proves `NumbersConsecutive`, that is `NewNumbersConsecutive`
for every maximum of the counter, every limit of the store, every peer and every
choice of failing sends. Within a call the lemmas named `Line` carry that the
messages sent so far are in sequence and that the counter, and the stored one,
follow the last of them; a replay and a gap fill take no number. Between calls
`NInv` says that the counter follows the last number, with one exception: a new
initiator over an old store, whose counter is still 1 until its Logon takes the
number from the store. That is where the persisted counter is needed.

`ReplaysStayFaithful`, in the same module, is `ReplaysAreFaithful` for every peer, limit
and failure. `NInv` has for it that every message in the store went out (`Logged`).
Within a call, `Traced` says that what is in the store was there before or is among the
new messages sent, and that each message sent again repeats one of these (`Repeats`); a
message is stored only after its send succeeded, which is what the mutant turns round.
`Replay` takes the numbers in ascending order by `Nth`, so that what it sends is a
function of a finite set and needs no recursion.

`FixLinkProofs` proves `WireStaysInSequence`, `AppsAlwaysArrive` and
`ActiveAlwaysHasPeer` under two conditions: every initiator resets the numbers at logon
(`ResetsAtLogon`; without it the ends disagree about the numbers after a reconnection, as
`ReconnectLogsOn` shows), and no counter reaches its last number (`[]Unwrapped`). The configurations of store and heartbeat, the
failing sends, the losses, backlogs and reconnections are arbitrary. `LInv` says of a
standing connection that the messages on the way to each end are numbered from what it
expects to what its peer will use next, of a pending one that only Logons wait; and that
until the acceptor has answered, nothing is on the way to the initiator and only Logons
to the acceptor (`Handshake`). The lemmas named `Handling` say of each handler that on a
message in sequence it puts at most one new message on the wire; no gap and no resend
occur, which is itself part of the induction.

`MPSCQueueProofs` proves for every set of producers and items and every capacity of
at least two that no slot is accessed by two threads at once (`NoRace`) and that the
queue implements `BoundedFifo` with `Capacity` places (`QueueImplementsFifo`). The
invariant `Inv` says how far `head` runs ahead of the consumer, at most `Capacity`
positions; which number the slot of each of those positions carries (`Numbered`: the
position plus one once it is published, the position before); and what a thread in the
middle of a call knows: a producer that won its compare-and-swap has a position of its
own between the two, a consumer that found its slot published still does. The proof
rests on five lemmas about positions and slots (`SlotOf` to `SlotAgain`): fewer than
`Capacity` positions in a row have different slots. The code's `static_assert` of a
capacity of at least two is needed: in a queue of one slot the number of a published
item is that of the next free position.

`DeferredProcessorProofs` proves `MessagesConserved` and `SingleWorker` for every
queue, batch size and number of stops. `IInv` adds to the two that numbers are given
in order, and that an owner inside `stop()` has cleared `running_` and has a thread to
join: without it a `start()` could add a second worker.

`ComponentsProofs` proves `SeqlockCorrect` for any number of words, readers and writes,
in the order of loads and stores that x86-64 keeps. The invariant relates the counter
to the words (`Published`), each load a reader still uses to the counter (`LoadsInPast`)
and, while the counter has not moved, the copy to the last write (`CopySoFar`); an even
counter seen twice then means a whole copy.

It also proves `SlotsStayExact` of `ObjectPool` and `GrowingObjectPool` for any number of
slots, chunks and handles, and `RingStaysInOrder` of `RingBuffer` for every size and every
counter width that is a multiple of it. `ObjectPoolInv` adds to the property that handles
hold slots of their pool and that the counts are those of finite sets. `RingInv` says where
each byte of the queue lies in the array, counted from `head_` modulo `Size`; that masking
still finds it after a wrap rests on `Width_same`: counters equal modulo `Width` are equal
modulo `Size`.

The assumptions are those of the modules: `SeqNumAssumption` (at least two
numbers, fewer than the type holds), `SessionAssumption` (fields of configurations
and peer messages have their C++ types), `AgeAssumption`, `LinkAssumption` (unasked
sending ends before the last number), `ProcessorAssumption` and the `CapacityAssumption`
of each queue; TLC evaluates them in each run. The theorems about `FixLink`, `ObjectPool`
and `RingBuffer` state theirs in the theorem.

Only model-checked: liveness (the prover has no fairness reasoning), `SocketBridge` (its
loops are recursive definitions), the codec and the structural index, whose properties are
about folds over sequences, and the remaining library components.

## Not modelled

- Logging, statistics, the text of rejects and the names of error codes. In `Session`,
  parsing gives a message or fails (`ReceiveBad`). Time passes in half seconds.
- In `FixLink` only the initiator sends application messages, since `FixAcceptor`
  has no call to send one. A refused connection attempt leaves everything as it was,
  so the limit of attempts is not modelled. The store's `retrieve` and `reset` are
  not called by the session.
- TCP and Windows sockets: calls into the operating system. The session and framing
  modules have what they can do to a session: a lost connection, a failed send, a
  read of any size.
- Coroutines: each object owns one handle and nothing in the engine uses them.
- `SimpleMPSCQueue`, `BoundedSPSCQueue`, `DeferredCallbackExecutor` and
  `constexpr_serializer`: variants of what is modelled.
- Provided buffers and multishot receives of io_uring: the macro the code tests for is
  an enumerator of the kernel header, so that code is compiled out.
- `RdtscClock`: its calibration is arithmetic on doubles; `Timestamps` takes any instant
  it may return.
- The orders of loads and stores of other processors than x86-64, wait strategies,
  allocators, affinity, and the platform layer.

## Observations

Seen while translating; the models have the behaviour, no property states it.

- The builders of ExecutionReport (FIX 4.4 and 5.0) store OrdType, Price and
  TimeInForce and never write them; LastPx is dropped without LastQty, and
  MDUpdateType when SubscriptionRequestType is not `1`. `RoundTrip` compares what is
  written.
- Of two equal tags, `ParsedMessage` and the table above `MAX_TAG` keep the first,
  the table below it the last; `parser/runtime_parser.hpp:535` says "last-wins".
  Fields the comments of FIX 4.3 and FIXT 1.1 call required are not all checked.
- A fixed string of a binary message that was never set reads as NULs, and trailing
  spaces of one are lost; `dispatch` hands over a codec without asking `isValid`.
- `FastTimestamp` does not write the first second of the epoch; `to_epoch_ms` accepts
  the 31st of February.
- An object released to `ThreadLocalPool` on another thread is dropped and counted as
  an invalid release.
- A replay passes over numbers that are not in the store and over messages with more than
  `MAX_FIELDS` fields, without a gap fill for them. After a reset at logon or a wrap the
  store keeps the older message under a number, and a replay sends that one.
- MsgSeqNum and BodyLength are read modulo 2^32: `34=4294967299` is the number 3.
- In a span of more than 65536 bytes the positions of the scanners wrap.
- An acceptor that heard nothing for too long ends in Error and leaves the connection
  open; the initiator is not told.

## Plan

1. *Partial sends*: a socket that takes part of a message, what the peer's framing
   makes of the rest, and messages longer than half the buffer.
2. *Gaps*: the recovery from a gap in `FixLink`, and replays after a reset at logon.
3. *Shared memory*: `SimpleMPSCQueue` (a claim given back), the byte count of
   `BoundedSPSCQueue`, and `Seqlock` with reordered stores.
4. *Proofs*: `GapsTracked`, `BatchesExact`, and `FixLink` without resets at logon.
