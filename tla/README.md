# A verification development for libmdr

libmdr (C, `src/`, `include/mdr/`) is a client library for the protocol Sony headsets speak over a
Bluetooth RFCOMM socket. This directory holds TLA+ models of it, the TLC configurations that check
them on small instances, and proofs for TLAPS of what matters most. Every definition is translated
from the C code; `PROJECT.json` gives the lines each definition stands for.

## 1. The system

The library is single threaded and owns no loop. The application polls a socket as `poll_info` tells
it and calls `process`; the library calls the application back from there. It has these layers, each
of which owns the one below it:

| component | code | state | operations | what is hard |
|---|---|---|---|---|
| device | `src/device.c` | the functions the headset reported; the records of the application's subscriptions; `callback_data` of each call | `init`, about forty getters, setters and subscriptions, removal, close, free | two chained requests at init, the second made inside the callback of the first; allocations that fail half way; what is asked depends on flags that functions share; records freed while the connection holds them |
| packet connection | `src/packetconn.c` | queue of requests (the first in flight), attempts, ACK, deadline, next sequence id; list of subscriptions | make request, subscribe, remove, process, poll info, close, free | callbacks re-enter it half way through `process` and `close`; retries and two timeouts; an alternating sequence id handed out, advanced and taken back at four places; stale answers |
| reply specifier | `src/packetconn.c` | none | does a packet match? | which types also compare the inquired type |
| packet codecs | `src/packet.c`, `src/packet/*.h` | while a call runs: the offset, the packet being built, the blocks allocated for it | parse, serialise and free every packet type | comparisons with the end of the payload; allocations that fail in the middle of arrays of arrays of arrays; three lists of fields per type, and sizes added up by hand, which must agree |
| frame connection: reader | `src/frameconn.c` | read buffer, "start byte seen" | `read_frame` | frames cut into reads in any way, noise, invalid frames, a full buffer, a peer that hangs up |
| frame connection: writer | `src/frameconn.c` | write buffer | `flush_write`, `write_frame` | short writes, a socket that blocks half way |
| frame format, escaping | `src/frameconn.c`, `src/frame.c` | growing buffer while escaping | escape, unescape, checksum | a buffer allocated by a guess; three bytes that must not appear inside a frame |
| set-up, names, time arithmetic | several | none | system calls and tables | nothing of their own |

They interact by calls only: down for requests and writes, up through the callbacks given with a
request or a subscription. There are no threads and nothing is persisted, so the hazards are
re-entrance, partial failure (memory, blocked or short writes), messages that arrive late, twice or
cut into pieces, retry and timeout bookkeeping, and things that must eventually happen.
`PROJECT.json` lists them under `hazards`, each at its line, with the properties that watch it.

Correctness, per component:

* device: one callback per call, in the end and not before its time; only supported things are asked;
  every answer is recognised; no freed record is reachable from below.
* packet connection: requests end once, in order, with a true reason and not too early; sequence ids
  alternate as a receiver expects; every request ends; each packet reaches its subscribers once.
* reader: what is returned is what was sent, in order, nothing kept back, and calls return.
* writer: success means all of it was sent; what a blocked write did not send is kept exactly.
* escaping: inside the buffer, and undone by unescaping.
* codecs: nothing is read behind the payload; memory is freed once, all of it, and never used
  afterwards, wherever a parser gives up; what is parsed is what is written, in a frame of its size.

## 2. The modules

```
Device ---- DeviceOperations ---- ReplySpecifier
   |  uses                             |
RequestContract <---implements--- PacketConn <--- extended by PacketLink (with a headset)
                                       .
                              (reads and writes frames)
                                       .
              FrameReader   FrameEscape   FrameWriter
                     \          |
                       FrameFormat

PacketCodec ---- PacketLayout      (between frames and the packets of the layers above)
```

* **RequestContract** is the abstract specification: requests are accepted or refused, end one at a
  time in order, and closing ends all that are left. It knows no timers, ids or callbacks.
* **PacketConn** is the packet connection. `pc` says where in a call of
  `mdr_packetconn_process_by_availability` (or `_close`) the library is; each branch of that function
  is an action (`Transmit`, `GiveUp`, `AckCompletes`, `ReadReply`, ...), and while a callback runs
  (`pc` in `errcb`, `resultcb`, `notify`, `closing`) the application's own actions are enabled, which
  is how re-entrance is modelled. The absolute deadline is kept as the ticks left. Reads may yield
  any frame, writes may be taken, blocked or fail, and the link may break for good. `INSTANCE
  RequestContract WITH pending <- Outstanding, phase <- Phase` is the refinement mapping: a request
  ends, as the contract sees it, when its callback is called.
* **PacketLink** puts a headset at the other end of a channel of `Room` frames each way which keeps
  order. The headset is not in the repository; it acknowledges, replies, notifies, disregards
  commands, is as slow as it likes and repeats what was not acknowledged. Every frame carries as
  history the request it answers. `PacketConnProofs` shows that the connection inside it takes only
  steps of PacketConn.
* **ReplySpecifier** is `reply_specifier_matches`.
* **FrameFormat** has the wire format as operators; **FrameEscape** the escaping loop with its
  buffer; **FrameReader** `next_frame`/`read_frame` byte by byte, with the index that goes on counting
  after an invalid frame. What a peer sends is a stream: the bytes, the frames that are whole among
  them and the places where they end, which must be what the bytes say (`Consistent`). **FrameWriter** `flush_write`/`write_frame`, one `write()` per action, where
  a byte is known by its frame and its place. A frame is given by its length there.
* **DeviceOperations** is the table of operations: gate, packet sent, reply specifier, what the
  handler can read, all as functions of the flags, one set of operations per function of the headset
  (`Families`) and the two requests of init (`Initialisation`). **Device** is the layer itself; its connection is
  an instance of RequestContract, and each of its steps that touches a request is a step of it (`UsesConnection`). Since
  PacketConn implements that contract, what holds of Device holds on top of it. `nested` marks
  `init_result_protocol_info`, whose request is made inside a result callback.

* **PacketLayout** holds, for every type of packet, three lists of fields, each one macro of
  `util.h`: what `*_from_frame` parses, what `*_to_frame` writes and what `*_free` releases. The
  code keeps the three by hand, so they are three tables here too, with the code's mistakes.
* **PacketCodec** walks a layout. `todo` holds the fields still to come, each with the place in the
  packet it belongs to: a `switch` puts the fields of its case in front, a loop puts those of its next
  element in front of itself. That is how nested arrays are walked without recursion, so that the
  module can be proved about. One behaviour is the life of one packet: a frame of any type, length
  and content is parsed, perhaps encoded again, and freed; any allocation may fail. Bytes are chosen
  when they are read. `live` are the blocks in use, `pointer` the pointers in the packet.

`MC*` modules instantiate them for TLC; `*Proofs` hold theorems (`FrameFormatProofs` those about the
wire format that the proofs about the reader and about escaping rest on, `PacketConnProofs` those
about PacketConn and then about PacketLink, `FrameReaderProofs` those about the reader and then about
the escaping loop, `PacketCodecProofs`, `PacketLeakProofs` and `PacketRoundProofs` those about the
codecs, each of which builds on the one before). An operator whose comment starts with "Mutant:" is a plausible bug and is used nowhere in a specification; every
property is shown to notice one.

## 3. The runs

All with deadlock checking, where a closed connection or a returned call loops explicitly; only
PacketCodec ends, with the life of its one packet.

| run | checks | bounds, and why they are enough |
|---|---|---|
| PacketConnRequests | `TypeOK`, `CalledBackOnce`, `AlternatingSequenceId`, `StopAndWait`, `NotGivenUpEarly`, `KeepsRequestContract` | three requests (one to end, one to take its place, one made in the callback), a setter and two getters of the same kind, three tries, timeouts of one tick |
| PacketConnLiveness | `EverySubscriberNotified`, `NotifiedOnce`, `EveryRequestEnds`, `CloseEnds` | two requests, two tries, two subscriptions that may each be added and removed inside the other's callback; writes may block |
| PacketLinkPrompt | `LinkTypeOK`, `AnswersAreGenuine`, `NoAckMeansNoAck`, `FreshRequestFreshId` | three requests, channel of two frames, commands may be disregarded, three tries; every answer arrives before the clock ticks |
| PacketLinkSlow | `StaleAckOnlyAfterGivingUp` | three setters, two tries, timeouts of no tick at all, so any answer may be arbitrarily late |
| FrameEscape | `EscapeTypeOK`, `InBounds`, `ReaderGetsFrame` | frames with every arrangement of the special bytes and their masked forms in short payloads |
| FrameReader | `TypeOK`, `FramesInOrder`, `SentFramesInOrder`, `NothingLeftBehind`, `ReadReturns` | every stream of up to three items out of nine (frames, noise, cut-off and damaged frames, one whose length wraps), in every cut into reads, in a buffer of 14 bytes: every frame fits, junk fills it |
| FrameWriter | `TypeOK`, `SuccessSendsWhole`, `BlockedIsKept` | two frames that may be written again, a buffer of four bytes, at most six bytes on the wire |
| DeviceCalls | `TypeOK`, `UserCalledBackOnce`, `InitMeansKnown`, `AsksForWhatThereIs`, `AnswersAreRecognised`, `RecordsAreLive`, `EveryCallEnds` | all operations, two calls, two subscriptions, six sets of functions; init and one other call, or two inits, in every order and with every failure |
| PacketCodec | `TypeOK`, `ReadsInBounds`, `BlocksInUse`, `NothingElseLeaks`, `EncodesParsed`, `CallsReturn` | every packet type; payloads of every length up to 13 bytes (three nested arrays take 11, the capability of smart talking 12), so that each field of each type is once the last; counts of 0, 1 and 2; names of at most one byte, so that one of two is cut; of an enumeration the least value, the greatest and an invalid one, but all values where a `switch` depends on it |
| PacketCodecRequests, FrameReaderHangUp, FrameWriterOnce | one rule each that the code does not keep | small; see section 5 |

The histories the properties read (`fate`, `calls`, `due`, `age`, `owed`, `delivered`, ...) are
named in each module and no guard depends on them, except that a handle is used once.

**Bounds in the models.** `age` stops counting at `AgeBound`, which is the largest value a property
compares it with. `FrameWriter` stops writing after `MAX_WIRE` bytes. Sequence ids other than 0 and
1 are one value. The application uses each handle once. `MaxLength`, `Counts`, `Data` and `Sample`
bound what a frame holds in PacketCodec.

`NothingElseLeaks`, `EncodesParsed`, `AsksForWhatThereIs` and `SentFramesInOrder` except by name what
the code is known to get wrong (`KnownLosses`, `Miscoded`, `TakenForOne`, and blocks that are not
`IsFrame`; see section 5), so that they watch the rest.

**Fairness.** In PacketConn: calls and callbacks return (weak fairness on the library's own steps);
time goes on; the loop does not ignore a poll that timed out, nor a socket that is polled for writing
and writable again and again (strong fairness, as the socket may be full in between), unless it is
flooded by the backlog; the callbacks of one packet do not add subscriptions for ever. Nothing is
assumed of the headset, and `EveryRequestEnds` excuses a broken link and a backlog, because the code
never gets rid of either. A write that blocks may leave a backlog or nothing (`TransmitBlocked`): a
frame for which the write buffer has no room is refused as a whole (`frameconn.c:377-384`). That a
frame goes out once the socket is writable again and again takes frames to fit in that buffer, as all
the library writes do; a larger one could be refused every time. In FrameReader: a call goes on; nothing about the peer. In Device: the
connection ends its requests, which is what `EveryRequestEnds` says of it, and callbacks return. In
PacketCodec: a call that has begun runs on; whether a packet is ever encoded or freed is left open.

**Assumptions on the application**, where the code has undefined behaviour otherwise: it does not
remove a subscription inside that subscription's own callback, does not close from a callback, and
does not subscribe while `mdr_device_close` runs the last error callbacks (the device's list is freed
by then).

## 4. What is proved

TLAPS checks these for every value of the constants, from the assumptions in the modules
(`TimeoutAssumption`, `SpecifierAssumption`, ...), which TLC evaluates on its instances.

* `PacketConnProofs!TypeCorrect`: the type invariant, with `CallShape` as strengthening: while an
  error callback runs its request is still first in line, and while a packet is dispatched the
  current subscription is in the list. Without it `Head(queue)` in `advance_frame_queue` could not be
  typed.
* `PacketConnProofs!SequenceIdsAlternate`: inductive with one more conjunct, that while an error
  callback runs the next id to hand out is the one the receiver waits for; this is the state in which
  the id has been taken back but the queue has not advanced.
* `PacketConnProofs!EachIsCalledBackOnce`: each step is first shown to be one of four kinds for the
  queue (accepts, refuses, ends the oldest, leaves it alone), and then each kind to preserve
  `QueueInv`, which adds that no request is in line twice.
* `PacketConnProofs!ImplementsContract`: the same four kinds are steps of RequestContract.
* `PacketConnProofs!StopsAndWaits`: with the conjunct that requests not made yet have no attempts.
* `PacketConnProofs!IsNotGivenUpEarly`: `AgeInv` relates the age of the request in flight to the time
  left: before the ACK, age plus time left plus one is at least the number of tries made times
  `AckTimeout + 1`; after it, at least the shorter timeout plus one. A deadline in the past then means
  that all this time has gone by.
* `PacketConnProofs!EverySubscriptionIsReached`, `!NoneIsReachedTwice`: `DispatchInv` says that no
  subscription is in the list twice and that those still owed the packet are exactly the matching ones
  behind the one whose callback runs. Appending to the list and removing from either side of it keep that;
  at the end nothing is behind.
* `PacketConnProofs!LinkIsConnection`, `!LinkTypeCorrect`: composed with a headset, however slow, the
  connection takes only steps of PacketConn, so that every theorem above holds of it.
* `PacketConnProofs!PromptAnswersAreGenuine`, `!PromptNoAckIsTrue`, `!PromptRequestsAreFresh`: for a headset
  whose answers arrive before the clock ticks and whose notifications match no request (`Prompt`), and
  for any number of requests, room in the channel, tries and timeouts. `ExchangeInv` is what makes
  them inductive: at most one thing is under way, a request, or its ACK and then its reply; it
  belongs to the request first in line, under its sequence id; and nothing is under way when a deadline
  has passed. `HistoryInv` adds what the headset has seen and confirmed: as long as a request waits, it
  is the last one seen or still in the channel, and a confirmed one either has its ACK under way or is
  marked as acknowledged. Without `Prompt` they are false, as PacketLinkSlow allows: an ACK that comes
  after its request was given up is taken for the next one's.
* `PacketConnProofs!StaleAcksAreToldApart`, `!StaleAcksOfSetters`: for a headset as slow as it likes,
  which repeats what it likes. An ACK ends a request other than its own only if its own was given up
  for want of an ACK. `TrafficInv` makes this inductive: the ACKs and requests under way are in the
  order in which the requests were written, and of their two ids the one that is due was handed out
  last, so that once it occurs, only it occurs behind; what has this id belongs to the request in flight
  or to one given up without an ACK, which left it its id; and once the request in flight has its ACK,
  nothing else is under way. This needs two things. `SettersAwaitAcks`, a hypothesis: no packet ends a
  request that is to be ended by its ACK (`device.c` sets `only_ack` and no type, which leaves the type
  0, a request, and headsets send none). And `RepliesFollowAcks`, that no reply overtakes the ACK of
  its request, for then the id advances while that ACK is under way: the first theorem has it in its
  conclusion, because the link does not imply it for requests that await replies; the second is about
  the requests without replies, as in PacketLinkSlow, and has no such condition. `packetconn.c:568`
  looks at neither `only_ack` nor `acked`, so the code itself guarantees neither of the two.
* `FrameFormatProofs!EscapingIsUndone`, `FrameReaderProofs!ReaderGetsEveryFrame`: for frames of any
  length and content, what is put between start and end byte holds neither of them and unescapes to
  the frame. The prover cannot do the induction, so the proofs take a least counterexample, which
  exists because `<` is well founded. Beside the bytes there is a sequence of `marks`, the places in
  the frame at which each byte of the wire begins, extended by one byte of the frame at a time; read
  from its end it is the fixpoint that the recursion of `unescape` is. The escaping loop then has the
  invariant that its buffer is the start byte and the escaped bytes so far.
* `FrameFormatProofs!FrameLengthIsModular`: the length of a frame is computed modulo 2^32, as an `int`
  and a `uint32_t` are added, and `!UnescapedFrames`: what `unescape_frame` gives is either no frame, or a
  frame that is as long as its length field says, or, only if that sum wraps, a block of one to
  six bytes.
* `FrameReaderProofs!ReaderTypeOK`, `!SentFrames`, `!FramesReturnedInOrder`, `!AllFramesReturned`: for
  every set of consistent streams, every cut into reads, every size of the buffer, and memory that runs
  out anywhere. A block shorter than a frame (a wrapped length) is returned as the code does, and is what
  `SentFrames` excepts. The invariant is
  that there is a place `p` in the stream up to which bytes have left the buffer: the buffer and the
  socket hold the rest; the frames returned are sent ones that end by `p`; if a start
  byte was seen, it is the byte at `p`; and the scan has passed no delimiter it would have acted upon. As
  long as nothing was `damaged` (no invalid frame, no wrapped length, no lack of memory), the frames returned are all that end by `p`, and if the buffer was
  scanned to its end, none ends within it. The first two theorems hold for any streams. The last two
  have the hypothesis `FramesFit`, as the reader drops a frame longer than its buffer.
* `FrameReaderProofs!WritesMakeAStream`: the streams assumed there are what peers send: whole frames
  of any number and length, escaped as the writer does it, with anything without an end byte in
  front of each, make a consistent stream of just these frames.
* `FrameReaderProofs!EscapeTypeCorrect`, `!EscapesInBounds`: for frames of any length. With
  `EscapeTypeOK` the bound is inductive, because a buffer of `a` bytes becomes one of `(a + 2) * 9 / 8`, at least two bytes
  more, which is the most that one byte of the frame needs; the first guess does not matter.
* `FrameWriterProofs!WriterTypeCorrect`, `!WritesAreKept`, `!BlockedRestIsKept`: for
  frames and buffers of any size, with the invariants that the frame in hand is the last on the wire,
  that the buffer ends with whole rests of frames and that it does not overflow.
* `PacketCodecProofs!CodecTypeCorrect`, `!ReadsStayInBounds`: for payloads of any length, and for
  every layout that could be walked, as nothing is assumed of the tables. Inductive with the conjunct
  that a parser has read at least the type; the length of a block is a number because the fields of
  a packet are bytes, which is why the two are proved together.
* `PacketCodecProofs!BlocksStayInUse`: this one is about the layouts of `packet.c` as they are, and for
  payloads of any length and content. Of each layout in the tables it is first shown, by looking at it,
  that it is `Neat` (its fields have names of their own, so that what `Stack` says of it is kept: no two
  items on the stack cover the same path), if it is parsed that it is `Orderly` (a count is read before
  its array, a choice before the `switch` on it, with one case for a value), and if it is written that
  it is `Mirrored` by the one parsed (the same arrays, counts and cases) and makes a frame in every
  case. `HeapInv` then has a conjunct for each stage of a call. Each pointer that is set is to a block of
  its own; until a packet is freed all its pointers are set and their blocks in use. While a parser
  runs, of each layout entered every field was parsed or is still on the stack (`Parsing`), so that at
  the end all was (`Complete`). While a writer runs, every array and choice still to come was parsed,
  and a frame will be started or the last block is one, which is all that `EncodeEnds` hands over. While
  a packet is freed, wherever its parser had got to, what the stack still touches is in use: freeing a
  field keeps this because no later item touches what it covers.
* `PacketLeakProofs!NothingElseIsLost`: for payloads of any length and content, whichever allocation
  fails and whether the packet was encoded before or not. Where the walk of a free will come is
  `Comes`, and what it will free `Frees`, defined as what is in every set closed under the steps of the
  walk, so that no induction over the walk is needed. Again by looking at the tables: each layout that
  frees undoes the one that parses (`Undoes`, `TablesUndone`; that of a device info is treated by
  itself, as it allocates its string twice), and each writer starts one frame before it puts
  anything in, the capability of smart talking two (`Framed`, `WritersFramed`). `LeakInv` adds to
  `HeapInv`, for each stage, who owns the blocks in use. While a parser runs, no item still to come sets
  a pointer that is set (`Sole`, `Fresh`), what the items allocate will be freed (`AllProvided`,
  `AllFreed`), and every block is the packet's or that of a pointer (`Owned`). While a writer runs there
  is in addition no frame yet, one, or for smart talking one and a lost one. While a packet is freed,
  each block in use is the packet, a lost one, or one to whose free the walk will come (`Leaves`), so
  that when the walk is over only the lost one is left.
* `PacketRoundProofs!EncodesWhatItParsed`: for every type of packet, every payload and every count of
  every nested array. It has to pair each stack of the writer with one the parser had long ago, of
  which the state keeps no record, and the length of the frame with a sum over nested arrays. Both are
  done without an induction over the data. From the tables, again by looking at them: each layout
  that writes spells the one that parses, field by field and down to the elements of arrays (`Spells`),
  and each frame is given the number of its fields, that and a count, or a sum over an array that
  matches what is written of it (`CaseRound`, `AllRound`). What a writer would do with the fields read
  so far is a set of stacks, each with the number of bytes written when the writer is there, closed
  under the writer's steps (`Trace`). While a packet is parsed there is such a set for the bytes read
  so far, and it ends with the stack that spells what is still to be parsed (`Traces`, one of the
  stages in `Stage`): each step of the parser adds one stack to it. When the packet is encoded the set
  is complete, and the writer is at an element of it, with as many bytes written as the element says
  (`Encodes`). The sum runs through the same set ahead of the writer: the stack of the sum and a stack
  of the set stay item by item `Paired` (`Aligned`, `Opened`), and what was added up is the place in
  the frame (`AddsUp`). Packets in `Miscoded` are followed by themselves (`Spoiled`, `EncodesSpoilt`), because
  for them, too, nothing may be written behind the end of the frame. `RoundInv` is all of this, on top
  of `LeakInv`.
* `DeviceProofs!DeviceTypeCorrect`, `!CallsBackOnce`, `!InitTellsTheTruth`, `!RecordsStayLive`: for any
  number of calls and of subscriptions, from one invariant that gives the stages of a call (not made,
  answered at once, first request out, between the two of init, second request out, done) what is
  true in each of its records, of its request and of its callback.
* `DeviceProofs!EveryAnswerIsRecognised`, `!AsksOnlyForWhatThereIs`: facts about the table of operations,
  proved family by family first, carried over to every request the device has
  outstanding. The second holds of any headset, and excepts a request with the combined type that a
  headset provoked by reporting the two halves one by one (`TakenForOne`).
* `DeviceProofs!UsesConnection`: every step of Device is one of RequestContract or leaves its variables
  alone, action by action, from the invariant above. With `PacketConnProofs!ImplementsContract` the
  device thus relies on nothing that PacketConn does not promise.

Hypotheses of theorems that are not in the modules' assumptions are checked on the instances as
`ASSUME`s of the MC modules: `FramesFit` in MCFrameReader, `SettersAwaitAcks` in MCPacketLink.

Only model-checked: liveness (`EveryRequestEnds`, `CloseEnds`, `ReadReturns`, `EveryCallEnds`,
`CallsReturn`), which is out of the prover's reach. Every invariant and every action property of a
passing run is stated by a theorem above. The strengthened invariants are not checked by TLC where they
quantify over sets of stacks (`Comes`, `Frees`, `Trace`).

## 5. Where code and documentation disagree

Shown by a run:

* `ncasm.h:193` writes the ambient sound id twice and never its amount, which `device.c:1419` sets:
  the level asked for does not reach the headset (`packet.h:278`).
* `frameconn.c:264`: a peer that hung up makes `read_frame` spin (`frameconn.h:90`).
* `frameconn.c:116`: a flush writes the same bytes again and again (`frameconn.h:83`).

Seen while modelling, in the models, without a run of their own:

* `packetconn.c:470` assigns `errno = EAGAIN || ...`, so a failed read returns 0 (`packetconn.h:80`).
* `packetconn.c:479` takes an ACK for the first request in line though that was not sent yet
  (`packetconn.h:101`). PacketLinkSlow (`StaleAckOnlyAfterGivingUp`) shows that this needs an earlier
  request that was given up.
* `packetconn.c:543` ignores that the ACK of a data frame could not be written; the headset sends
  the frame again and its subscribers are called twice. `packetconn.c:548` returns -1 for a frame
  that does not parse though it was acknowledged.
* `packetconn.c:751`: `timespec_add` carries only above 1000000000 nanoseconds, not at it.
* `packetconn.c:445` and `543` write although `writable` is false (`packetconn.h:93`).
* `packetconn.c:568` matches replies for a request with `only_ack` (`packetconn.h:119`), and for one
  that was not sent yet.
* `frameconn.c:225-235`: after an invalid frame the buffer moves to its front but the index goes on, so
  a valid frame behind it may be passed over until more bytes arrive (`frameconn.c:204`).
* `frameconn.c:186`: the length of a frame is an `int` and a `uint32_t` added in 32 bits. The seven
  greatest payload lengths, 0xFFFFFFF9 to 0xFFFFFFFF, give lengths of 0 to 6, which are not greater than
  what was received (`188`). For 1 to 6 a block of that size is returned, with a `payload_length` of
  4 GB where that field lies in it at all, against `frame.h:30-34` and the comment at
  `frameconn.c:155`; for 0, `realloc` frees the block and returns NULL, and nothing is returned. The models return
  such blocks (`LengthWraps`, `frame_len`). The same sum at `frame.c:28-32` and `frameconn.c:293` is of
  frames the library makes, none of which is that long. PacketCodec starts from frames whose
  `payload_length` is true, which such a block's is not.
* `frameconn.c:160`: the result of `malloc` is written to without a look; the reader's model crashes
  there (`WritesToNull`). A block is lost with each invalid frame (`178-192`) and each `realloc` that
  fails (`195`), which FrameReader, without the heap, does not show.
* `frameconn.c:215` and `228` move two bytes more than lie behind the index. They come from, and go to,
  places behind `read_buf_len`; only with a full buffer, or almost, are they read behind the
  array, and if the delimiter is its first byte one is written behind it (section 6).
* `frameconn.c:246` clears the errno of an invalid frame (`frameconn.c:206`). `frameconn.c:363` writes
  a new frame although the flush before it was blocked, so that it may overtake the backlog.
* `device.c:199` ignores a refused request: 0 is returned and no callback comes (`device.h:173`).
* `device.c:283-294` accepts a headset that reports noise cancelling and ambient sound as two functions,
  and `device.c` then asks it with the type of the combination, which it did not report (`TakenForOne`).
* `device.c:1265` gates `disable_ncasm` by `noise_cancelling` alone (`device.h:321`); `device.c:1695`
  allows `set_eq_levels` though the equalizer is not customizable (`device.h:436`).
* `packetconn.c:78-83`: the comment gives half a second for an ACK where the code waits one;
  `mdr_packetconn_wait_for_result` is declared and never defined; checksums are not compared.
* `common.h:183` does not write the inquired type of a battery level, and leaves the last byte of the
  frame as it was allocated; the library only receives this packet.
* `system.h:568`: for want of a `break` the capability of smart talking is written a second time,
  into a second, shorter frame; the first is lost.
* `connect.h:144` allocates the block of a name, and `NameBytes` allocates it again: the first is lost
  with every model name and firmware version. `connect.h:143`: a name longer than 128 bytes is cut,
  its length is not, and whoever uses the two reads behind the block.

## 6. What is not modelled, and the plan

Not modelled: the values that device handlers pass on (a packet reaches its handler as its type and
inquired type), socket set-up, the tables of names, `timespec` arithmetic to the nanosecond, and frames longer than
the read buffer (the reader drops them; the streams of FrameReader all fit). The
blocks of the frame connection have no owner in the models (PacketCodec has those of packets). What the
`memmove`s at `frameconn.c:215` and `228` do behind the end of a full read buffer is undefined; it is taken
as it is where a `size_t` has eight bytes and padding lies between `read_buf` and `read_buf_len`, so that
nothing else is overwritten (`Behind` of FrameReader).

In the order of importance:

1. the packet connection, its contract, and its proofs (done);
2. the frame connection: format, escaping, reader, writer, and the proofs of all their safety
   (done);
3. the device and its table of operations, and their safety (done, proved), and that its steps are
   steps of RequestContract (proved);
4. the packet codecs: lengths, partial failure and the round trip (done), that they read in bounds,
   use memory only while it is in use, lose no more than is known and write what they parsed
   (proved);
5. the connection with a headset: what sequence ids and ACKs achieve (done, proved for a headset that
   answers in time and for one that does not).
