----------------------------- MODULE PacketConn -----------------------------
(***************************************************************************)
(* The packet connection of libmdr (src/packetconn.c): a queue of requests *)
(* of which the first is in flight, its retransmission timer, the          *)
(* alternating sequence id, and the list of subscriptions.                 *)
(*                                                                         *)
(* The library is single threaded and driven by the application's poll     *)
(* loop.  What makes it hard is that mdr_packetconn_process calls back     *)
(* into the application half way, and that the application may make        *)
(* requests and change the subscriptions from inside those callbacks.  So  *)
(* one call of mdr_packetconn_process is not one action here: `pc' says    *)
(* where in the call the library is, and every action of the application   *)
(* that is legal in a callback is enabled there.                           *)
(*                                                                         *)
(* The module is open: a read may yield any frame, and a write may be      *)
(* taken, blocked or fail.  PacketLink closes it with a headset.           *)
(*                                                                         *)
(* Time is counted in ticks.  Only differences of times matter to the      *)
(* code, so the absolute deadline request->timeout is kept as the ticks    *)
(* left before it, -1 once it lies in the past.                            *)
(***************************************************************************)
EXTENDS Integers, Sequences, SequencesExt, ReplySpecifier

CONSTANTS
  Requests,       \* the handles mdr_packetconn_make_request may return
  Subscriptions,  \* the handles mdr_packetconn_subscribe may return
  RequestSpec,    \* RequestSpec[h]: the reply specifier request h is made with
  SubSpec,        \* SubSpec[s]: the reply specifier of subscription s
  Packets,        \* the packets that may arrive
  MaxTries,       \* PACKET_MAX_TRIES
  AckTimeout,     \* packet_ack_timeout, in ticks
  ReplyTimeout,   \* packet_reply_timeout, in ticks
  WritesBlock,    \* may a write block: a full socket, or too large a frame?
  None            \* no subscription, no packet

ASSUME TimeoutAssumption ==
  /\ MaxTries \in Nat \ {0}
  /\ AckTimeout \in Nat
  /\ ReplyTimeout \in Nat

ASSUME SpecifierAssumption ==
  /\ RequestSpec \in [Requests -> Specifier]
  /\ SubSpec \in [Subscriptions -> Specifier]
  /\ Packets \subseteq Packet
  /\ None \notin Subscriptions \cup Packet

ASSUME SocketAssumption == WritesBlock \in BOOLEAN

-----------------------------------------------------------------------------
(***************************************************************************)
(* Frames, as the packet connection sees them.  The sequence id is a byte  *)
(* on the wire; 2 stands for every value other than 0 and 1.  A DATA_MDR   *)
(* frame carries a packet, or bytes that do not parse as one (None).       *)
(***************************************************************************)
SeqIds == 0..2

\* The `!' of C on a sequence id.
Not(seq) == IF seq = 0 THEN 1 ELSE 0

AckFrame == [data_type : {"ACK"}, sequence_id : SeqIds, packet : {None}]
DataFrame ==
  [data_type : {"DATA_MDR"}, sequence_id : SeqIds, packet : Packets \cup {None}]
OtherFrame == [data_type : {"OTHER"}, sequence_id : SeqIds, packet : {None}]
Frame == AckFrame \cup DataFrame \cup OtherFrame

\* How a request ends: a result callback, or an error callback and its errno.
Endings == {"RESULT", "NO_ACK", "NO_REPLY", "CLOSED"}
Fates == {"NEW", "REFUSED", "PENDING"} \cup Endings

PCs == {"idle", "send", "errcb", "read", "resultcb", "notify", "closing", "closed"}

VARIABLES
  queue,            \* the list conn->request ... conn->request_queue_tail
  next_sequence_id, \* conn->next_sequence_id
  sequence_id,      \* request->frame->sequence_id (0 until it is first in line)
  attempts,         \* request->attempts
  acked,            \* request->acked
  timer,            \* ticks until the first request's deadline, -1 when past
  subscriptions,    \* the list conn->subscription ... ->subscription_list_tail
  backlog,          \* mdr_frameconn_waiting_write: unsent bytes are buffered
  broken,           \* the link is gone: every system call on the socket fails
  pc,               \* where in mdr_packetconn_process or _close the library is
  readable,         \* the argument of the call in progress
  writable,         \* the argument of the call in progress
  packet,           \* the packet being handed to the subscriptions
  cursor,           \* the subscription whose callback is running
  ret               \* what the last call of mdr_packetconn_process returned

(***************************************************************************)
(* History, which no guard reads: how each request ended and how often its *)
(* callbacks ran, the sequence id an alternating-bit receiver waits for,   *)
(* the ticks since the request in flight was first sent, and the           *)
(* subscriptions still owed the packet in hand.                            *)
(***************************************************************************)
VARIABLES fate, calls, due, age, owed

requestVars == <<queue, next_sequence_id, sequence_id, attempts, acked, timer>>
callVars == <<pc, readable, writable, packet, cursor, ret>>
historyVars == <<fate, calls, due, age, owed>>
socketVars == <<backlog, broken>>
vars == <<requestVars, subscriptions, socketVars, callVars, historyVars>>

AgeBound == MaxTries * (AckTimeout + 1)

RequestTypeOK ==
  /\ queue \in Seq(Requests)
  /\ next_sequence_id \in {0, 1}
  /\ sequence_id \in [Requests -> {0, 1}]
  /\ attempts \in [Requests -> 0..MaxTries]
  /\ acked \in [Requests -> BOOLEAN]
  /\ timer \in -1..(AckTimeout + ReplyTimeout)

SubscriptionTypeOK == subscriptions \in Seq(Subscriptions)

SocketTypeOK == backlog \in BOOLEAN /\ broken \in BOOLEAN

CallTypeOK ==
  /\ pc \in PCs
  /\ readable \in BOOLEAN
  /\ writable \in BOOLEAN
  /\ packet \in Packets \cup {None}
  /\ cursor \in Subscriptions \cup {None}
  /\ ret \in {"ok", "error"}

HistoryTypeOK ==
  /\ fate \in [Requests -> Fates]
  /\ calls \in [Requests -> Nat]
  /\ due \in {0, 1}
  /\ age \in 0..AgeBound
  /\ owed \subseteq Subscriptions

TypeOK ==
  RequestTypeOK /\ SubscriptionTypeOK /\ SocketTypeOK /\ CallTypeOK /\ HistoryTypeOK

\* mdr_packetconn_new_from_frameconn
Init ==
  /\ queue = <<>>
  /\ next_sequence_id = 0
  /\ sequence_id = [h \in Requests |-> 0]
  /\ attempts = [h \in Requests |-> 0]
  /\ acked = [h \in Requests |-> FALSE]
  /\ timer = 0
  /\ subscriptions = <<>>
  /\ backlog = FALSE
  /\ broken = FALSE
  /\ pc = "idle"
  /\ readable = FALSE
  /\ writable = FALSE
  /\ packet = None
  /\ cursor = None
  /\ ret = "ok"
  /\ fate = [h \in Requests |-> "NEW"]
  /\ calls = [h \in Requests |-> 0]
  /\ due = 0
  /\ age = 0
  /\ owed = {}

-----------------------------------------------------------------------------
(***************************************************************************)
(* The application's calls.  They are legal between two calls of           *)
(* mdr_packetconn_process and inside every callback; the callbacks of the  *)
(* requests that mdr_packetconn_close abandons are such callbacks too.     *)
(* A handle is used once.                                                  *)
(***************************************************************************)
ApplicationRuns == pc \in {"idle", "errcb", "resultcb", "notify", "closing"}

\* Mutant: the tail pointer stays where the second request was linked.
EnqueueStaleTail(h) ==
  queue' = IF Len(queue) < 2 THEN Append(queue, h) ELSE Append(Front(queue), h)

Enqueue(h) == queue' = Append(queue, h)

MakeRequest(h) ==
  /\ ApplicationRuns
  /\ fate[h] = "NEW"
  /\ fate' = [fate EXCEPT ![h] = "PENDING"]
  /\ Enqueue(h)
  /\ IF queue = <<>>
     THEN /\ sequence_id' = [sequence_id EXCEPT ![h] = next_sequence_id]
          /\ next_sequence_id' = 1 - next_sequence_id
     ELSE UNCHANGED <<sequence_id, next_sequence_id>>
  /\ UNCHANGED <<attempts, acked, timer, subscriptions, socketVars, callVars,
                 calls, due, age, owed>>

\* The packet has no frame form, or memory is short: NULL is returned and
\* no callback will ever run.
MakeRefused(h) ==
  /\ ApplicationRuns
  /\ fate[h] = "NEW"
  /\ fate' = [fate EXCEPT ![h] = "REFUSED"]
  /\ UNCHANGED <<requestVars, subscriptions, socketVars, callVars,
                 calls, due, age, owed>>

\* Mutant: a subscription is linked in at the head of the list.
SubscribeAtHead(s) ==
  /\ ApplicationRuns
  /\ s \notin ToSet(subscriptions)
  /\ subscriptions' = <<s>> \o subscriptions
  /\ owed' = IF pc = "notify" /\ reply_specifier_matches(SubSpec[s], packet)
             THEN owed \cup {s} ELSE owed
  /\ UNCHANGED <<requestVars, socketVars, callVars, fate, calls, due, age>>

(***************************************************************************)
(* A packet being dispatched also goes to the subscriptions added by the   *)
(* callbacks it runs: they are appended before the walk reaches the end.   *)
(***************************************************************************)
Subscribe(s) ==
  /\ ApplicationRuns
  /\ s \notin ToSet(subscriptions)
  /\ subscriptions' = Append(subscriptions, s)
  /\ owed' = IF pc = "notify" /\ reply_specifier_matches(SubSpec[s], packet)
             THEN owed \cup {s} ELSE owed
  /\ UNCHANGED <<requestVars, socketVars, callVars, fate, calls, due, age>>

\* Mutant: the entry before the last still points to the last after its removal.
RemoveSubscriptionDangling(s) ==
  /\ ApplicationRuns
  /\ s # cursor
  /\ \E i \in DOMAIN subscriptions :
       /\ subscriptions[i] = s
       /\ subscriptions' = IF i > 1 /\ i = Len(subscriptions)
                           THEN subscriptions ELSE RemoveAt(subscriptions, i)
  /\ owed' = owed \ {s}
  /\ UNCHANGED <<requestVars, socketVars, callVars, fate, calls, due, age>>

(***************************************************************************)
(* The walk over the list reads the current subscription's next pointer    *)
(* after its callback, so a callback must not remove the subscription it   *)
(* runs for: the application is assumed not to.  Any other may go.         *)
(***************************************************************************)
RemoveSubscription(s) ==
  /\ ApplicationRuns
  /\ s # cursor
  /\ \E i \in DOMAIN subscriptions :
       /\ subscriptions[i] = s
       /\ subscriptions' = RemoveAt(subscriptions, i)
  /\ owed' = owed \ {s}
  /\ UNCHANGED <<requestVars, socketVars, callVars, fate, calls, due, age>>

-----------------------------------------------------------------------------
(***************************************************************************)
(* mdr_packetconn_process_by_availability, in the order of its code.       *)
(***************************************************************************)
Return(code) ==
  /\ pc' = "idle"
  /\ ret' = code
  /\ readable' = FALSE
  /\ writable' = FALSE
  /\ packet' = None
  /\ cursor' = None

GoTo(label) ==
  /\ pc' = label
  /\ UNCHANGED <<readable, writable, packet, cursor, ret>>

Process(r, w) ==
  /\ pc = "idle"
  /\ pc' = "send"
  /\ readable' = r
  /\ writable' = w
  /\ UNCHANGED <<requestVars, subscriptions, socketVars, packet, cursor, ret, historyVars>>

(***************************************************************************)
(* mdr_frameconn_flush_write never advances in the buffer, so it sends the *)
(* same bytes until the socket refuses: a backlog, once there, never goes. *)
(* It either ends with EAGAIN, which is no step of this module, or fails.  *)
(***************************************************************************)
FlushFails ==
  /\ pc = "send"
  /\ broken
  /\ writable
  /\ backlog
  /\ Return("error")
  /\ UNCHANGED <<requestVars, subscriptions, socketVars, historyVars>>

Current == Head(queue)
Unsent == queue # <<>> /\ attempts[Current] = 0
InFlight == queue # <<>> /\ attempts[Current] # 0

\* Mutant: the deadline itself counts as past.
TimedOutEarly == InFlight /\ timer <= 0

TimedOut == InFlight /\ timer < 0

\* Mutants: the tries are counted one too many, and one too few.
HopelessLate == acked[Current] \/ attempts[Current] > MaxTries
HopelessSoon == acked[Current] \/ attempts[Current] >= MaxTries - 1

Hopeless == acked[Current] \/ attempts[Current] >= MaxTries

\* A first transmission waits for `writable'; a retransmission does not look.
TransmissionDue ==
  \/ Unsent /\ writable
  \/ TimedOut /\ ~Hopeless

Transmit ==
  /\ pc = "send"
  /\ TransmissionDue
  /\ ~broken
  /\ attempts' = [attempts EXCEPT ![Current] = @ + 1]
  /\ timer' = AckTimeout
  /\ age' = IF Unsent THEN 0 ELSE age
  /\ GoTo("read")
  /\ UNCHANGED <<queue, next_sequence_id, sequence_id, acked, subscriptions, socketVars,
                 fate, calls, due, owed>>

\* The socket is full, and what it did not take of the frame is buffered, be
\* it all of it; or the buffer has no room for the frame, and nothing of it is
\* buffered.  The transmission does not count.  Without a backlog, only a
\* frame larger than the whole buffer finds no room.
TransmitBlocked ==
  /\ pc = "send"
  /\ TransmissionDue
  /\ WritesBlock
  /\ ~broken
  /\ backlog' \in {backlog, TRUE}
  /\ GoTo("read")
  /\ UNCHANGED <<requestVars, subscriptions, broken, historyVars>>

\* The link is gone, or there is no memory for the escaped frame.
TransmitFails ==
  /\ pc = "send"
  /\ TransmissionDue
  /\ Return("error")
  /\ UNCHANGED <<requestVars, subscriptions, socketVars, historyVars>>

NothingToSend ==
  /\ pc = "send"
  /\ ~TransmissionDue
  /\ ~(TimedOut /\ Hopeless)
  /\ GoTo("read")
  /\ UNCHANGED <<requestVars, subscriptions, socketVars, historyVars>>

\* The history of a request whose callback is called now.
Ends(h, ending) ==
  /\ fate' = [fate EXCEPT ![h] = ending]
  /\ calls' = [calls EXCEPT ![h] = @ + 1]
  /\ due' = IF ending = "NO_ACK" THEN sequence_id[h] ELSE 1 - sequence_id[h]

\* Mutant: the sequence id of an unacknowledged request is not taken back.
GiveUpKeepingId ==
  /\ pc = "send"
  /\ TimedOut
  /\ Hopeless
  /\ Ends(Current, IF acked[Current] THEN "NO_REPLY" ELSE "NO_ACK")
  /\ GoTo("errcb")
  /\ UNCHANGED <<queue, next_sequence_id, sequence_id, attempts, acked, timer,
                 subscriptions, socketVars, age, owed>>

\* The error callback is called while the request is still first in line.
GiveUp ==
  /\ pc = "send"
  /\ TimedOut
  /\ Hopeless
  /\ next_sequence_id' = IF acked[Current] THEN next_sequence_id
                                           ELSE 1 - next_sequence_id
  /\ Ends(Current, IF acked[Current] THEN "NO_REPLY" ELSE "NO_ACK")
  /\ GoTo("errcb")
  /\ UNCHANGED <<queue, sequence_id, attempts, acked, timer, subscriptions, socketVars,
                 age, owed>>

\* Mutant: the next sequence id is handed out without turning it over.
advance_frame_queue_same_id ==
  /\ queue' = Tail(queue)
  /\ timer' = 0
  /\ IF Len(queue) = 1
     THEN UNCHANGED sequence_id
     ELSE sequence_id' = [sequence_id EXCEPT ![queue[2]] = next_sequence_id]
  /\ UNCHANGED next_sequence_id

\* The first request leaves the queue and its successor gets its sequence id.
advance_frame_queue ==
  /\ queue' = Tail(queue)
  /\ timer' = 0
  /\ IF Len(queue) = 1
     THEN UNCHANGED <<sequence_id, next_sequence_id>>
     ELSE /\ sequence_id' = [sequence_id EXCEPT ![queue[2]] = next_sequence_id]
          /\ next_sequence_id' = 1 - next_sequence_id

\* Mutant: the request whose error was reported stays in line.
ErrorCallbackLeavesRequest ==
  /\ pc = "errcb"
  /\ GoTo("read")
  /\ UNCHANGED <<requestVars, subscriptions, socketVars, historyVars>>

ErrorCallbackReturns ==
  /\ pc = "errcb"
  /\ advance_frame_queue
  /\ GoTo("read")
  /\ UNCHANGED <<attempts, acked, subscriptions, socketVars, historyVars>>

-----------------------------------------------------------------------------
(***************************************************************************)
(* The reading half.                                                       *)
(***************************************************************************)
ReadSkipped ==
  /\ pc = "read"
  /\ ~readable
  /\ Return("ok")
  /\ UNCHANGED <<requestVars, subscriptions, socketVars, historyVars>>

\* No complete frame has arrived yet: EAGAIN.
ReadNothing ==
  /\ pc = "read"
  /\ readable
  /\ ~broken
  /\ Return("ok")
  /\ UNCHANGED <<requestVars, subscriptions, socketVars, historyVars>>

\* The socket reports an error.  The test `errno = EAGAIN || ...' assigns,
\* and the call returns 0 all the same.
ReadFails ==
  /\ pc = "read"
  /\ readable
  /\ broken
  /\ Return("ok")
  /\ UNCHANGED <<requestVars, subscriptions, socketVars, historyVars>>

\* Mutants: the sequence id is not looked at, and it is not turned over.
AckExpectedAnyId(f) == queue # <<>> /\ ~acked[Current]
AckExpectedSameId(f) ==
  queue # <<>> /\ ~acked[Current] /\ f.sequence_id = sequence_id[Current]

\* An ACK counts for the first request whether or not that has been sent.
AckExpected(f) ==
  /\ queue # <<>>
  /\ ~acked[Current]
  /\ f.sequence_id = 1 - sequence_id[Current]

ReadsAck(f) == pc = "read" /\ readable /\ f.data_type = "ACK"

\* Mutant: the ACK ends getters too.
AckCompletesAny(f) ==
  /\ ReadsAck(f)
  /\ AckExpected(f)
  /\ Ends(Current, "RESULT")
  /\ advance_frame_queue
  /\ GoTo("resultcb")
  /\ UNCHANGED <<attempts, acked, subscriptions, socketVars, age, owed>>

AckCompletes(f) ==
  /\ ReadsAck(f)
  /\ AckExpected(f)
  /\ RequestSpec[Current].only_ack
  /\ Ends(Current, "RESULT")
  /\ advance_frame_queue
  /\ GoTo("resultcb")
  /\ UNCHANGED <<attempts, acked, subscriptions, socketVars, age, owed>>

AckAwaitsReply(f) ==
  /\ ReadsAck(f)
  /\ AckExpected(f)
  /\ ~RequestSpec[Current].only_ack
  /\ acked' = [acked EXCEPT ![Current] = TRUE]
  /\ timer' = ReplyTimeout
  /\ Return("ok")
  /\ UNCHANGED <<queue, next_sequence_id, sequence_id, attempts, subscriptions, socketVars,
                 historyVars>>

AckIgnored(f) ==
  /\ ReadsAck(f)
  /\ ~AckExpected(f)
  /\ Return("ok")
  /\ UNCHANGED <<requestVars, subscriptions, socketVars, historyVars>>

ReadOther(f) ==
  /\ pc = "read"
  /\ readable
  /\ f.data_type = "OTHER"
  /\ Return("ok")
  /\ UNCHANGED <<requestVars, subscriptions, socketVars, historyVars>>

(***************************************************************************)
(* A data frame is first acknowledged, writable or not.  That the write    *)
(* fails is ignored; if it blocks, the rest of the ACK is buffered.        *)
(***************************************************************************)
ReadsData(f) ==
  /\ pc = "read"
  /\ readable
  /\ f.data_type = "DATA_MDR"
  /\ backlog' \in {backlog, backlog \/ (WritesBlock /\ ~broken)}
  /\ UNCHANGED broken

ReadMalformed(f) ==
  /\ ReadsData(f)
  /\ f.packet = None
  /\ Return("error")
  /\ UNCHANGED <<requestVars, subscriptions, historyVars>>

\* Neither only_ack nor acked nor attempts is looked at.
IsReply(f) ==
  /\ f.packet # None
  /\ queue # <<>>
  /\ reply_specifier_matches(RequestSpec[Current], f.packet)

ReadReply(f) ==
  /\ ReadsData(f)
  /\ IsReply(f)
  /\ Ends(Current, "RESULT")
  /\ advance_frame_queue
  /\ GoTo("resultcb")
  /\ UNCHANGED <<attempts, acked, subscriptions, age, owed>>

ResultCallbackReturns ==
  /\ pc = "resultcb"
  /\ Return("ok")
  /\ UNCHANGED <<requestVars, subscriptions, socketVars, historyVars>>

\* The places in the list, from place i on, whose specifier the packet matches.
MatchingFrom(i, p) ==
  {j \in DOMAIN subscriptions :
     j >= i /\ reply_specifier_matches(SubSpec[subscriptions[j]], p)}

\* The walk reaches place Min(places) and calls the callback there.
Notify(places, p) ==
  /\ pc' = "notify"
  /\ packet' = p
  /\ cursor' = subscriptions[Min(places)]
  /\ UNCHANGED <<readable, writable, ret>>

ReadNotification(f) ==
  /\ ReadsData(f)
  /\ f.packet # None
  /\ ~IsReply(f)
  /\ MatchingFrom(1, f.packet) # {}
  /\ Notify(MatchingFrom(1, f.packet), f.packet)
  /\ owed' = {s \in ToSet(subscriptions) :
                reply_specifier_matches(SubSpec[s], f.packet)} \ {cursor'}
  /\ UNCHANGED <<requestVars, subscriptions, fate, calls, due, age>>

ReadUnexpected(f) ==
  /\ ReadsData(f)
  /\ f.packet # None
  /\ ~IsReply(f)
  /\ MatchingFrom(1, f.packet) = {}
  /\ Return("ok")
  /\ UNCHANGED <<requestVars, subscriptions, historyVars>>

\* The places the walk has still to visit.
Ahead == MatchingFrom(Min({i \in DOMAIN subscriptions : subscriptions[i] = cursor}) + 1,
                      packet)

NotifyNext ==
  /\ pc = "notify"
  /\ Ahead # {}
  /\ Notify(Ahead, packet)
  /\ owed' = owed \ {cursor'}
  /\ UNCHANGED <<requestVars, subscriptions, socketVars, fate, calls, due, age>>

NotifyEnds ==
  /\ pc = "notify"
  /\ Ahead = {}
  /\ Return("ok")
  /\ UNCHANGED <<requestVars, subscriptions, socketVars, historyVars>>

-----------------------------------------------------------------------------
(***************************************************************************)
(* mdr_packetconn_close and _free.  The application may not call them from *)
(* a callback: the call in progress would go on with freed memory.  The    *)
(* requests are abandoned in order; their error callbacks may make new     *)
(* ones, which land at the end of the same list.                           *)
(***************************************************************************)
\* Call the first abandoned request's callback, or free the subscriptions.
AbandonFirst(requests) ==
  IF requests = <<>>
  THEN /\ pc' = "closed"
       /\ subscriptions' = <<>>
       /\ UNCHANGED <<fate, calls, due>>
  ELSE /\ pc' = "closing"
       /\ Ends(Head(requests), "CLOSED")
       /\ UNCHANGED subscriptions

Close ==
  /\ pc = "idle"
  /\ AbandonFirst(queue)
  /\ UNCHANGED <<requestVars, socketVars, readable, writable, packet, cursor, ret, age, owed>>

\* Mutant: only the first request is abandoned.
CloseAbandonsOne ==
  /\ pc = "closing"
  /\ queue' = Tail(queue)
  /\ pc' = "closed"
  /\ subscriptions' = <<>>
  /\ UNCHANGED <<next_sequence_id, sequence_id, attempts, acked, timer, socketVars,
                 readable, writable, packet, cursor, ret, fate, calls, due, age, owed>>

CloseCallbackReturns ==
  /\ pc = "closing"
  /\ queue' = Tail(queue)
  /\ AbandonFirst(Tail(queue))
  /\ UNCHANGED <<next_sequence_id, sequence_id, attempts, acked, timer, socketVars,
                 readable, writable, packet, cursor, ret, age, owed>>

(***************************************************************************)
(* Time passes.  A call of the library reads the clock once, at its start, *)
(* so the ticks of a call may as well all come after it.                   *)
(***************************************************************************)
Tick ==
  /\ pc = "idle"
  /\ InFlight
  /\ timer' = IF timer < 0 THEN timer ELSE timer - 1
  /\ age' = IF age < AgeBound THEN age + 1 ELSE age
  /\ UNCHANGED <<queue, next_sequence_id, sequence_id, attempts, acked, subscriptions,
                 socketVars, callVars, fate, calls, due, owed>>

\* The headset is switched off or carried away.
LinkBreaks ==
  /\ pc # "closed"
  /\ ~broken
  /\ broken' = TRUE
  /\ UNCHANGED <<requestVars, subscriptions, backlog, callVars, historyVars>>

-----------------------------------------------------------------------------
Application ==
  \/ \E h \in Requests : MakeRequest(h) \/ MakeRefused(h)
  \/ \E s \in Subscriptions : Subscribe(s) \/ RemoveSubscription(s)
  \/ \E r, w \in BOOLEAN : Process(r, w)
  \/ Close

Sending ==
  \/ FlushFails
  \/ Transmit
  \/ TransmitBlocked
  \/ TransmitFails
  \/ NothingToSend
  \/ GiveUp

Reading ==
  \/ ReadSkipped
  \/ ReadNothing
  \/ ReadFails
  \/ \E f \in Frame :
       \/ AckCompletes(f)
       \/ AckAwaitsReply(f)
       \/ AckIgnored(f)
       \/ ReadOther(f)
       \/ ReadMalformed(f)
       \/ ReadReply(f)
       \/ ReadNotification(f)
       \/ ReadUnexpected(f)

CallbackReturns ==
  \/ ErrorCallbackReturns
  \/ ResultCallbackReturns
  \/ NotifyNext
  \/ NotifyEnds
  \/ CloseCallbackReturns

\* The connection has been freed: nothing more can happen to it.
Closed == pc = "closed" /\ UNCHANGED vars

Next == Application \/ Sending \/ Reading \/ CallbackReturns \/ Tick \/ LinkBreaks
          \/ Closed

Spec == Init /\ [][Next]_vars
-----------------------------------------------------------------------------
(***************************************************************************)
(* mdr_packetconn_poll_info, and the loop the header asks the application  *)
(* for: poll for reading, for writing if `write' says so, and no longer    *)
(* than `timeout'; then call process with what poll reported.              *)
(***************************************************************************)
\* Mutant: a request that was never sent does not ask for POLLOUT.
poll_write_retries_only == backlog \/ TimedOut

poll_write == backlog \/ Unsent \/ TimedOut
poll_timeout == IF InFlight THEN Max({timer, 0}) ELSE -1

PollTimesOut == poll_timeout = 0 /\ \E r, w \in BOOLEAN : (w => poll_write) /\ Process(r, w)
PollWritable == poll_write /\ \E r \in BOOLEAN : Process(r, TRUE)

(***************************************************************************)
(* The loop does not ignore a poll that ended by its timeout, and a socket *)
(* polled for writing becomes writable again and again, and takes a whole  *)
(* frame again and again: a Bluetooth link that never drains is a link     *)
(* that is lost, and frames are taken to fit in the write buffer.          *)
(* That is not assumed of a socket which every call floods with the        *)
(* backlog before it writes anything else.  Calls and callbacks return,    *)
(* and the callbacks of a packet do not add subscriptions to it for ever.  *)
(* Nothing is assumed of reading: the headset may stay silent.             *)
(***************************************************************************)
Fairness ==
  /\ SF_vars(Tick)
  /\ WF_vars(PollTimesOut)
  /\ SF_vars(PollWritable)
  /\ WF_vars(Sending)
  /\ SF_vars(~backlog /\ Transmit)
  /\ WF_vars(Reading)
  /\ WF_vars(CallbackReturns)
  /\ SF_vars(NotifyEnds)

FairSpec == Spec /\ Fairness

-----------------------------------------------------------------------------
\* The callback of a request that is still first in the list runs.
EndingFirst == pc \in {"errcb", "closing"}

(***************************************************************************)
(* The requests that wait for their end.  While an error callback runs the *)
(* request it ends is still first in the list.                             *)
(***************************************************************************)
Outstanding == IF EndingFirst THEN Tail(queue) ELSE queue

(***************************************************************************)
(* The shape of a call in progress, which its callbacks rely on: while an  *)
(* error callback runs its request is still first in line; while a packet  *)
(* is dispatched it is in hand, and the subscription whose callback runs   *)
(* is in the list.                                                         *)
(***************************************************************************)
CallShape ==
  /\ EndingFirst => queue # <<>>
  /\ pc = "notify" => packet # None /\ cursor \in ToSet(subscriptions)

(***************************************************************************)
(* Every request that was accepted is called back exactly once, and until  *)
(* then it is in the queue: none is lost and none is ended twice, whatever *)
(* the callbacks do.                                                       *)
(***************************************************************************)
CalledBackOnce ==
  \A h \in Requests :
    /\ calls[h] = IF fate[h] \in Endings THEN 1 ELSE 0
    /\ fate[h] = "PENDING" <=> h \in ToSet(Outstanding)

(***************************************************************************)
(* The alternating bit: the request first in line carries the sequence id  *)
(* that a receiver waits for which has seen every request but those that   *)
(* were given up without an ACK, although ids are handed out at three      *)
(* places and taken back at a fourth.                                      *)
(***************************************************************************)
AlternatingSequenceId ==
  pc \notin {"errcb", "closing", "closed"} =>
    IF queue = <<>>
    THEN next_sequence_id = due
    ELSE sequence_id[Current] = due /\ next_sequence_id = 1 - due

(***************************************************************************)
(* Stop and wait: only the first request in line has ever been written or  *)
(* acknowledged.  And the reason given to an error callback is true:       *)
(* NO_ACK after all tries and no ACK, NO_REPLY after an ACK.               *)
(***************************************************************************)
StopAndWait ==
  \A h \in Requests :
    /\ fate[h] = "PENDING" /\ (attempts[h] # 0 \/ acked[h]) => h = Current
    /\ fate[h] = "NO_ACK" => attempts[h] = MaxTries /\ ~acked[h]
    /\ fate[h] = "NO_REPLY" => attempts[h] > 0 /\ acked[h]

(***************************************************************************)
(* A request is not given up early: NO_ACK only after the ACK timeout has  *)
(* passed once for each of its tries, NO_REPLY not before either timeout   *)
(* has passed since it was first sent.                                     *)
(***************************************************************************)
NotGivenUpEarly ==
  pc = "errcb" =>
    age >= IF fate[Current] = "NO_ACK" THEN AgeBound
                                       ELSE Min({AckTimeout, ReplyTimeout}) + 1

(***************************************************************************)
(* When the dispatch of a packet ends, every subscription that matches it  *)
(* and was not removed meanwhile has been called, the ones made by the     *)
(* callbacks included.                                                     *)
(***************************************************************************)
EverySubscriberNotified == pc # "notify" => owed = {}

(***************************************************************************)
(* One dispatch calls no subscription twice, and none that was removed.    *)
(* (A walk that stayed where it is would change nothing here; it would     *)
(* keep the call from returning, and EveryRequestEnds from holding.)       *)
(***************************************************************************)
NotifiedOnce == [][NotifyNext => cursor' \in owed]_vars

(***************************************************************************)
(* Every accepted request ends, unless the link breaks or a write blocks:  *)
(* its callback is called though the headset never answers.  It is         *)
(* poll_info that has to wake the loop for it.                             *)
(***************************************************************************)
EveryRequestEnds ==
  \A h \in Requests :
    fate[h] = "PENDING" ~> (fate[h] # "PENDING" \/ broken \/ backlog)

(***************************************************************************)
(* Closing ends, when callbacks do, and it ends every request there is.    *)
(***************************************************************************)
CloseEnds == pc = "closing" ~> (pc = "closed" /\ \A h \in Requests : fate[h] # "PENDING")
-----------------------------------------------------------------------------
(***************************************************************************)
(* The invariants above, made inductive.                                   *)
(*                                                                         *)
(* While an error callback runs, the id that the next request in line is   *)
(* going to get has been taken back or not, as the receiver's view of the  *)
(* failed request requires.                                                *)
(***************************************************************************)
SequenceIdInv ==
  /\ AlternatingSequenceId
  /\ pc = "errcb" => next_sequence_id = due

\* No request is in line twice.
QueueInv == CalledBackOnce /\ IsInjective(Outstanding)

\* A request that was not made yet has no transmission and no ACK on record,
\* and the request whose error callback runs has ended.
StopAndWaitInv ==
  /\ StopAndWait
  /\ \A h \in Requests : fate[h] = "NEW" => attempts[h] = 0 /\ ~acked[h]
  /\ EndingFirst => fate[Current] \in Endings

-----------------------------------------------------------------------------
(***************************************************************************)
(* The connection implements the contract on requests: a request ends, as  *)
(* the contract sees it, when its callback is called, before its record    *)
(* leaves the queue in the case of an error and after it in the case of a  *)
(* result, with the application's own requests made in between.            *)
(***************************************************************************)
Phase == IF pc \in {"closing", "closed"} THEN pc ELSE "open"

Contract == INSTANCE RequestContract
              WITH pending <- Outstanding, phase <- Phase

KeepsRequestContract == Contract!Spec
=============================================================================
