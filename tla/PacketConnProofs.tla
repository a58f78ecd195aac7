-------------------------- MODULE PacketConnProofs --------------------------
(***************************************************************************)
(* Theorems about PacketConn, for any number of requests, subscriptions,   *)
(* packets and tries and any timeouts: its types and the shape of a call,  *)
(* and on these its safety: the alternating bit, the exactly-once          *)
(* callbacks and the contract on requests, that nothing is given up early, *)
(* and that a packet reaches each of its subscribers, once.                *)
(*                                                                         *)
(* And, from LinkTypes on, about PacketLink: that the connection of the    *)
(* composed system is the connection of PacketConn, so that what is proved *)
(* of that holds there too, and what sequence ids and ACKs achieve         *)
(* together with a headset that answers in time, and with one that does    *)
(* not, for any room in the channel.  The theorems before use nothing of   *)
(* PacketLink.                                                             *)
(***************************************************************************)
EXTENDS PacketLink, SequenceTheorems, WellFoundedInduction, TLAPS

-----------------------------------------------------------------------------
(***************************************************************************)
(* Type correctness.                                                       *)
(***************************************************************************)

\* The bound of the history counter `age' is a number.
LEMMA AgeBoundType == AgeBound \in Nat
  BY TimeoutAssumption DEF AgeBound

\* The smallest element of a set of numbers is one of them.
LEMMA MinIsElement ==
  ASSUME NEW S, S \subseteq Nat, S # {}
  PROVE  Min(S) \in S /\ \A n \in S : Min(S) <= n
<1> DEFINE R == OpToRel(<, Nat)
<1>1. \A x, y \in Nat : x < y => <<x, y>> \in R
  BY DEF OpToRel
<1>2. IsWellFoundedOn(R, Nat)
  BY NatLessThanWellFounded
<1> HIDE DEF R
<1>3. \E n \in S : \A m \in S : ~ (<<m, n>> \in R)
  BY <1>2, WFMin
<1>4. PICK n \in S : \A m \in S : ~ (<<m, n>> \in R)
  BY <1>3
<1>5. \A m \in S : ~ (m < n)
  BY <1>1, <1>4
<1>6. \A m \in S : n <= m
  BY <1>5
<1> QED
  BY <1>6 DEF Min

LEMMA InitType == Init => TypeOK
<1> SUFFICES ASSUME Init PROVE TypeOK
  OBVIOUS
<1> USE DEF Init
<1>1. queue \in Seq(Requests) /\ subscriptions \in Seq(Subscriptions)
  BY EmptySeq
<1>2. attempts \in [Requests -> 0..MaxTries]
  BY TimeoutAssumption
<1>3. timer \in -1..(AckTimeout + ReplyTimeout) /\ age \in 0..AgeBound
  BY AgeBoundType, TimeoutAssumption
<1>4. /\ sequence_id \in [Requests -> {0, 1}]
      /\ acked \in [Requests -> BOOLEAN]
      /\ fate \in [Requests -> Fates]
      /\ calls \in [Requests -> Nat]
  BY DEF Fates
<1>5. RequestTypeOK /\ SubscriptionTypeOK
  BY <1>1, <1>2, <1>3, <1>4 DEF RequestTypeOK, SubscriptionTypeOK
<1>6. HistoryTypeOK
  BY <1>3, <1>4 DEF HistoryTypeOK
<1>7. CallTypeOK /\ SocketTypeOK
  BY DEF CallTypeOK, SocketTypeOK, PCs
<1> QED
  BY <1>5, <1>6, <1>7 DEF TypeOK

\* The requests a step can be about, and the line behind the first.
LEMMA CurrentType ==
  ASSUME RequestTypeOK, queue # <<>>
  PROVE  /\ Current \in Requests
         /\ Tail(queue) \in Seq(Requests)
         /\ Len(queue) # 1 => queue[2] \in Requests
<1>1. Current \in Requests /\ Tail(queue) \in Seq(Requests)
  BY HeadTailProperties DEF RequestTypeOK, Current
<1>2. Len(queue) \in Nat /\ Len(queue) # 0
  BY EmptySeq, LenProperties DEF RequestTypeOK
<1>3. \A n \in Nat : n # 0 /\ n # 1 => 2 \in 1..n
  OBVIOUS
<1> QED
  BY <1>1, <1>2, <1>3, ElementOfSeq DEF RequestTypeOK

\* What a step leaves alone keeps its type.
LEMMA UnchangedTypes ==
  ASSUME TypeOK
  PROVE  /\ UNCHANGED requestVars => RequestTypeOK'
         /\ UNCHANGED subscriptions => SubscriptionTypeOK'
         /\ UNCHANGED socketVars => SocketTypeOK'
         /\ UNCHANGED callVars => CallTypeOK'
         /\ UNCHANGED historyVars => HistoryTypeOK'
  BY DEF TypeOK, RequestTypeOK, SubscriptionTypeOK, SocketTypeOK, CallTypeOK,
         HistoryTypeOK, requestVars, socketVars, callVars, historyVars

LEMMA ReturnType ==
  ASSUME TypeOK, NEW code \in {"ok", "error"}, Return(code)
  PROVE  CallTypeOK'
  BY DEF TypeOK, CallTypeOK, Return, PCs

LEMMA GoToType ==
  ASSUME TypeOK, NEW label \in PCs, GoTo(label)
  PROVE  CallTypeOK'
  BY DEF TypeOK, CallTypeOK, GoTo

LEMMA EndsType ==
  ASSUME TypeOK, NEW h \in Requests, NEW ending \in Endings, Ends(h, ending),
         UNCHANGED <<age, owed>>
  PROVE  HistoryTypeOK'
<1>1. fate' \in [Requests -> Fates]
  BY DEF TypeOK, HistoryTypeOK, Ends, Fates
<1>2. calls' \in [Requests -> Nat]
  BY DEF TypeOK, HistoryTypeOK, Ends
<1>3. due' \in {0, 1}
  BY DEF TypeOK, RequestTypeOK, Ends
<1> QED
  BY <1>1, <1>2, <1>3 DEF TypeOK, HistoryTypeOK

LEMMA AdvanceType ==
  ASSUME TypeOK, queue # <<>>, advance_frame_queue, UNCHANGED <<attempts, acked>>
  PROVE  RequestTypeOK'
<1>1. Tail(queue) \in Seq(Requests) /\ (Len(queue) # 1 => queue[2] \in Requests)
  BY CurrentType DEF TypeOK
<1>2. next_sequence_id' \in {0, 1}
  BY DEF TypeOK, RequestTypeOK, advance_frame_queue
<1>3. sequence_id' \in [Requests -> {0, 1}]
  BY <1>1 DEF TypeOK, RequestTypeOK, advance_frame_queue
<1> QED
  BY <1>1, <1>2, <1>3, TimeoutAssumption DEF TypeOK, RequestTypeOK, advance_frame_queue

LEMMA MakeRequestType ==
  ASSUME TypeOK, NEW h \in Requests, MakeRequest(h)
  PROVE  TypeOK'
<1>1. queue' \in Seq(Requests)
  BY AppendProperties DEF TypeOK, RequestTypeOK, MakeRequest, Enqueue
<1>2. next_sequence_id' \in {0, 1}
  BY DEF TypeOK, RequestTypeOK, MakeRequest
<1>3. sequence_id' \in [Requests -> {0, 1}]
  BY DEF TypeOK, RequestTypeOK, MakeRequest
<1>4. RequestTypeOK'
  BY <1>1, <1>2, <1>3 DEF TypeOK, RequestTypeOK, MakeRequest
<1>5. HistoryTypeOK'
  BY DEF TypeOK, HistoryTypeOK, MakeRequest, Fates
<1> QED
  BY <1>4, <1>5, UnchangedTypes DEF TypeOK, MakeRequest
LEMMA SubscribeType ==
  ASSUME TypeOK, NEW s \in Subscriptions, Subscribe(s)
  PROVE  TypeOK'
<1>1. SubscriptionTypeOK'
  BY AppendProperties DEF TypeOK, SubscriptionTypeOK, Subscribe
<1>2. HistoryTypeOK'
  BY DEF TypeOK, HistoryTypeOK, Subscribe
<1> QED
  BY <1>1, <1>2, UnchangedTypes DEF TypeOK, Subscribe

LEMMA RemoveSubscriptionType ==
  ASSUME TypeOK, NEW s \in Subscriptions, RemoveSubscription(s)
  PROVE  TypeOK'
<1>1. PICK i \in DOMAIN subscriptions : subscriptions' = RemoveAt(subscriptions, i)
  BY DEF RemoveSubscription
<1>2. i \in 1..Len(subscriptions) /\ Len(subscriptions) \in Nat
  BY LenProperties DEF TypeOK, SubscriptionTypeOK
<1>3. /\ SubSeq(subscriptions, 1, i - 1) \in Seq(Subscriptions)
      /\ SubSeq(subscriptions, i + 1, Len(subscriptions)) \in Seq(Subscriptions)
  <2>1. 1 \in 1..(Len(subscriptions) + 1) /\ i - 1 \in 0..Len(subscriptions)
    BY <1>2
  <2>2. i + 1 \in 1..(Len(subscriptions) + 1)
        /\ Len(subscriptions) \in i..Len(subscriptions)
    BY <1>2
  <2>3. \A m \in 1..(Len(subscriptions) + 1), n \in 0..Len(subscriptions) :
          m - 1 <= n => SubSeq(subscriptions, m, n) \in Seq(Subscriptions)
    BY <1>2, SubSeqProperties DEF TypeOK, SubscriptionTypeOK
  <2> QED
    BY <1>2, <2>1, <2>2, <2>3
<1>4. SubscriptionTypeOK'
  BY <1>1, <1>3, ConcatProperties DEF SubscriptionTypeOK, RemoveAt
<1>5. HistoryTypeOK'
  BY DEF TypeOK, HistoryTypeOK, RemoveSubscription
<1> QED
  BY <1>4, <1>5, UnchangedTypes DEF TypeOK, RemoveSubscription

\* The steps that only move through the code, or only touch the socket.
LEMMA PlainStepType ==
  ASSUME TypeOK,
         \/ \E h \in Requests : MakeRefused(h)
         \/ \E r, w \in BOOLEAN : Process(r, w)
         \/ FlushFails \/ TransmitBlocked \/ TransmitFails \/ NothingToSend
         \/ ReadSkipped \/ ReadNothing \/ ReadFails
         \/ \E f \in Frame :
              AckIgnored(f) \/ ReadOther(f) \/ ReadMalformed(f) \/ ReadUnexpected(f)
         \/ ResultCallbackReturns \/ NotifyEnds
         \/ LinkBreaks \/ Closed
  PROVE  TypeOK'
<1>1. ASSUME NEW h \in Requests, MakeRefused(h) PROVE TypeOK'
  <2>1. HistoryTypeOK'
    BY <1>1 DEF TypeOK, HistoryTypeOK, MakeRefused, Fates
  <2> QED
    BY <1>1, <2>1, UnchangedTypes DEF TypeOK, MakeRefused
<1>2. ASSUME NEW r \in BOOLEAN, NEW w \in BOOLEAN, Process(r, w) PROVE TypeOK'
  <2>1. CallTypeOK'
    BY <1>2 DEF TypeOK, CallTypeOK, Process, PCs
  <2> QED
    BY <1>2, <2>1, UnchangedTypes DEF TypeOK, Process
<1>3. CASE FlushFails \/ TransmitFails
  BY <1>3, ReturnType, UnchangedTypes DEF TypeOK, FlushFails, TransmitFails
<1>4. ASSUME NEW f \in Frame, ReadsData(f) PROVE SocketTypeOK'
  BY <1>4, SocketAssumption DEF TypeOK, SocketTypeOK, ReadsData
<1>5. CASE TransmitBlocked
  BY <1>5, GoToType, UnchangedTypes DEF TypeOK, SocketTypeOK, TransmitBlocked, PCs
<1>6. CASE NothingToSend
  BY <1>6, GoToType, UnchangedTypes DEF TypeOK, NothingToSend, PCs
<1>7. CASE ReadSkipped \/ ReadNothing \/ ReadFails
  BY <1>7, ReturnType, UnchangedTypes DEF TypeOK, ReadSkipped, ReadNothing, ReadFails
<1>8. ASSUME NEW f \in Frame, AckIgnored(f) \/ ReadOther(f) PROVE TypeOK'
  BY <1>8, ReturnType, UnchangedTypes DEF TypeOK, AckIgnored, ReadOther
<1>9. ASSUME NEW f \in Frame, ReadMalformed(f) \/ ReadUnexpected(f) PROVE TypeOK'
  BY <1>4, <1>9, ReturnType, UnchangedTypes
     DEF TypeOK, ReadMalformed, ReadUnexpected
<1>10. CASE ResultCallbackReturns \/ NotifyEnds
  BY <1>10, ReturnType, UnchangedTypes DEF TypeOK, ResultCallbackReturns, NotifyEnds
<1>11. CASE LinkBreaks
  BY <1>11, UnchangedTypes DEF TypeOK, SocketTypeOK, LinkBreaks
<1>12. CASE Closed
  BY <1>12, UnchangedTypes DEF TypeOK, Closed, vars
<1> QED
  BY <1>1, <1>2, <1>3, <1>5, <1>6, <1>7, <1>8, <1>9, <1>10, <1>11, <1>12

LEMMA TransmitType ==
  ASSUME TypeOK, Transmit
  PROVE  TypeOK'
<1>1. Current \in Requests
  BY CurrentType DEF TypeOK, Transmit, TransmissionDue, Unsent, TimedOut, InFlight
<1>2. attempts[Current] \in 0..MaxTries /\ attempts[Current] < MaxTries
  BY <1>1, TimeoutAssumption
     DEF TypeOK, RequestTypeOK, Transmit, TransmissionDue, Unsent, Hopeless
<1>3. attempts' \in [Requests -> 0..MaxTries]
  BY <1>1, <1>2, TimeoutAssumption DEF TypeOK, RequestTypeOK, Transmit
<1>4. RequestTypeOK'
  BY <1>3, TimeoutAssumption DEF TypeOK, RequestTypeOK, Transmit
<1>5. HistoryTypeOK'
  BY AgeBoundType DEF TypeOK, HistoryTypeOK, Transmit
<1> QED
  BY <1>4, <1>5, GoToType, UnchangedTypes DEF TypeOK, Transmit, PCs

LEMMA GiveUpType ==
  ASSUME TypeOK, GiveUp
  PROVE  TypeOK'
<1>1. Current \in Requests
  BY CurrentType DEF TypeOK, GiveUp, TimedOut, InFlight
<1>2. RequestTypeOK'
  BY DEF TypeOK, RequestTypeOK, GiveUp
<1>3. HistoryTypeOK'
  BY <1>1, EndsType DEF GiveUp, Endings
<1> QED
  BY <1>2, <1>3, GoToType, UnchangedTypes DEF TypeOK, GiveUp, PCs
LEMMA ErrorCallbackReturnsType ==
  ASSUME TypeOK, ErrorCallbackReturns, queue # <<>>
  PROVE  TypeOK'
  BY AdvanceType, GoToType, UnchangedTypes DEF TypeOK, ErrorCallbackReturns, PCs

LEMMA AckCompletesType ==
  ASSUME TypeOK, NEW f \in Frame, AckCompletes(f)
  PROVE  TypeOK'
<1>1. queue # <<>> /\ Current \in Requests
  BY CurrentType DEF TypeOK, AckCompletes, AckExpected
<1>2. HistoryTypeOK'
  BY <1>1, EndsType DEF AckCompletes, Endings
<1> QED
  BY <1>1, <1>2, AdvanceType, GoToType, UnchangedTypes DEF TypeOK, AckCompletes, PCs

LEMMA AckAwaitsReplyType ==
  ASSUME TypeOK, NEW f \in Frame, AckAwaitsReply(f)
  PROVE  TypeOK'
<1>1. Current \in Requests
  BY CurrentType DEF TypeOK, AckAwaitsReply, AckExpected
<1>2. acked' \in [Requests -> BOOLEAN]
  BY <1>1 DEF TypeOK, RequestTypeOK, AckAwaitsReply
<1>3. RequestTypeOK'
  BY <1>2, TimeoutAssumption DEF TypeOK, RequestTypeOK, AckAwaitsReply
<1> QED
  BY <1>3, ReturnType, UnchangedTypes DEF TypeOK, AckAwaitsReply

LEMMA ReadReplyType ==
  ASSUME TypeOK, NEW f \in Frame, ReadReply(f)
  PROVE  TypeOK'
<1>1. queue # <<>> /\ Current \in Requests
  BY CurrentType DEF TypeOK, ReadReply, IsReply
<1>2. HistoryTypeOK'
  BY <1>1, EndsType DEF ReadReply, Endings
<1>3. SocketTypeOK'
  BY SocketAssumption DEF TypeOK, SocketTypeOK, ReadReply, ReadsData
<1> QED
  BY <1>1, <1>2, <1>3, AdvanceType, GoToType, UnchangedTypes DEF TypeOK, ReadReply, PCs

LEMMA NotifyType ==
  ASSUME TypeOK, NEW i \in Int, NEW p \in Packets, MatchingFrom(i, p) # {},
         Notify(MatchingFrom(i, p), p)
  PROVE  CallTypeOK'
<1>1. MatchingFrom(i, p) \subseteq DOMAIN subscriptions
  BY DEF MatchingFrom
<1>2. DOMAIN subscriptions = 1..Len(subscriptions) /\ Len(subscriptions) \in Nat
  BY LenProperties DEF TypeOK, SubscriptionTypeOK
<1>3. Min(MatchingFrom(i, p)) \in 1..Len(subscriptions)
  BY <1>1, <1>2, MinIsElement
<1>4. cursor' \in Subscriptions
  BY <1>3, ElementOfSeq DEF TypeOK, SubscriptionTypeOK, Notify
<1> QED
  BY <1>4 DEF TypeOK, CallTypeOK, Notify, PCs

LEMMA ReadNotificationType ==
  ASSUME TypeOK, NEW f \in Frame, ReadNotification(f)
  PROVE  TypeOK'
<1>1. f.packet \in Packets
  BY DEF ReadNotification, ReadsData, Frame, AckFrame, DataFrame, OtherFrame
<1>2. CallTypeOK'
  BY <1>1, NotifyType DEF ReadNotification
<1>3. ToSet(subscriptions) \subseteq Subscriptions
  BY LenProperties, ElementOfSeq DEF TypeOK, SubscriptionTypeOK, ToSet
<1>4. HistoryTypeOK'
  BY <1>3 DEF TypeOK, HistoryTypeOK, ReadNotification
<1>5. SocketTypeOK'
  BY SocketAssumption DEF TypeOK, SocketTypeOK, ReadNotification, ReadsData
<1> QED
  BY <1>2, <1>4, <1>5, UnchangedTypes DEF TypeOK, ReadNotification

\* While a callback of a dispatch runs there is a packet in hand, and the
\* subscription it runs for is in the list: neither follows from TypeOK.
LEMMA NotifyNextType ==
  ASSUME TypeOK, NotifyNext, packet # None, cursor \in ToSet(subscriptions)
  PROVE  TypeOK'
<1>1. packet \in Packets
  BY DEF TypeOK, CallTypeOK
<1> DEFINE Here == {i \in DOMAIN subscriptions : subscriptions[i] = cursor}
<1>2. Here \subseteq Nat /\ Here # {}
  BY LenProperties DEF TypeOK, SubscriptionTypeOK, ToSet
<1>3. Min(Here) + 1 \in Int
  BY <1>2, MinIsElement
<1>4. CallTypeOK'
  BY <1>1, <1>3, NotifyType DEF NotifyNext, Ahead
<1>5. HistoryTypeOK'
  BY DEF TypeOK, HistoryTypeOK, NotifyNext
<1> QED
  BY <1>4, <1>5, UnchangedTypes DEF TypeOK, NotifyNext

LEMMA AbandonFirstType ==
  ASSUME TypeOK, NEW requests \in Seq(Requests), AbandonFirst(requests),
         UNCHANGED <<readable, writable, packet, cursor, ret, age, owed>>
  PROVE  CallTypeOK' /\ HistoryTypeOK' /\ SubscriptionTypeOK'
<1>1. CASE requests = <<>>
  BY <1>1, EmptySeq DEF TypeOK, AbandonFirst, CallTypeOK, HistoryTypeOK,
                        SubscriptionTypeOK, PCs
<1>2. CASE requests # <<>>
  <2>1. Head(requests) \in Requests
    BY <1>2, HeadTailProperties
  <2>2. HistoryTypeOK'
    BY <1>2, <2>1, EndsType DEF AbandonFirst, Endings
  <2> QED
    BY <1>2, <2>2 DEF TypeOK, AbandonFirst, CallTypeOK, SubscriptionTypeOK, PCs
<1> QED
  BY <1>1, <1>2

LEMMA CloseType ==
  ASSUME TypeOK, Close
  PROVE  TypeOK'
<1>1. CallTypeOK' /\ HistoryTypeOK' /\ SubscriptionTypeOK'
  BY AbandonFirstType DEF TypeOK, RequestTypeOK, Close
<1> QED
  BY <1>1, UnchangedTypes DEF TypeOK, Close

LEMMA CloseCallbackReturnsType ==
  ASSUME TypeOK, CloseCallbackReturns, queue # <<>>
  PROVE  TypeOK'
<1>1. Tail(queue) \in Seq(Requests)
  BY CurrentType DEF TypeOK
<1>2. CallTypeOK' /\ HistoryTypeOK' /\ SubscriptionTypeOK'
  BY <1>1, AbandonFirstType DEF CloseCallbackReturns
<1>3. RequestTypeOK'
  BY <1>1 DEF TypeOK, RequestTypeOK, CloseCallbackReturns
<1> QED
  BY <1>2, <1>3, UnchangedTypes DEF TypeOK, CloseCallbackReturns

LEMMA TickType ==
  ASSUME TypeOK, Tick
  PROVE  TypeOK'
<1>1. RequestTypeOK'
  BY TimeoutAssumption DEF TypeOK, RequestTypeOK, Tick
<1>2. HistoryTypeOK'
  BY AgeBoundType DEF TypeOK, HistoryTypeOK, Tick
<1> QED
  BY <1>1, <1>2, UnchangedTypes DEF TypeOK, Tick
-----------------------------------------------------------------------------
(***************************************************************************)
(* The shape of a call in progress.  It is inductive together with the     *)
(* types, and the types are not inductive without it.                      *)
(***************************************************************************)

\* What is left of a sequence when one place is removed.
LEMMA RemoveAtProperties ==
  ASSUME NEW S, NEW q \in Seq(S), NEW i \in 1..Len(q)
  PROVE  /\ DOMAIN RemoveAt(q, i) = 1..(Len(q) - 1)
         /\ \A k \in 1..(Len(q) - 1) :
              RemoveAt(q, i)[k] = IF k < i THEN q[k] ELSE q[k + 1]
<1> DEFINE n == Len(q)
           front == SubSeq(q, 1, i - 1)
           back == SubSeq(q, i + 1, n)
<1>1. n \in Nat /\ \A k \in 1..n : q[k] \in S
  BY LenProperties, ElementOfSeq
<1>2. /\ front \in Seq(S)
      /\ Len(front) = i - 1
      /\ \A k \in 1..(i - 1) : front[k] = q[k]
  BY <1>1, SubSeqProperties
<1>3. /\ back \in Seq(S)
      /\ Len(back) = n - i
      /\ \A k \in 1..(n - i) : back[k] = q[i + k]
  <2>1. i + 1 \in Int /\ n \in Int /\ \A k \in (i + 1)..n : q[k] \in S
    BY <1>1
  <2>2. /\ back \in Seq(S)
        /\ Len(back) = IF i + 1 <= n THEN n - (i + 1) + 1 ELSE 0
        /\ \A k \in 1..(n - (i + 1) + 1) : back[k] = q[(i + 1) + k - 1]
    BY <2>1, SubSeqProperties
  <2> HIDE DEF back
  <2> QED
    BY <1>1, <2>2
<1>4. RemoveAt(q, i) = front \o back
  BY DEF RemoveAt
<1> HIDE DEF front, back, n
<1>5. /\ front \o back \in Seq(S)
      /\ Len(front \o back) = Len(front) + Len(back)
      /\ \A k \in 1..(Len(front) + Len(back)) :
           (front \o back)[k] = IF k <= Len(front) THEN front[k] ELSE back[k - Len(front)]
  BY <1>2, <1>3, ConcatProperties
<1> DEFINE rest == front \o back
<1>6. DOMAIN rest = 1..Len(rest)
  BY <1>5, LenProperties
<1> HIDE DEF rest
<1>7. i \in 1..n
  BY DEF n
<1>8. Len(rest) = n - 1
  BY <1>1, <1>2, <1>3, <1>5, <1>7 DEF rest
<1>9. ASSUME NEW k \in 1..(n - 1) PROVE rest[k] = IF k < i THEN q[k] ELSE q[k + 1]
  <2>1. k \in 1..(Len(front) + Len(back)) /\ (k <= Len(front) <=> k < i)
    BY <1>1, <1>2, <1>3, <1>7
  <2>2. CASE k < i
    <3>1. k \in 1..(i - 1)
      BY <1>7, <2>2
    <3> QED
      BY <1>2, <1>5, <2>1, <2>2, <3>1 DEF rest
  <2>3. CASE ~(k < i)
    <3>1. k - Len(front) \in 1..(n - i) /\ i + (k - Len(front)) = k + 1
      BY <1>1, <1>2, <1>7, <2>3
    <3> QED
      BY <1>3, <1>5, <2>1, <2>3, <3>1 DEF rest
  <2> QED
    BY <2>2, <2>3
<1> QED
  BY <1>4, <1>6, <1>8, <1>9 DEF rest, n

\* Removing one place of a sequence leaves the element of every other.
LEMMA RemoveAtKeepsOthers ==
  ASSUME NEW S, NEW q \in Seq(S), NEW i \in 1..Len(q), NEW j \in 1..Len(q), i # j
  PROVE  q[j] \in ToSet(RemoveAt(q, i))
<1> DEFINE k == IF j < i THEN j ELSE j - 1
<1>1. Len(q) \in Nat
  BY LenProperties
<1>2. k \in 1..(Len(q) - 1) /\ (IF k < i THEN k ELSE k + 1) = j
  BY <1>1
<1> HIDE DEF k
<1>3. k \in DOMAIN RemoveAt(q, i) /\ RemoveAt(q, i)[k] = q[j]
  BY <1>2, RemoveAtProperties
<1> QED
  BY <1>3 DEF ToSet

\* Removing another subscription leaves the current one in the list.
LEMMA RemovalKeepsCursor ==
  ASSUME TypeOK, NEW s \in Subscriptions, RemoveSubscription(s),
         cursor \in ToSet(subscriptions)
  PROVE  cursor \in ToSet(subscriptions')
<1>1. PICK i \in DOMAIN subscriptions :
        subscriptions[i] = s /\ subscriptions' = RemoveAt(subscriptions, i)
  BY DEF RemoveSubscription
<1>2. PICK j \in DOMAIN subscriptions : subscriptions[j] = cursor
  BY DEF ToSet
<1>3. i # j
  BY <1>1, <1>2 DEF RemoveSubscription
<1> QED
  BY <1>1, <1>2, <1>3, RemoveAtKeepsOthers, LenProperties
     DEF TypeOK, SubscriptionTypeOK

LEMMA AppendNotEmpty ==
  ASSUME NEW S, NEW q \in Seq(S), NEW e \in S
  PROVE  Append(q, e) # <<>>
<1>1. Len(Append(q, e)) = Len(q) + 1 /\ Len(q) \in Nat
  BY AppendProperties, LenProperties
<1>2. Len(<<>>) = 0
  BY EmptySeq
<1> QED
  BY <1>1, <1>2

\* The callback of the first matching subscription is one in the list.
LEMMA NotifyShape ==
  ASSUME TypeOK, NEW i \in Int, NEW p \in Packets, MatchingFrom(i, p) # {},
         Notify(MatchingFrom(i, p), p)
  PROVE  packet' # None /\ cursor' \in ToSet(subscriptions)
<1>1. MatchingFrom(i, p) \subseteq DOMAIN subscriptions
  BY DEF MatchingFrom
<1>2. DOMAIN subscriptions = 1..Len(subscriptions) /\ Len(subscriptions) \in Nat
  BY LenProperties DEF TypeOK, SubscriptionTypeOK
<1>3. Min(MatchingFrom(i, p)) \in DOMAIN subscriptions
  BY <1>1, <1>2, MinIsElement
<1> QED
  BY <1>3, SpecifierAssumption DEF Notify, ToSet

\* The place where a dispatch is, as a number.
LEMMA AheadIsMatching ==
  ASSUME TypeOK, cursor \in ToSet(subscriptions)
  PROVE  \E i \in Int : Ahead = MatchingFrom(i, packet)
<1> DEFINE Here == {i \in DOMAIN subscriptions : subscriptions[i] = cursor}
<1>1. Here \subseteq Nat /\ Here # {}
  BY LenProperties DEF TypeOK, SubscriptionTypeOK, ToSet
<1>2. Min(Here) + 1 \in Int
  BY <1>1, MinIsElement
<1> QED
  BY <1>2 DEF Ahead

LEMMA InitShape == Init => CallShape
  BY DEF Init, CallShape, EndingFirst

\* No step but these can disturb the shape of a call.
LEMMA ShapeStep ==
  ASSUME TypeOK, CallShape, [Next]_vars
  PROVE  CallShape'
<1>1. ASSUME NEW h \in Requests, MakeRequest(h) PROVE CallShape'
  <2>1. queue' # <<>>
    BY <1>1, AppendNotEmpty DEF TypeOK, RequestTypeOK, MakeRequest, Enqueue
  <2> QED
    BY <1>1, <2>1 DEF CallShape, EndingFirst, MakeRequest, callVars
<1>2. ASSUME NEW h \in Requests, MakeRefused(h) PROVE CallShape'
  BY <1>2 DEF CallShape, EndingFirst, MakeRefused, callVars, requestVars
<1>3. ASSUME NEW s \in Subscriptions, Subscribe(s) PROVE CallShape'
  <2>1. ASSUME cursor \in ToSet(subscriptions) PROVE cursor \in ToSet(subscriptions')
    <3>1. PICK i \in DOMAIN subscriptions : subscriptions[i] = cursor
      BY <2>1 DEF ToSet
    <3>2. /\ i \in DOMAIN Append(subscriptions, s)
          /\ Append(subscriptions, s)[i] = cursor
      BY <3>1, AppendProperties, LenProperties DEF TypeOK, SubscriptionTypeOK
    <3> QED
      BY <1>3, <3>2 DEF Subscribe, ToSet
  <2> QED
    BY <1>3, <2>1 DEF CallShape, EndingFirst, Subscribe, callVars, requestVars
<1>4. ASSUME NEW s \in Subscriptions, RemoveSubscription(s) PROVE CallShape'
  BY <1>4, RemovalKeepsCursor
     DEF CallShape, EndingFirst, RemoveSubscription, callVars, requestVars
<1>5. ASSUME \/ \E r, w \in BOOLEAN : Process(r, w)
             \/ FlushFails \/ Transmit \/ TransmitBlocked \/ TransmitFails
             \/ NothingToSend \/ ErrorCallbackReturns
      PROVE  CallShape'
  BY <1>5 DEF CallShape, EndingFirst, Process, FlushFails, Transmit, TransmitBlocked,
              TransmitFails, NothingToSend, ErrorCallbackReturns, Return, GoTo
<1>6. CASE GiveUp
  BY <1>6 DEF CallShape, EndingFirst, GiveUp, TimedOut, InFlight, GoTo
<1>7. ASSUME \/ ReadSkipped \/ ReadNothing \/ ReadFails
             \/ ResultCallbackReturns \/ NotifyEnds
             \/ \E f \in Frame :
                  \/ AckCompletes(f) \/ AckAwaitsReply(f) \/ AckIgnored(f)
                  \/ ReadOther(f) \/ ReadMalformed(f) \/ ReadReply(f)
                  \/ ReadUnexpected(f)
      PROVE  CallShape'
  BY <1>7 DEF CallShape, EndingFirst, ReadSkipped, ReadNothing, ReadFails,
              ResultCallbackReturns, NotifyEnds, AckCompletes, AckAwaitsReply,
              AckIgnored, ReadOther, ReadMalformed, ReadReply, ReadUnexpected,
              Return, GoTo
<1>8. ASSUME NEW f \in Frame, ReadNotification(f) PROVE CallShape'
  <2>1. f.packet \in Packets
    BY <1>8 DEF ReadNotification, ReadsData, Frame, AckFrame, DataFrame, OtherFrame
  <2>2. packet' # None /\ cursor' \in ToSet(subscriptions)
    BY <1>8, <2>1, NotifyShape DEF ReadNotification
  <2> QED
    BY <1>8, <2>2 DEF CallShape, EndingFirst, ReadNotification, Notify
<1>9. CASE NotifyNext
  <2>1. packet \in Packets /\ cursor \in ToSet(subscriptions)
    BY <1>9 DEF TypeOK, CallTypeOK, CallShape, NotifyNext
  <2>2. packet' # None /\ cursor' \in ToSet(subscriptions)
    BY <1>9, <2>1, AheadIsMatching, NotifyShape DEF NotifyNext
  <2> QED
    BY <1>9, <2>2 DEF CallShape, EndingFirst, NotifyNext, Notify
<1>10. CASE Close
  BY <1>10 DEF CallShape, EndingFirst, Close, AbandonFirst, requestVars
<1>11. CASE CloseCallbackReturns
  BY <1>11 DEF CallShape, EndingFirst, CloseCallbackReturns, AbandonFirst
<1>12. ASSUME Tick \/ LinkBreaks \/ Closed \/ UNCHANGED vars PROVE CallShape'
  BY <1>12 DEF CallShape, EndingFirst, Tick, LinkBreaks, Closed, vars, callVars,
               requestVars
<1> QED
  BY <1>1, <1>2, <1>3, <1>4, <1>5, <1>6, <1>7, <1>8, <1>9, <1>10, <1>11, <1>12
     DEF Next, Application, Sending, Reading, CallbackReturns

LEMMA TypeStep ==
  ASSUME TypeOK, CallShape, [Next]_vars
  PROVE  TypeOK'
<1>1. CASE UNCHANGED vars
  BY <1>1, UnchangedTypes DEF TypeOK, vars
<1>2. CASE Application
  BY <1>2, MakeRequestType, SubscribeType, RemoveSubscriptionType, CloseType,
     PlainStepType DEF Application
<1>3. CASE Sending
  BY <1>3, TransmitType, GiveUpType, PlainStepType DEF Sending
<1>4. CASE Reading
  BY <1>4, AckCompletesType, AckAwaitsReplyType, ReadReplyType, ReadNotificationType,
     PlainStepType DEF Reading
<1>5. CASE CallbackReturns
  <2>1. ErrorCallbackReturns \/ CloseCallbackReturns => queue # <<>>
    BY DEF CallShape, EndingFirst, ErrorCallbackReturns, CloseCallbackReturns
  <2>2. NotifyNext => packet # None /\ cursor \in ToSet(subscriptions)
    BY DEF CallShape, NotifyNext
  <2> QED
    BY <1>5, <2>1, <2>2, ErrorCallbackReturnsType, CloseCallbackReturnsType,
       NotifyNextType, PlainStepType DEF CallbackReturns
<1>6. CASE Tick \/ LinkBreaks \/ Closed
  BY <1>6, TickType, PlainStepType
<1> QED
  BY <1>1, <1>2, <1>3, <1>4, <1>5, <1>6 DEF Next

(***************************************************************************)
(* Every variable keeps its type, and the library never calls back without *)
(* what the code that runs after the callback reads: the request that      *)
(* mdr_packetconn_process_by_availability pops after an error callback is  *)
(* still there, and the subscription whose next pointer it follows is      *)
(* still in the list, whatever the callbacks did in between.               *)
(***************************************************************************)
THEOREM TypeAndShapeCorrect == Spec => [](TypeOK /\ CallShape)
<1>1. Init => TypeOK /\ CallShape
  BY InitType, InitShape
<1>2. TypeOK /\ CallShape /\ [Next]_vars => (TypeOK /\ CallShape)'
  BY TypeStep, ShapeStep
<1> QED
  BY <1>1, <1>2, PTL DEF Spec

\* Every variable keeps its type.
THEOREM TypeCorrect == Spec => []TypeOK
<1>1. TypeOK /\ CallShape => TypeOK
  OBVIOUS
<1> QED
  BY <1>1, TypeAndShapeCorrect, PTL

-----------------------------------------------------------------------------
(***************************************************************************)
(* The alternating bit.                                                    *)
(***************************************************************************)

LEMMA AppendKeepsHead ==
  ASSUME NEW S, NEW q \in Seq(S), q # <<>>, NEW e \in S
  PROVE  Head(Append(q, e)) = Head(q)
<1>1. Len(q) \in Nat /\ Len(q) # 0
  BY EmptySeq, LenProperties
<1>2. 1 \in 1..Len(q)
  BY <1>1
<1>3. Append(q, e)[1] = q[1]
  BY <1>2, AppendProperties
<1> QED
  BY <1>3

\* What is first in line once the first request has left.
LEMMA AdvanceHead ==
  ASSUME TypeOK, queue # <<>>
  PROVE  IF Len(queue) = 1 THEN Tail(queue) = <<>>
                           ELSE Tail(queue) # <<>> /\ Head(Tail(queue)) = queue[2]
<1>1. /\ Tail(queue) \in Seq(Requests)
      /\ Len(Tail(queue)) = Len(queue) - 1
      /\ \A i \in 1..Len(Tail(queue)) : Tail(queue)[i] = queue[i + 1]
  BY HeadTailProperties DEF TypeOK, RequestTypeOK
<1>2. Len(queue) \in Nat /\ Len(queue) # 0
  BY EmptySeq, LenProperties DEF TypeOK, RequestTypeOK
<1>3. CASE Len(queue) = 1
  <2>1. Len(Tail(queue)) = 0
    BY <1>1, <1>3
  <2> QED
    BY <1>1, <1>3, <2>1, EmptySeq
<1>4. CASE Len(queue) # 1
  <2>1. Len(Tail(queue)) # 0 /\ 1 \in 1..Len(Tail(queue))
    BY <1>1, <1>2, <1>4
  <2>2. Tail(queue) # <<>>
    BY <2>1, EmptySeq
  <2>3. Tail(queue)[1] = queue[2]
    BY <1>1, <2>1
  <2> QED
    BY <1>4, <2>2, <2>3
<1> QED
  BY <1>3, <1>4

\* advance_frame_queue hands the id that is due to the next in line.
LEMMA AdvanceKeepsId ==
  ASSUME TypeOK, queue # <<>>, advance_frame_queue, next_sequence_id = due'
  PROVE  IF queue' = <<>>
         THEN next_sequence_id' = due'
         ELSE sequence_id'[Head(queue')] = due' /\ next_sequence_id' = 1 - due'
<1>1. CASE Len(queue) = 1
  BY <1>1, AdvanceHead DEF advance_frame_queue
<1>2. CASE Len(queue) # 1
  <2>1. queue[2] \in Requests
    BY <1>2, CurrentType DEF TypeOK
  <2>2. sequence_id'[queue[2]] = next_sequence_id
    BY <1>2, <2>1 DEF advance_frame_queue, TypeOK, RequestTypeOK
  <2> QED
    BY <1>2, <2>2, AdvanceHead DEF advance_frame_queue
<1> QED
  BY <1>1, <1>2

LEMMA SequenceIdStep ==
  ASSUME TypeOK, CallShape, SequenceIdInv, [Next]_vars
  PROVE  SequenceIdInv'
<1> USE DEF SequenceIdInv, AlternatingSequenceId, Current
<1>1. ASSUME NEW h \in Requests, MakeRequest(h) PROVE SequenceIdInv'
  <2>1. queue' # <<>>
    BY <1>1, AppendNotEmpty DEF TypeOK, RequestTypeOK, MakeRequest, Enqueue
  <2>2. CASE queue = <<>>
    <3>1. Head(queue') = h
      BY <1>1, <2>2 DEF MakeRequest, Enqueue
    <3>2. pc # "errcb"
      BY <2>2 DEF CallShape, EndingFirst
    <3>3. sequence_id'[h] = next_sequence_id /\ next_sequence_id' = 1 - next_sequence_id
      BY <1>1, <2>2 DEF MakeRequest, TypeOK, RequestTypeOK
    <3> QED
      BY <1>1, <2>1, <2>2, <3>1, <3>2, <3>3 DEF MakeRequest, callVars
  <2>3. CASE queue # <<>>
    <3>1. Head(queue') = Head(queue)
      BY <1>1, <2>3, AppendKeepsHead DEF TypeOK, RequestTypeOK, MakeRequest, Enqueue
    <3> QED
      BY <1>1, <2>1, <2>3, <3>1 DEF MakeRequest, callVars
  <2> QED
    BY <2>2, <2>3
<1>2. ASSUME \/ \E h \in Requests : MakeRefused(h)
             \/ \E s \in Subscriptions : Subscribe(s) \/ RemoveSubscription(s)
             \/ \E r, w \in BOOLEAN : Process(r, w)
             \/ FlushFails \/ Transmit \/ TransmitBlocked \/ TransmitFails
             \/ NothingToSend
             \/ Tick \/ LinkBreaks \/ Closed \/ UNCHANGED vars
      PROVE  SequenceIdInv'
  BY <1>2 DEF MakeRefused, Subscribe, RemoveSubscription, Process, FlushFails, Transmit,
              TransmitBlocked, TransmitFails, NothingToSend, Tick, LinkBreaks, Closed,
              Return, GoTo, vars, requestVars, callVars, historyVars
<1>3. ASSUME \/ ReadSkipped \/ ReadNothing \/ ReadFails
             \/ ResultCallbackReturns \/ NotifyNext \/ NotifyEnds
             \/ \E f \in Frame :
                  \/ AckAwaitsReply(f) \/ AckIgnored(f) \/ ReadOther(f)
                  \/ ReadMalformed(f) \/ ReadNotification(f) \/ ReadUnexpected(f)
      PROVE  SequenceIdInv'
  BY <1>3 DEF ReadSkipped, ReadNothing, ReadFails, ResultCallbackReturns, NotifyNext,
              NotifyEnds, AckAwaitsReply, AckIgnored, ReadOther, ReadMalformed,
              ReadNotification, ReadUnexpected, ReadsAck, ReadsData, Return, GoTo, Notify,
              requestVars, historyVars
<1>4. CASE GiveUp
  <2>1. queue # <<>> /\ pc = "send" /\ pc' = "errcb"
    BY <1>4 DEF GiveUp, TimedOut, InFlight, GoTo
  <2>2. sequence_id[Current] = due /\ next_sequence_id = 1 - due /\ due \in {0, 1}
    BY <2>1 DEF TypeOK, HistoryTypeOK
  <2>3. next_sequence_id' = due'
    BY <1>4, <2>2 DEF GiveUp, Ends
  <2> QED
    BY <2>1, <2>3
<1>5. ASSUME NEW f \in Frame, AckCompletes(f) \/ ReadReply(f) PROVE SequenceIdInv'
  <2>1. queue # <<>> /\ pc = "read" /\ pc' = "resultcb" /\ advance_frame_queue
    BY <1>5 DEF AckCompletes, ReadReply, ReadsAck, ReadsData, AckExpected, IsReply, GoTo
  <2>2. due' = 1 - sequence_id[Current]
    BY <1>5 DEF AckCompletes, ReadReply, Ends
  <2>3. next_sequence_id = due'
    BY <2>1, <2>2
  <2> QED
    BY <2>1, <2>3, AdvanceKeepsId
<1>6. CASE ErrorCallbackReturns
  <2>1. queue # <<>> /\ pc' = "read" /\ advance_frame_queue /\ next_sequence_id = due'
    BY <1>6 DEF CallShape, EndingFirst, ErrorCallbackReturns, GoTo, historyVars
  <2> QED
    BY <2>1, AdvanceKeepsId
<1>7. CASE Close \/ CloseCallbackReturns
  BY <1>7 DEF Close, CloseCallbackReturns, AbandonFirst
<1> QED
  BY <1>1, <1>2, <1>3, <1>4, <1>5, <1>6, <1>7
     DEF Next, Application, Sending, Reading, CallbackReturns

(***************************************************************************)
(* The first request in line always carries the sequence id the receiver   *)
(* waits for, although packetconn.c hands ids out in make_request and in   *)
(* advance_frame_queue and takes one back when it gives a request up, and  *)
(* callbacks may make requests in between.                                 *)
(***************************************************************************)
THEOREM SequenceIdsAlternate == Spec => []AlternatingSequenceId
<1>1. Init => SequenceIdInv
  BY DEF Init, SequenceIdInv, AlternatingSequenceId
<1>2. TypeOK /\ CallShape /\ SequenceIdInv /\ [Next]_vars => SequenceIdInv'
  BY SequenceIdStep
<1>3. SequenceIdInv => AlternatingSequenceId
  BY DEF SequenceIdInv
<1> QED
  BY <1>1, <1>2, <1>3, TypeAndShapeCorrect, PTL DEF Spec
-----------------------------------------------------------------------------
(***************************************************************************)
(* The queue, as the contract sees it: every step accepts a request,       *)
(* refuses one, ends the oldest, or does nothing to any.                   *)
(***************************************************************************)

LEMMA TailOfAppend ==
  ASSUME NEW S, NEW q \in Seq(S), q # <<>>, NEW e \in S
  PROVE  Tail(Append(q, e)) = Append(Tail(q), e)
<1> DEFINE n == Len(q)
           one == Append(q, e)
           left == Tail(one)
           right == Append(Tail(q), e)
<1>1. n \in Nat /\ n # 0
  BY EmptySeq, LenProperties
<1>2. /\ one \in Seq(S) /\ Len(one) = n + 1 /\ one # <<>>
      /\ \A i \in 1..n : one[i] = q[i]
      /\ one[n + 1] = e
  BY AppendProperties, AppendNotEmpty
<1>3. /\ Tail(q) \in Seq(S) /\ Len(Tail(q)) = n - 1
      /\ \A i \in 1..(n - 1) : Tail(q)[i] = q[i + 1]
  BY HeadTailProperties
<1>4. /\ right \in Seq(S) /\ Len(right) = n
      /\ \A i \in 1..(n - 1) : right[i] = Tail(q)[i]
      /\ right[n] = e
  BY <1>1, <1>3, AppendProperties
<1> HIDE DEF n, one, right
<1>5. left \in Seq(S) /\ Len(left) = n /\ \A i \in 1..n : left[i] = one[i + 1]
  <2>1. left \in Seq(S)
    BY <1>2, HeadTailProperties
  <2>2. Len(left) = Len(one) - 1
    BY <1>2, HeadTailProperties
  <2>3. \A i \in 1..n : left[i] = one[i + 1]
    <3>1. Len(Tail(one)) = n
      BY <1>1, <1>2, <2>2
    <3> QED
      BY <1>2, <3>1, HeadTailProperties
  <2> HIDE DEF left
  <2> QED
    BY <1>1, <1>2, <2>1, <2>2, <2>3
<1> HIDE DEF left
<1>6. ASSUME NEW i \in 1..n PROVE left[i] = right[i]
  <2>1. CASE i = n
    <3>1. left[i] = one[i + 1]
      BY <1>5
    <3>2. one[i + 1] = e
      BY <1>2, <2>1
    <3>3. right[i] = e
      BY <1>4, <2>1
    <3> QED
      BY <3>1, <3>2, <3>3
  <2>2. CASE i # n
    <3>1. i \in 1..(n - 1) /\ i + 1 \in 1..n
      BY <1>1, <2>2
    <3> QED
      BY <1>2, <1>3, <1>4, <1>5, <3>1
  <2> QED
    BY <2>1, <2>2
<1>7. left = right
  BY <1>4, <1>5, <1>6, SeqEqual
<1> QED
  BY <1>7 DEF left, right, one

LEMMA AppendSet ==
  ASSUME NEW S, NEW q \in Seq(S), NEW e \in S
  PROVE  /\ ToSet(Append(q, e)) = ToSet(q) \cup {e}
         /\ IsInjective(q) /\ e \notin ToSet(q) => IsInjective(Append(q, e))
<1> DEFINE n == Len(q)
           one == Append(q, e)
<1>1. /\ n \in Nat
      /\ DOMAIN q = 1..n
      /\ DOMAIN one = 1..(n + 1)
      /\ one[n + 1] = e
      /\ \A i \in 1..n : one[i] = q[i]
  BY AppendProperties, LenProperties
<1> HIDE DEF n, one
<1>2. 1..(n + 1) = 1..n \cup {n + 1} /\ n + 1 \notin 1..n
  BY <1>1
<1>3. ToSet(one) = ToSet(q) \cup {e}
  BY <1>1, <1>2 DEF ToSet
<1>4. ASSUME IsInjective(q), e \notin ToSet(q) PROVE IsInjective(one)
  BY <1>1, <1>2, <1>4 DEF IsInjective, ToSet
<1> QED
  BY <1>3, <1>4 DEF one

LEMMA TailSet ==
  ASSUME NEW S, NEW q \in Seq(S), q # <<>>, IsInjective(q)
  PROVE  /\ Head(q) \in ToSet(q)
         /\ ToSet(Tail(q)) = ToSet(q) \ {Head(q)}
         /\ IsInjective(Tail(q))
<1> DEFINE n == Len(q)
           rest == Tail(q)
<1>1. /\ n \in Nat /\ n # 0
      /\ DOMAIN q = 1..n
  BY EmptySeq, LenProperties
<1>2. rest \in Seq(S) /\ Len(rest) = n - 1 /\ \A i \in 1..(n - 1) : rest[i] = q[i + 1]
  BY HeadTailProperties
<1>3. DOMAIN rest = 1..(n - 1)
  BY <1>2, LenProperties
<1>4. Head(q) = q[1]
  OBVIOUS
<1> HIDE DEF n, rest
<1>5. 1 \in 1..n /\ \A i \in 1..(n - 1) : i + 1 \in 1..n /\ i + 1 # 1
  BY <1>1
<1>6. \A i \in 1..n : i # 1 => i - 1 \in 1..(n - 1) /\ (i - 1) + 1 = i
  BY <1>1
<1>7. Head(q) \in ToSet(q)
  BY <1>1, <1>4, <1>5 DEF ToSet
<1>8. ASSUME NEW x \in ToSet(rest) PROVE x \in ToSet(q) /\ x # Head(q)
  <2>1. PICK i \in 1..(n - 1) : x = rest[i]
    BY <1>3 DEF ToSet
  <2>2. x = q[i + 1] /\ i + 1 \in 1..n /\ i + 1 # 1
    BY <1>2, <1>5, <2>1
  <2>3. x \in ToSet(q)
    BY <1>1, <2>2 DEF ToSet
  <2>4. q[i + 1] # q[1]
    BY <1>1, <1>5, <2>2 DEF IsInjective
  <2> QED
    BY <1>4, <2>2, <2>3, <2>4
<1>9. ASSUME NEW x \in ToSet(q), x # Head(q) PROVE x \in ToSet(rest)
  <2>1. PICK i \in 1..n : x = q[i]
    BY <1>1 DEF ToSet
  <2>2. i - 1 \in 1..(n - 1) /\ (i - 1) + 1 = i
    BY <1>4, <1>6, <1>9, <2>1
  <2>3. rest[i - 1] = x
    BY <1>2, <2>1, <2>2
  <2> QED
    BY <1>3, <2>2, <2>3 DEF ToSet
<1>10. ASSUME NEW i \in 1..(n - 1), NEW j \in 1..(n - 1), rest[i] = rest[j] PROVE i = j
  <2>1. q[i + 1] = q[j + 1]
    BY <1>2, <1>10
  <2>2. i + 1 = j + 1
    BY <1>1, <1>5, <2>1 DEF IsInjective
  <2> QED
    BY <2>2
<1>11. IsInjective(rest)
  BY <1>3, <1>10 DEF IsInjective
<1> QED
  BY <1>7, <1>8, <1>9, <1>11 DEF rest

LEMMA OutstandingType ==
  ASSUME TypeOK, CallShape
  PROVE  Outstanding \in Seq(Requests)
  BY CurrentType DEF TypeOK, RequestTypeOK, CallShape, Outstanding

\* How a step looks to the contract.
Accepts(h) ==
  /\ fate[h] = "NEW"
  /\ fate' = [fate EXCEPT ![h] = "PENDING"]
  /\ Outstanding' = Append(Outstanding, h)
  /\ calls' = calls

Refuses(h) ==
  /\ fate[h] = "NEW"
  /\ fate' = [fate EXCEPT ![h] = "REFUSED"]
  /\ UNCHANGED <<Outstanding, calls>>

EndsOldest(ending) ==
  /\ Outstanding # <<>>
  /\ fate' = [fate EXCEPT ![Head(Outstanding)] = ending]
  /\ Outstanding' = Tail(Outstanding)
  /\ calls' = [calls EXCEPT ![Head(Outstanding)] = @ + 1]

\* The queue invariant is kept by what the contract lets a step do.
LEMMA AcceptsKeepsQueue ==
  ASSUME TypeOK, CallShape, QueueInv, NEW h \in Requests, Accepts(h)
  PROVE  QueueInv'
<1>1. Outstanding \in Seq(Requests)
  BY OutstandingType
<1>2. h \notin ToSet(Outstanding)
  BY DEF QueueInv, CalledBackOnce, Accepts
<1>3. ToSet(Outstanding') = ToSet(Outstanding) \cup {h} /\ IsInjective(Outstanding')
  BY <1>1, <1>2, AppendSet DEF Accepts, QueueInv
<1>4. CalledBackOnce'
  BY <1>3 DEF TypeOK, HistoryTypeOK, QueueInv, CalledBackOnce, Accepts, Endings
<1> QED
  BY <1>3, <1>4 DEF QueueInv

LEMMA EndsOldestKeepsQueue ==
  ASSUME TypeOK, CallShape, QueueInv, NEW ending \in Endings, EndsOldest(ending)
  PROVE  QueueInv'
<1> DEFINE h == Head(Outstanding)
<1>1. Outstanding \in Seq(Requests) /\ Outstanding # <<>>
  BY OutstandingType DEF EndsOldest
<1>2. /\ h \in Requests
      /\ h \in ToSet(Outstanding)
      /\ ToSet(Outstanding') = ToSet(Outstanding) \ {h}
      /\ IsInjective(Outstanding')
  BY <1>1, HeadTailProperties, TailSet DEF EndsOldest, QueueInv
<1>3. fate' = [fate EXCEPT ![h] = ending] /\ calls' = [calls EXCEPT ![h] = @ + 1]
  BY DEF EndsOldest
<1> HIDE DEF h
<1>4. fate[h] = "PENDING" /\ calls[h] = 0
  BY <1>2 DEF QueueInv, CalledBackOnce, Endings
<1>5. ASSUME NEW g \in Requests
      PROVE  /\ calls'[g] = IF fate'[g] \in Endings THEN 1 ELSE 0
             /\ fate'[g] = "PENDING" <=> g \in ToSet(Outstanding')
  <2>1. CASE g = h
    BY <1>2, <1>3, <1>4, <2>1 DEF TypeOK, HistoryTypeOK, Endings
  <2>2. CASE g # h
    BY <1>2, <1>3, <2>2 DEF TypeOK, HistoryTypeOK, QueueInv, CalledBackOnce
  <2> QED
    BY <2>1, <2>2
<1> QED
  BY <1>2, <1>5 DEF QueueInv, CalledBackOnce

\* Some step of the contract, or none.
ContractStep ==
  \/ \E h \in Requests :
       (Accepts(h) \/ Refuses(h)) /\ Phase # "closed" /\ Phase' = Phase
  \/ \E ending \in {"RESULT", "NO_ACK", "NO_REPLY"} :
       EndsOldest(ending) /\ Phase = "open" /\ Phase' = "open"
  \/ EndsOldest("CLOSED") /\ Phase # "closed" /\ Phase' = "closing"
  \/ /\ UNCHANGED <<Outstanding, fate, calls>>
     /\ \/ Phase' = Phase
        \/ Outstanding = <<>> /\ Phase # "closed" /\ Phase' = "closed"

LEMMA EveryStepIsOfContract ==
  ASSUME TypeOK, CallShape, [Next]_vars
  PROVE  ContractStep
<1> USE DEF ContractStep, Outstanding, EndingFirst, Phase
<1>1. ASSUME NEW h \in Requests, MakeRequest(h) PROVE ContractStep
  <2>1. queue' = Append(queue, h) /\ pc' = pc /\ pc # "closed"
    BY <1>1 DEF MakeRequest, Enqueue, ApplicationRuns, callVars
  <2>2. EndingFirst => Tail(Append(queue, h)) = Append(Tail(queue), h)
    BY TailOfAppend DEF TypeOK, RequestTypeOK, CallShape
  <2>3. Outstanding' = Append(Outstanding, h)
    BY <2>1, <2>2
  <2>4. Accepts(h)
    BY <1>1, <2>3 DEF Accepts, MakeRequest
  <2> QED
    BY <2>1, <2>4
<1>2. ASSUME NEW h \in Requests, MakeRefused(h) PROVE ContractStep
  <2>1. Refuses(h)
    BY <1>2 DEF Refuses, MakeRefused, requestVars, callVars
  <2> QED
    BY <1>2, <2>1 DEF MakeRefused, ApplicationRuns, callVars
<1>3. ASSUME \/ \E s \in Subscriptions : Subscribe(s) \/ RemoveSubscription(s)
             \/ \E r, w \in BOOLEAN : Process(r, w)
             \/ FlushFails \/ Transmit \/ TransmitBlocked \/ TransmitFails
             \/ NothingToSend
             \/ Tick \/ LinkBreaks \/ Closed \/ UNCHANGED vars
      PROVE  ContractStep
  BY <1>3 DEF Subscribe, RemoveSubscription, Process, FlushFails, Transmit,
              TransmitBlocked, TransmitFails, NothingToSend, Tick, LinkBreaks, Closed,
              Return, GoTo, vars, requestVars, callVars, historyVars
<1>4. ASSUME \/ ReadSkipped \/ ReadNothing \/ ReadFails
             \/ ResultCallbackReturns \/ NotifyNext \/ NotifyEnds
             \/ \E f \in Frame :
                  \/ AckAwaitsReply(f) \/ AckIgnored(f) \/ ReadOther(f)
                  \/ ReadMalformed(f) \/ ReadNotification(f) \/ ReadUnexpected(f)
      PROVE  ContractStep
  BY <1>4 DEF ReadSkipped, ReadNothing, ReadFails, ResultCallbackReturns, NotifyNext,
              NotifyEnds, AckAwaitsReply, AckIgnored, ReadOther, ReadMalformed,
              ReadNotification, ReadUnexpected, ReadsAck, ReadsData, Return, GoTo, Notify,
              requestVars, historyVars
<1>5. CASE GiveUp
  <2>1. pc = "send" /\ pc' = "errcb" /\ queue # <<>> /\ queue' = queue
    BY <1>5 DEF GiveUp, TimedOut, InFlight, GoTo
  <2>2. EndsOldest(IF acked[Current] THEN "NO_REPLY" ELSE "NO_ACK")
    BY <1>5, <2>1 DEF EndsOldest, GiveUp, Ends, Current
  <2> QED
    BY <2>1, <2>2
<1>6. ASSUME NEW f \in Frame, AckCompletes(f) \/ ReadReply(f) PROVE ContractStep
  <2>1. /\ pc = "read" /\ pc' = "resultcb"
        /\ queue # <<>> /\ queue' = Tail(queue)
        /\ Ends(Current, "RESULT")
    BY <1>6 DEF AckCompletes, ReadReply, ReadsAck, ReadsData, AckExpected, IsReply, GoTo,
                advance_frame_queue
  <2>2. EndsOldest("RESULT")
    BY <2>1 DEF EndsOldest, Ends, Current
  <2> QED
    BY <2>1, <2>2
<1>7. CASE ErrorCallbackReturns
  BY <1>7 DEF ErrorCallbackReturns, advance_frame_queue, GoTo, historyVars
<1>8. CASE Close
  <2>1. CASE queue = <<>>
    BY <1>8, <2>1 DEF Close, AbandonFirst, requestVars
  <2>2. CASE queue # <<>>
    BY <1>8, <2>2 DEF Close, AbandonFirst, EndsOldest, Ends, requestVars
  <2> QED
    BY <2>1, <2>2
<1>9. CASE CloseCallbackReturns
  <2>1. CASE Tail(queue) = <<>>
    BY <1>9, <2>1 DEF CloseCallbackReturns, AbandonFirst
  <2>2. CASE Tail(queue) # <<>>
    BY <1>9, <2>2 DEF CloseCallbackReturns, AbandonFirst, EndsOldest, Ends
  <2> QED
    BY <2>1, <2>2
<1> QED
  BY <1>1, <1>2, <1>3, <1>4, <1>5, <1>6, <1>7, <1>8, <1>9
     DEF Next, Application, Sending, Reading, CallbackReturns

LEMMA InitQueue == Init => QueueInv
  BY DEF Init, QueueInv, CalledBackOnce, Outstanding, EndingFirst, Endings, ToSet,
         IsInjective

LEMMA QueueStep ==
  ASSUME TypeOK, CallShape, QueueInv, [Next]_vars
  PROVE  QueueInv'
<1>1. ContractStep
  BY EveryStepIsOfContract
<1>2. ASSUME NEW h \in Requests, Refuses(h) PROVE QueueInv'
  BY <1>2 DEF Refuses, QueueInv, CalledBackOnce, TypeOK, HistoryTypeOK, Endings
<1>3. ASSUME UNCHANGED <<Outstanding, fate, calls>> PROVE QueueInv'
  BY <1>3 DEF QueueInv, CalledBackOnce
<1> QED
  BY <1>1, <1>2, <1>3, AcceptsKeepsQueue, EndsOldestKeepsQueue DEF ContractStep, Endings

(***************************************************************************)
(* No request is in line twice, and each is in line exactly until its      *)
(* callback is called, whatever the callbacks of others do.                *)
(***************************************************************************)
THEOREM QueueCorrect == Spec => []QueueInv
  BY InitQueue, QueueStep, TypeAndShapeCorrect, PTL DEF Spec

(***************************************************************************)
(* Each accepted request is called back exactly once, and is in the queue  *)
(* until then, whatever is done inside the callbacks.                      *)
(***************************************************************************)
THEOREM EachIsCalledBackOnce == Spec => []CalledBackOnce
<1>1. QueueInv => CalledBackOnce
  BY DEF QueueInv
<1> QED
  BY <1>1, QueueCorrect, PTL

(***************************************************************************)
(* The connection implements RequestContract: requests end one at a time   *)
(* in the order they were made, and closing ends all that are left.        *)
(***************************************************************************)
THEOREM ImplementsContract == Spec => KeepsRequestContract
<1>1. Init => Contract!Init
  BY DEF Init, Contract!Init, Outstanding, EndingFirst, Phase
<1>2. ASSUME TypeOK, CallShape, QueueInv, [Next]_vars
      PROVE  [Contract!Next]_(Contract!vars)
  <2>1. ContractStep
    BY <1>2, EveryStepIsOfContract
  <2>2. ASSUME NEW h \in Requests, Accepts(h) \/ Refuses(h), Phase # "closed",
               Phase' = Phase
        PROVE  Contract!Next
    BY <2>2 DEF Accepts, Refuses, Contract!Next, Contract!Accept, Contract!Refuse
  <2>3. ASSUME NEW ending, EndsOldest(ending) PROVE Contract!EndOldest(ending)
    <3>1. Outstanding \in Seq(Requests) /\ Outstanding # <<>>
      BY <1>2, <2>3, OutstandingType DEF EndsOldest
    <3>2. Head(Outstanding) \in ToSet(Outstanding) /\ Head(Outstanding) \in Requests
      BY <1>2, <3>1, TailSet, HeadTailProperties DEF QueueInv
    <3>3. fate[Head(Outstanding)] = "PENDING"
      BY <1>2, <3>2 DEF QueueInv, CalledBackOnce
    <3> QED
      BY <2>3, <3>3 DEF EndsOldest, Contract!EndOldest
  <2>4. ASSUME NEW ending \in {"RESULT", "NO_ACK", "NO_REPLY"}, EndsOldest(ending),
               Phase = "open", Phase' = "open"
        PROVE  Contract!Next
    BY <2>3, <2>4 DEF Contract!Next, Contract!Finish
  <2>5. ASSUME EndsOldest("CLOSED"), Phase # "closed", Phase' = "closing"
        PROVE  Contract!Next
    BY <2>3, <2>5 DEF Contract!Next, Contract!Abandon
  <2>6. ASSUME UNCHANGED <<Outstanding, fate, calls>>,
               \/ Phase' = Phase
               \/ Outstanding = <<>> /\ Phase # "closed" /\ Phase' = "closed"
        PROVE  [Contract!Next]_(Contract!vars)
    BY <2>6 DEF Contract!Next, Contract!Closed, Contract!vars
  <2> QED
    BY <2>1, <2>2, <2>4, <2>5, <2>6 DEF ContractStep
<1> QED
  BY <1>1, <1>2, TypeAndShapeCorrect, QueueCorrect, PTL
     DEF Spec, KeepsRequestContract, Contract!Spec
-----------------------------------------------------------------------------
(***************************************************************************)
(* Stop and wait.                                                          *)
(***************************************************************************)

\* In the middle of a call, when no callback runs, the first in line waits.
LEMMA CurrentIsPending ==
  ASSUME TypeOK, CallShape, QueueInv, queue # <<>>, ~EndingFirst
  PROVE  Current \in Requests /\ fate[Current] = "PENDING"
<1>1. queue \in Seq(Requests) /\ Outstanding = queue
  BY DEF TypeOK, RequestTypeOK, Outstanding
<1>2. Current \in ToSet(queue) /\ Current \in Requests
  BY <1>1, TailSet, HeadTailProperties DEF QueueInv, Current
<1> QED
  BY <1>1, <1>2 DEF QueueInv, CalledBackOnce

\* Only an empty queue has no first request.
LEMMA PendingMeansQueue ==
  ASSUME TypeOK, CallShape, QueueInv, NEW h \in Requests, fate[h] = "PENDING"
  PROVE  queue # <<>>
<1>1. h \in ToSet(Outstanding)
  BY DEF QueueInv, CalledBackOnce
<1>2. Outstanding # <<>>
  BY <1>1 DEF ToSet
<1> QED
  BY <1>2 DEF CallShape, Outstanding

LEMMA StopAndWaitStep ==
  ASSUME TypeOK, CallShape, QueueInv, StopAndWaitInv, [Next]_vars
  PROVE  StopAndWaitInv'
<1> USE DEF StopAndWaitInv, StopAndWait, EndingFirst
<1>1. ASSUME NEW h \in Requests, MakeRequest(h) PROVE StopAndWaitInv'
  <2>1. queue # <<>> => Current' = Current
    BY <1>1, AppendKeepsHead DEF TypeOK, RequestTypeOK, MakeRequest, Enqueue, Current
  <2>2. /\ fate[h] = "NEW" /\ fate' = [fate EXCEPT ![h] = "PENDING"]
        /\ UNCHANGED <<attempts, acked, pc>>
    BY <1>1 DEF MakeRequest, callVars
  <2>3. ASSUME NEW g \in Requests
        PROVE  /\ fate'[g] = "PENDING" /\ (attempts'[g] # 0 \/ acked'[g]) => g = Current'
               /\ fate'[g] = "NO_ACK" => attempts'[g] = MaxTries /\ ~acked'[g]
               /\ fate'[g] = "NO_REPLY" => attempts'[g] > 0 /\ acked'[g]
               /\ fate'[g] = "NEW" => attempts'[g] = 0 /\ ~acked'[g]
    <3>1. CASE g = h
      BY <2>2, <3>1 DEF TypeOK, HistoryTypeOK
    <3>2. CASE g # h
      <4>1. fate'[g] = fate[g]
        BY <2>2, <3>2 DEF TypeOK, HistoryTypeOK
      <4> QED
        BY <2>1, <2>2, <4>1, PendingMeansQueue
    <3> QED
      BY <3>1, <3>2
  <2>4. ASSUME EndingFirst PROVE fate'[Current'] \in Endings
    <3>1. queue # <<>> /\ Current \in Requests /\ Current # h
      BY <2>2, <2>4, CurrentType DEF TypeOK, CallShape, Endings
    <3> QED
      BY <2>1, <2>2, <2>4, <3>1 DEF TypeOK, HistoryTypeOK
  <2> QED
    BY <2>2, <2>3, <2>4
<1>2. ASSUME NEW h \in Requests, MakeRefused(h) PROVE StopAndWaitInv'
  <2>1. ASSUME EndingFirst PROVE fate'[Current] \in Endings
    <3>1. Current \in Requests /\ Current # h
      BY <1>2, <2>1, CurrentType DEF TypeOK, CallShape, Endings, MakeRefused
    <3> QED
      BY <1>2, <2>1, <3>1 DEF MakeRefused, TypeOK, HistoryTypeOK
  <2> QED
    BY <1>2, <2>1 DEF MakeRefused, TypeOK, HistoryTypeOK, requestVars, callVars, Current
<1>3. ASSUME \/ \E s \in Subscriptions : Subscribe(s) \/ RemoveSubscription(s)
             \/ \E r, w \in BOOLEAN : Process(r, w)
             \/ FlushFails \/ TransmitBlocked \/ TransmitFails \/ NothingToSend
             \/ Tick \/ LinkBreaks \/ Closed \/ UNCHANGED vars
      PROVE  StopAndWaitInv'
  BY <1>3 DEF Subscribe, RemoveSubscription, Process, FlushFails, TransmitBlocked,
              TransmitFails, NothingToSend, Tick, LinkBreaks, Closed, Current,
              Return, GoTo, vars, requestVars, callVars, historyVars
<1>4. ASSUME \/ ReadSkipped \/ ReadNothing \/ ReadFails
             \/ ResultCallbackReturns \/ NotifyNext \/ NotifyEnds
             \/ \E f \in Frame :
                  \/ AckIgnored(f) \/ ReadOther(f) \/ ReadMalformed(f)
                  \/ ReadNotification(f) \/ ReadUnexpected(f)
      PROVE  StopAndWaitInv'
  BY <1>4 DEF ReadSkipped, ReadNothing, ReadFails, ResultCallbackReturns, NotifyNext,
              NotifyEnds, AckIgnored, ReadOther, ReadMalformed, ReadNotification,
              ReadUnexpected, ReadsAck, ReadsData, Return, GoTo, Notify, Current,
              requestVars, historyVars
<1>5. CASE Transmit
  <2>1. Current \in Requests /\ fate[Current] = "PENDING"
    BY <1>5, CurrentIsPending DEF Transmit, TransmissionDue, Unsent, TimedOut, InFlight
  <2>2. /\ \A h \in Requests : h # Current => attempts'[h] = attempts[h]
        /\ pc' = "read" /\ Current' = Current /\ UNCHANGED <<acked, fate>>
    BY <1>5 DEF Transmit, GoTo, TypeOK, RequestTypeOK, Current
  <2> QED
    BY <2>1, <2>2
<1>6. CASE GiveUp
  <2>1. /\ queue # <<>> /\ pc = "send" /\ pc' = "errcb" /\ Current \in Requests
        /\ attempts[Current] \in 1..MaxTries
        /\ acked[Current] \/ attempts[Current] = MaxTries
    BY <1>6, CurrentType, TimeoutAssumption
       DEF GiveUp, TimedOut, InFlight, Hopeless, GoTo, TypeOK, RequestTypeOK
  <2>2. /\ fate' = [fate EXCEPT ![Current] = IF acked[Current] THEN "NO_REPLY"
                                                              ELSE "NO_ACK"]
        /\ Current' = Current
        /\ UNCHANGED <<attempts, acked>>
    BY <1>6 DEF GiveUp, Ends, Current
  <2>3. ASSUME NEW g \in Requests
        PROVE  /\ fate'[g] = "PENDING" /\ (attempts'[g] # 0 \/ acked'[g]) => g = Current'
               /\ fate'[g] = "NO_ACK" => attempts'[g] = MaxTries /\ ~acked'[g]
               /\ fate'[g] = "NO_REPLY" => attempts'[g] > 0 /\ acked'[g]
               /\ fate'[g] = "NEW" => attempts'[g] = 0 /\ ~acked'[g]
    <3>1. CASE g = Current
      BY <2>1, <2>2, <3>1 DEF TypeOK, HistoryTypeOK
    <3>2. CASE g # Current
      BY <2>1, <2>2, <3>2 DEF TypeOK, HistoryTypeOK
    <3> QED
      BY <3>1, <3>2
  <2>4. fate'[Current'] \in Endings
    BY <2>1, <2>2 DEF TypeOK, HistoryTypeOK, Endings
  <2> QED
    BY <2>3, <2>4
<1>7. ASSUME NEW f \in Frame, AckAwaitsReply(f) PROVE StopAndWaitInv'
  <2>1. Current \in Requests /\ fate[Current] = "PENDING"
    BY <1>7, CurrentIsPending DEF AckAwaitsReply, AckExpected, ReadsAck
  <2>2. /\ \A h \in Requests : h # Current => acked'[h] = acked[h]
        /\ pc' = "idle" /\ Current' = Current /\ UNCHANGED <<attempts, fate>>
    BY <1>7 DEF AckAwaitsReply, Return, TypeOK, RequestTypeOK, historyVars, Current
  <2> QED
    BY <2>1, <2>2
<1>8. ASSUME NEW f \in Frame, AckCompletes(f) \/ ReadReply(f) PROVE StopAndWaitInv'
  <2>1. /\ Current \in Requests
        /\ pc' = "resultcb"
        /\ fate' = [fate EXCEPT ![Current] = "RESULT"]
        /\ UNCHANGED <<attempts, acked>>
    BY <1>8, CurrentType DEF AckCompletes, ReadReply, AckExpected, IsReply, GoTo, Ends,
                             TypeOK
  <2>2. \A g \in Requests : g # Current => fate'[g] = fate[g]
    BY <2>1 DEF TypeOK, HistoryTypeOK
  <2>3. fate'[Current] = "RESULT"
    BY <2>1 DEF TypeOK, HistoryTypeOK
  <2> QED
    BY <2>1, <2>2, <2>3
<1>9. CASE ErrorCallbackReturns
  <2>1. /\ Current \in Requests
        /\ fate[Current] \in Endings
        /\ pc' = "read"
        /\ UNCHANGED <<fate, attempts, acked>>
    BY <1>9, CurrentType DEF ErrorCallbackReturns, GoTo, historyVars, CallShape, TypeOK
  <2> QED
    BY <2>1 DEF Endings
<1>10. ASSUME NEW requests \in Seq(Requests), AbandonFirst(requests),
              queue' = requests, UNCHANGED <<attempts, acked>>,
              \A h \in Requests : fate[h] = "PENDING" =>
                                    (attempts[h] = 0 /\ ~acked[h]) \/ queue' = queue
       PROVE  StopAndWaitInv'
  <2>1. CASE requests = <<>>
    <3>1. pc' = "closed" /\ UNCHANGED fate
      BY <1>10, <2>1 DEF AbandonFirst
    <3>2. \A h \in Requests : fate[h] = "PENDING" => attempts[h] = 0 /\ ~acked[h]
      BY <1>10, <2>1, PendingMeansQueue
    <3> QED
      BY <1>10, <3>1, <3>2
  <2>2. CASE requests # <<>>
    <3> DEFINE h == Head(requests)
    <3>1. /\ h \in Requests /\ Current' = h /\ pc' = "closing"
          /\ fate' = [fate EXCEPT ![h] = "CLOSED"]
      BY <1>10, <2>2, HeadTailProperties DEF AbandonFirst, Ends, Current
    <3> HIDE DEF h
    <3>2. fate'[h] = "CLOSED" /\ \A g \in Requests : g # h => fate'[g] = fate[g]
      BY <3>1 DEF TypeOK, HistoryTypeOK
    <3>3. \A g \in Requests : fate[g] = "PENDING" /\ (attempts[g] # 0 \/ acked[g]) => g = h
      BY <1>10, <3>1 DEF Current
    <3> QED
      BY <1>10, <3>1, <3>2, <3>3 DEF Endings
  <2> QED
    BY <2>1, <2>2
<1>11. CASE Close
  BY <1>10, <1>11 DEF Close, requestVars, TypeOK, RequestTypeOK
<1>12. CASE CloseCallbackReturns
  <2>1. Current \in Requests /\ fate[Current] \in Endings /\ Tail(queue) \in Seq(Requests)
    BY <1>12, CurrentType DEF CloseCallbackReturns, CallShape, TypeOK
  <2>2. \A h \in Requests : fate[h] = "PENDING" => attempts[h] = 0 /\ ~acked[h]
    BY <2>1 DEF Endings
  <2> QED
    BY <1>10, <1>12, <2>1, <2>2 DEF CloseCallbackReturns
<1> QED
  BY <1>1, <1>2, <1>3, <1>4, <1>5, <1>6, <1>7, <1>8, <1>9, <1>11, <1>12
     DEF Next, Application, Sending, Reading, CallbackReturns

(***************************************************************************)
(* No request but the first in line is ever written or acknowledged, and   *)
(* the errno an error callback gets tells the truth about its request.     *)
(***************************************************************************)
THEOREM StopsAndWaits == Spec => []StopAndWait
<1>1. Init => StopAndWaitInv
  BY DEF Init, StopAndWaitInv, StopAndWait, EndingFirst
<1>2. TypeOK /\ CallShape /\ QueueInv /\ StopAndWaitInv /\ [Next]_vars => StopAndWaitInv'
  BY StopAndWaitStep
<1>3. StopAndWaitInv => StopAndWait
  BY DEF StopAndWaitInv
<1> QED
  BY <1>1, <1>2, <1>3, TypeAndShapeCorrect, QueueCorrect, PTL DEF Spec
-----------------------------------------------------------------------------
(***************************************************************************)
(* Time.  While a request is in flight its age and the time left to its    *)
(* deadline say how long it has been waited for: until the ACK, the ACK    *)
(* timeout and the tick that notices it once for each try but the last;    *)
(* after the ACK, what has passed of the shorter timeout.                  *)
(***************************************************************************)
Shortest == Min({AckTimeout, ReplyTimeout})

AgeInv ==
  /\ NotGivenUpEarly
  /\ pc \notin {"errcb", "closing", "closed"} /\ InFlight =>
       age + timer + 1 >= IF acked[Current] THEN Shortest + 1
                                            ELSE attempts[Current] * (AckTimeout + 1)

LEMMA ShortestIsShort ==
  Shortest \in Nat /\ Shortest <= AckTimeout /\ Shortest <= ReplyTimeout
<1>1. {AckTimeout, ReplyTimeout} \subseteq Nat /\ {AckTimeout, ReplyTimeout} # {}
  BY TimeoutAssumption
<1> QED
  BY <1>1, MinIsElement DEF Shortest

\* The time that so many tries take.
LEMMA TriesTakeTime ==
  ASSUME NEW a \in Nat
  PROVE  /\ a * (AckTimeout + 1) \in Nat
         /\ (a + 1) * (AckTimeout + 1) = a * (AckTimeout + 1) + (AckTimeout + 1)
         /\ a <= MaxTries => a * (AckTimeout + 1) <= AgeBound
         /\ AckTimeout + 1 <= AgeBound
<1> DEFINE t == AckTimeout + 1
<1>1. t \in Nat /\ MaxTries \in Nat /\ MaxTries >= 1
  BY TimeoutAssumption
<1> HIDE DEF t
<1>2. \A m, n \in Nat : m * t \in Nat /\ (m + n) * t = m * t + n * t
  BY <1>1
<1>3. 1 * t = t
  BY <1>1
<1>4. ASSUME NEW n \in Nat, n <= MaxTries PROVE n * t <= MaxTries * t
  <2>1. MaxTries - n \in Nat /\ n + (MaxTries - n) = MaxTries
    BY <1>1, <1>4
  <2> QED
    BY <1>2, <2>1
<1> QED
  BY <1>1, <1>2, <1>3, <1>4 DEF AgeBound, t

\* A request that has become the first in line has not been sent.
LEMMA NextIsUnsent ==
  ASSUME TypeOK, CallShape, QueueInv, StopAndWaitInv, queue # <<>>,
         pc # "closing", queue' = Tail(queue), UNCHANGED attempts
  PROVE  ~InFlight'
<1>1. queue \in Seq(Requests) /\ Tail(queue) \in Seq(Requests) /\ Current \in Requests
  BY CurrentType DEF TypeOK, RequestTypeOK
<1> SUFFICES ASSUME Tail(queue) # <<>>
             PROVE  attempts[Head(Tail(queue))] = 0
  BY DEF InFlight, Current
<1> DEFINE h == Head(Tail(queue))
<1>2. h \in Requests /\ h \in ToSet(Tail(queue))
  <2>1. h \in Requests
    BY <1>1, HeadTailProperties
  <2>2. Len(Tail(queue)) \in Nat /\ Len(Tail(queue)) # 0
    BY <1>1, EmptySeq, LenProperties
  <2>3. 1 \in DOMAIN Tail(queue) /\ h = Tail(queue)[1]
    BY <1>1, <2>2, LenProperties
  <2> QED
    BY <2>1, <2>3 DEF ToSet
<1>3. fate[h] = "PENDING" /\ h # Current
  <2>1. CASE EndingFirst
    <3>1. fate[h] = "PENDING"
      BY <1>2, <2>1 DEF QueueInv, CalledBackOnce, Outstanding
    <3>2. fate[Current] \in Endings
      BY <2>1 DEF StopAndWaitInv
    <3> QED
      BY <3>1, <3>2 DEF Endings
  <2>2. CASE ~EndingFirst
    <3>1. Outstanding = queue /\ IsInjective(queue)
      BY <2>2 DEF Outstanding, QueueInv
    <3>2. ToSet(Tail(queue)) = ToSet(queue) \ {Head(queue)}
      BY <1>1, <3>1, TailSet
    <3> QED
      BY <1>2, <3>1, <3>2 DEF QueueInv, CalledBackOnce, Current
  <2> QED
    BY <2>1, <2>2
<1> HIDE DEF h
<1>4. attempts[h] = 0
  BY <1>2, <1>3 DEF StopAndWaitInv, StopAndWait
<1> QED
  BY <1>4 DEF h

LEMMA AgeStep ==
  ASSUME TypeOK, CallShape, QueueInv, StopAndWaitInv, AgeInv, [Next]_vars
  PROVE  AgeInv'
<1> USE DEF AgeInv, NotGivenUpEarly
<1>1. ASSUME NEW h \in Requests, MakeRequest(h) PROVE AgeInv'
  <2>1. /\ UNCHANGED <<attempts, acked, timer, age, pc>>
        /\ fate[h] = "NEW" /\ fate' = [fate EXCEPT ![h] = "PENDING"]
        /\ queue' = Append(queue, h)
    BY <1>1 DEF MakeRequest, Enqueue, callVars
  <2>2. CASE queue = <<>>
    <3>1. Current' = h /\ pc # "errcb"
      BY <2>1, <2>2 DEF Current, CallShape, EndingFirst
    <3>2. ~InFlight'
      BY <2>1, <3>1 DEF InFlight, StopAndWaitInv
    <3> QED
      BY <2>1, <3>1, <3>2
  <2>3. CASE queue # <<>>
    <3>1. Current' = Current
      BY <2>1, <2>3, AppendKeepsHead DEF TypeOK, RequestTypeOK, Current
    <3>2. pc = "errcb" => fate'[Current] = fate[Current]
      <4>1. pc = "errcb" => fate[Current] # "NEW"
        BY DEF StopAndWaitInv, EndingFirst, Endings
      <4> QED
        BY <2>1, <2>3, <4>1, CurrentType DEF TypeOK, HistoryTypeOK
    <3>3. InFlight' => InFlight
      BY <2>1, <2>3, <3>1 DEF InFlight
    <3> QED
      BY <2>1, <3>1, <3>2, <3>3
  <2> QED
    BY <2>2, <2>3
<1>2. ASSUME NEW h \in Requests, MakeRefused(h) PROVE AgeInv'
  <2>1. /\ UNCHANGED <<queue, attempts, acked, timer, age, pc>>
        /\ fate[h] = "NEW" /\ fate' = [fate EXCEPT ![h] = "REFUSED"]
    BY <1>2 DEF MakeRefused, requestVars, callVars
  <2>2. pc = "errcb" => fate'[Current] = fate[Current]
    <3>1. pc = "errcb" => fate[Current] # "NEW" /\ queue # <<>>
      BY DEF StopAndWaitInv, EndingFirst, Endings, CallShape
    <3> QED
      BY <2>1, <3>1, CurrentType DEF TypeOK, HistoryTypeOK
  <2> QED
    BY <2>1, <2>2 DEF InFlight, Current
<1>3. ASSUME \/ \E s \in Subscriptions : Subscribe(s) \/ RemoveSubscription(s)
             \/ \E r, w \in BOOLEAN : Process(r, w)
             \/ FlushFails \/ TransmitBlocked \/ TransmitFails \/ NothingToSend
             \/ LinkBreaks \/ Closed \/ UNCHANGED vars
      PROVE  AgeInv'
  BY <1>3 DEF Subscribe, RemoveSubscription, Process, FlushFails, TransmitBlocked,
              TransmitFails, NothingToSend, LinkBreaks, Closed, Current, InFlight,
              Return, GoTo, vars, requestVars, callVars, historyVars
<1>4. ASSUME \/ ReadSkipped \/ ReadNothing \/ ReadFails
             \/ ResultCallbackReturns \/ NotifyNext \/ NotifyEnds
             \/ \E f \in Frame :
                  \/ AckIgnored(f) \/ ReadOther(f) \/ ReadMalformed(f)
                  \/ ReadNotification(f) \/ ReadUnexpected(f)
      PROVE  AgeInv'
  BY <1>4 DEF ReadSkipped, ReadNothing, ReadFails, ResultCallbackReturns, NotifyNext,
              NotifyEnds, AckIgnored, ReadOther, ReadMalformed, ReadNotification,
              ReadUnexpected, ReadsAck, ReadsData, Return, GoTo, Notify, Current,
              InFlight, requestVars, historyVars
<1>5. CASE Transmit
  <2>1. /\ queue # <<>> /\ Current \in Requests /\ Current' = Current
        /\ pc = "send" /\ pc' = "read" /\ timer' = AckTimeout /\ acked' = acked
        /\ attempts'[Current] = attempts[Current] + 1
        /\ attempts[Current] \in Nat /\ attempts[Current] <= MaxTries /\ timer \in Int
        /\ age \in Nat
    <3>1. queue # <<>> /\ Current \in Requests
      BY <1>5, CurrentType
         DEF Transmit, TransmissionDue, Unsent, TimedOut, InFlight, TypeOK
    <3> QED
      BY <1>5, <3>1, TimeoutAssumption, AgeBoundType
         DEF Transmit, GoTo, TypeOK, RequestTypeOK, HistoryTypeOK, Current
  <2>2. CASE Unsent
    <3>1. attempts[Current] = 0 /\ age' = 0
      BY <1>5, <2>2 DEF Transmit, Unsent
    <3>2. (0 + 1) * (AckTimeout + 1) = AckTimeout + 1
      BY TimeoutAssumption
    <3> QED
      BY <2>1, <3>1, <3>2, ShortestIsShort, TimeoutAssumption
  <2>3. CASE ~Unsent
    <3>1. InFlight /\ timer < 0 /\ ~acked[Current] /\ age' = age
      BY <1>5, <2>3 DEF Transmit, TransmissionDue, TimedOut, Hopeless
    <3>2. age + timer + 1 >= attempts[Current] * (AckTimeout + 1)
      BY <2>1, <3>1
    <3>3. /\ attempts[Current] * (AckTimeout + 1) \in Nat
          /\ (attempts[Current] + 1) * (AckTimeout + 1)
               = attempts[Current] * (AckTimeout + 1) + (AckTimeout + 1)
      BY <2>1, TriesTakeTime
    <3>4. age + AckTimeout + 1 >= (attempts[Current] + 1) * (AckTimeout + 1)
      BY <2>1, <3>1, <3>2, <3>3, TimeoutAssumption
    <3> QED
      BY <2>1, <3>1, <3>4
  <2> QED
    BY <2>2, <2>3
<1>6. CASE GiveUp
  <2>1. /\ InFlight /\ timer < 0 /\ pc = "send" /\ pc' = "errcb"
        /\ acked[Current] \/ attempts[Current] >= MaxTries
        /\ Current' = Current /\ age' = age
        /\ Current \in Requests
        /\ attempts[Current] \in 0..MaxTries /\ timer \in Int /\ age \in Nat
        /\ timer >= -1
    <3>1. queue # <<>> /\ Current \in Requests
      BY <1>6, CurrentType DEF GiveUp, TimedOut, InFlight, TypeOK
    <3> QED
      BY <1>6, <3>1, TimeoutAssumption, AgeBoundType
         DEF GiveUp, TimedOut, Hopeless, GoTo, TypeOK, RequestTypeOK, HistoryTypeOK,
             Current
  <2>2. fate'[Current] = IF acked[Current] THEN "NO_REPLY" ELSE "NO_ACK"
    BY <1>6, <2>1 DEF GiveUp, Ends, TypeOK, HistoryTypeOK
  <2>3. CASE acked[Current]
    <3>1. age >= Shortest + 1
      BY <2>1, <2>3, ShortestIsShort
    <3> QED
      BY <2>1, <2>2, <2>3, <3>1 DEF Shortest
  <2>4. CASE ~acked[Current]
    <3>1. attempts[Current] = MaxTries
      BY <2>1, <2>4, TimeoutAssumption
    <3>2. age >= AgeBound
      BY <2>1, <2>4, <3>1, AgeBoundType DEF AgeBound
    <3> QED
      BY <2>1, <2>2, <2>4, <3>2
  <2> QED
    BY <2>3, <2>4
<1>7. ASSUME NEW f \in Frame, AckAwaitsReply(f) PROVE AgeInv'
  <2>1. /\ Current \in Requests /\ Current' = Current /\ age' = age /\ age \in Nat
        /\ acked'[Current] = TRUE /\ timer' = ReplyTimeout /\ pc' = "idle"
    BY <1>7, CurrentType, AgeBoundType
       DEF AckAwaitsReply, AckExpected, Return, TypeOK, RequestTypeOK, HistoryTypeOK,
           historyVars, Current
  <2> QED
    BY <2>1, ShortestIsShort, TimeoutAssumption
<1>8. ASSUME NEW f \in Frame, AckCompletes(f) \/ ReadReply(f) PROVE AgeInv'
  <2>1. /\ queue # <<>> /\ pc = "read" /\ pc' = "resultcb"
        /\ queue' = Tail(queue) /\ UNCHANGED attempts
    BY <1>8 DEF AckCompletes, ReadReply, ReadsAck, ReadsData, AckExpected, IsReply, GoTo,
                advance_frame_queue
  <2> QED
    BY <2>1, NextIsUnsent
<1>9. CASE ErrorCallbackReturns
  <2>1. /\ queue # <<>> /\ pc = "errcb" /\ pc' = "read"
        /\ queue' = Tail(queue) /\ UNCHANGED attempts
    BY <1>9 DEF ErrorCallbackReturns, GoTo, advance_frame_queue, CallShape, EndingFirst
  <2> QED
    BY <2>1, NextIsUnsent
<1>10. CASE Close \/ CloseCallbackReturns
  BY <1>10 DEF Close, CloseCallbackReturns, AbandonFirst
<1>11. CASE Tick
  <2>1. /\ InFlight /\ pc = "idle" /\ UNCHANGED <<queue, attempts, acked, pc>>
        /\ timer' = IF timer < 0 THEN timer ELSE timer - 1
        /\ age' = IF age < AgeBound THEN age + 1 ELSE age
    BY <1>11 DEF Tick, callVars
  <2>2. /\ Current \in Requests /\ Current' = Current
        /\ timer \in Int /\ timer >= -1 /\ age \in Nat /\ age <= AgeBound
        /\ attempts[Current] \in Nat /\ attempts[Current] <= MaxTries
    BY <2>1, CurrentType, TimeoutAssumption, AgeBoundType
       DEF InFlight, TypeOK, RequestTypeOK, HistoryTypeOK, Current
  <2> DEFINE waited == IF acked[Current] THEN Shortest + 1
                                         ELSE attempts[Current] * (AckTimeout + 1)
  <2>3. waited \in Nat /\ waited <= AgeBound
    BY <2>2, ShortestIsShort, TriesTakeTime, AgeBoundType, TimeoutAssumption
  <2>4. age + timer + 1 >= waited
    BY <2>1
  <2>5. waited' = waited
    BY <2>1, <2>2
  <2> HIDE DEF waited
  <2>6. age' + timer' + 1 >= waited
    BY <2>1, <2>2, <2>3, <2>4, AgeBoundType
  <2> QED
    BY <2>1, <2>5, <2>6 DEF waited
<1> QED
  BY <1>1, <1>2, <1>3, <1>4, <1>5, <1>6, <1>7, <1>8, <1>9, <1>10, <1>11
     DEF Next, Application, Sending, Reading, CallbackReturns

(***************************************************************************)
(* Whatever the timeouts and the number of tries: a request fails with     *)
(* NO_ACK only after the ACK timeout has passed once for each of its       *)
(* tries, and with NO_REPLY not before the shorter timeout has.            *)
(***************************************************************************)
THEOREM IsNotGivenUpEarly == Spec => []NotGivenUpEarly
<1>1. Init => AgeInv
  BY DEF Init, AgeInv, NotGivenUpEarly, InFlight
<1>2. Init => StopAndWaitInv
  BY DEF Init, StopAndWaitInv, StopAndWait, EndingFirst
<1>3. TypeOK /\ CallShape /\ QueueInv /\ StopAndWaitInv /\ [Next]_vars => StopAndWaitInv'
  BY StopAndWaitStep
<1>4. /\ TypeOK /\ CallShape /\ QueueInv /\ StopAndWaitInv /\ AgeInv /\ [Next]_vars
      => AgeInv'
  BY AgeStep
<1>5. AgeInv => NotGivenUpEarly
  BY DEF AgeInv
<1> QED
  BY <1>1, <1>2, <1>3, <1>4, <1>5, TypeAndShapeCorrect, QueueCorrect, PTL DEF Spec
-----------------------------------------------------------------------------
(***************************************************************************)
(* The walk over the subscriptions.  Who is still owed the packet in hand  *)
(* are the subscriptions that match it and stand behind the one whose      *)
(* callback runs.                                                          *)
(***************************************************************************)
\* What stands behind place k of a list, and the subscriptions of a packet.
Following(q, k) == {q[j] : j \in {j \in DOMAIN q : j > k}}
Interested(p) == {s \in Subscriptions : reply_specifier_matches(SubSpec[s], p)}

DispatchInv ==
  /\ IsInjective(subscriptions)
  /\ EverySubscriberNotified
  /\ pc = "notify" =>
       \E k \in DOMAIN subscriptions :
         /\ subscriptions[k] = cursor
         /\ owed = Following(subscriptions, k) \cap Interested(packet)

-----------------------------------------------------------------------------
\* Lists that grow and shrink.
LEMMA FollowingAppended ==
  ASSUME NEW S, NEW q \in Seq(S), NEW k \in 0..Len(q), NEW e \in S
  PROVE  Following(Append(q, e), k) = Following(q, k) \cup {e}
<1> DEFINE n == Len(q)
           one == Append(q, e)
<1>1. /\ n \in Nat /\ DOMAIN q = 1..n /\ DOMAIN one = 1..(n + 1)
      /\ one[n + 1] = e /\ \A j \in 1..n : one[j] = q[j]
  BY AppendProperties, LenProperties
<1>2. k \in 0..n
  OBVIOUS
<1> HIDE DEF n, one
<1>3. /\ {j \in 1..(n + 1) : j > k} = {j \in 1..n : j > k} \cup {n + 1}
      /\ {j \in 1..n : j > k} \subseteq 1..n
  BY <1>1, <1>2
<1>4. Following(one, k) = Following(q, k) \cup {e}
  BY <1>1, <1>3 DEF Following
<1> QED
  BY <1>4 DEF one

\* A removed place k moves those behind it; `at' is where place k goes.
LEMMA FollowingRemoved ==
  ASSUME NEW S, NEW q \in Seq(S), IsInjective(q),
         NEW i \in 1..Len(q), NEW k \in 1..Len(q), i # k
  PROVE  LET at == IF k < i THEN k ELSE k - 1
         IN /\ at \in DOMAIN RemoveAt(q, i)
            /\ RemoveAt(q, i)[at] = q[k]
            /\ Following(RemoveAt(q, i), at) = Following(q, k) \ {q[i]}
<1> DEFINE n == Len(q)
           rest == RemoveAt(q, i)
           at == IF k < i THEN k ELSE k - 1
<1>1. /\ n \in Nat /\ DOMAIN q = 1..n /\ DOMAIN rest = 1..(n - 1)
      /\ \A j \in 1..(n - 1) : rest[j] = IF j < i THEN q[j] ELSE q[j + 1]
      /\ i \in 1..n /\ k \in 1..n
  BY RemoveAtProperties, LenProperties
<1> HIDE DEF n, rest
<1>2. at \in 1..(n - 1) /\ rest[at] = q[k]
  BY <1>1
<1>3. ASSUME NEW x \in Following(rest, at) PROVE x \in Following(q, k) \ {q[i]}
  <2>1. PICK j \in 1..(n - 1) : j > at /\ x = rest[j]
    BY <1>1, <1>3 DEF Following
  <2>2. PICK m \in 1..n : m > k /\ m # i /\ x = q[m]
    <3> DEFINE m == IF j < i THEN j ELSE j + 1
    <3>1. m \in 1..n /\ m > k /\ m # i /\ x = q[m]
      BY <1>1, <2>1
    <3> QED
      BY <3>1
  <2>3. x # q[i]
    BY <1>1, <2>2 DEF IsInjective
  <2> QED
    BY <1>1, <2>2, <2>3 DEF Following
<1>4. ASSUME NEW x \in Following(q, k) \ {q[i]} PROVE x \in Following(rest, at)
  <2>1. PICK m \in 1..n : m > k /\ x = q[m]
    BY <1>1, <1>4 DEF Following
  <2>2. m # i
    BY <1>4, <2>1
  <2>3. PICK j \in 1..(n - 1) : j > at /\ rest[j] = x
    <3> DEFINE j == IF m < i THEN m ELSE m - 1
    <3>1. j \in 1..(n - 1) /\ j > at /\ rest[j] = q[m]
      BY <1>1, <2>1, <2>2
    <3> QED
      BY <2>1, <3>1
  <2> QED
    BY <1>1, <2>3 DEF Following
<1>5. Following(rest, at) = Following(q, k) \ {q[i]}
  BY <1>3, <1>4
<1> QED
  BY <1>1, <1>2, <1>5 DEF rest

LEMMA RemovedIsInjective ==
  ASSUME NEW S, NEW q \in Seq(S), IsInjective(q), NEW i \in 1..Len(q)
  PROVE  IsInjective(RemoveAt(q, i))
<1> DEFINE n == Len(q)
           rest == RemoveAt(q, i)
<1>1. /\ n \in Nat /\ DOMAIN q = 1..n /\ DOMAIN rest = 1..(n - 1)
      /\ \A j \in 1..(n - 1) : rest[j] = IF j < i THEN q[j] ELSE q[j + 1]
      /\ i \in 1..n
  BY RemoveAtProperties, LenProperties
<1> HIDE DEF n, rest
<1>2. ASSUME NEW a \in 1..(n - 1), NEW b \in 1..(n - 1), rest[a] = rest[b] PROVE a = b
  <2> DEFINE from(j) == IF j < i THEN j ELSE j + 1
  <2>1. /\ from(a) \in 1..n /\ from(b) \in 1..n
        /\ rest[a] = q[from(a)] /\ rest[b] = q[from(b)]
        /\ from(a) = from(b) => a = b
    BY <1>1
  <2> QED
    BY <1>1, <1>2, <2>1 DEF IsInjective
<1>3. IsInjective(rest)
  BY <1>1, <1>2 DEF IsInjective
<1> QED
  BY <1>3 DEF rest

\* The walk goes from place k, or from before the first, to the next that
\* matches: what follows is what was owed, without the one it reaches.
LEMMA NextIsReached ==
  ASSUME TypeOK, IsInjective(subscriptions), NEW k \in 0..Len(subscriptions), NEW p,
         MatchingFrom(k + 1, p) # {}
  PROVE  LET next == Min(MatchingFrom(k + 1, p))
         IN /\ next \in DOMAIN subscriptions
            /\ subscriptions[next] \in Following(subscriptions, k) \cap Interested(p)
            /\ Following(subscriptions, next) \cap Interested(p)
                 = (Following(subscriptions, k) \cap Interested(p))
                     \ {subscriptions[next]}
<1> DEFINE n == Len(subscriptions)
           places == MatchingFrom(k + 1, p)
           next == Min(places)
<1>1. /\ n \in Nat /\ DOMAIN subscriptions = 1..n /\ k \in 0..n
      /\ \A j \in 1..n : subscriptions[j] \in Subscriptions
  BY LenProperties, ElementOfSeq DEF TypeOK, SubscriptionTypeOK
<1>2. \A j : j \in places <=> j \in 1..n /\ j >= k + 1 /\ subscriptions[j] \in Interested(p)
  BY <1>1 DEF MatchingFrom, Interested
<1>3. places # {}
  OBVIOUS
<1> HIDE DEF n, places
<1>4. next \in places /\ \A j \in places : next <= j
  BY <1>1, <1>2, <1>3, MinIsElement
<1> HIDE DEF next
<1>5. /\ next \in 1..n /\ next > k
      /\ subscriptions[next] \in Following(subscriptions, k) \cap Interested(p)
  BY <1>1, <1>2, <1>4 DEF Following
<1>6. ASSUME NEW x \in Following(subscriptions, next) \cap Interested(p)
      PROVE  x \in Following(subscriptions, k) /\ x # subscriptions[next]
  <2>1. PICK j \in 1..n : j > next /\ x = subscriptions[j]
    BY <1>1, <1>6 DEF Following
  <2>2. j > k /\ j # next
    BY <1>1, <1>5, <2>1
  <2> QED
    BY <1>1, <1>5, <2>1, <2>2 DEF Following, IsInjective
<1>7. ASSUME NEW x \in Following(subscriptions, k) \cap Interested(p),
             x # subscriptions[next]
      PROVE  x \in Following(subscriptions, next)
  <2>1. PICK j \in 1..n : j > k /\ x = subscriptions[j]
    BY <1>1, <1>7 DEF Following
  <2>2. j \in places
    BY <1>1, <1>2, <1>7, <2>1
  <2>3. j > next
    BY <1>1, <1>4, <1>5, <1>7, <2>1, <2>2
  <2> QED
    BY <1>1, <2>1, <2>3 DEF Following
<1> QED
  BY <1>1, <1>5, <1>6, <1>7 DEF next, places

\* Where a dispatch is.
LEMMA AheadOfPlace ==
  ASSUME TypeOK, IsInjective(subscriptions), NEW k \in DOMAIN subscriptions,
         subscriptions[k] = cursor
  PROVE  k \in 0..Len(subscriptions) /\ Ahead = MatchingFrom(k + 1, packet)
<1> DEFINE Here == {i \in DOMAIN subscriptions : subscriptions[i] = cursor}
<1>1. DOMAIN subscriptions = 1..Len(subscriptions) /\ Len(subscriptions) \in Nat
  BY LenProperties DEF TypeOK, SubscriptionTypeOK
<1>2. Here = {k} /\ Here \subseteq Nat
  BY <1>1 DEF IsInjective
<1>3. Min(Here) = k
  BY <1>2, MinIsElement
<1> QED
  BY <1>1, <1>3 DEF Ahead
-----------------------------------------------------------------------------
LEMMA NobodyIsLeft ==
  ASSUME TypeOK, NEW k \in 0..Len(subscriptions), NEW p, MatchingFrom(k + 1, p) = {}
  PROVE  Following(subscriptions, k) \cap Interested(p) = {}
<1>1. DOMAIN subscriptions = 1..Len(subscriptions) /\ Len(subscriptions) \in Nat
  BY LenProperties DEF TypeOK, SubscriptionTypeOK
<1>2. ASSUME NEW x \in Following(subscriptions, k) \cap Interested(p) PROVE FALSE
  <2>1. PICK j \in DOMAIN subscriptions : j > k /\ x = subscriptions[j]
    BY <1>2 DEF Following
  <2>2. j >= k + 1
    BY <1>1, <2>1
  <2> QED
    BY <1>2, <2>1, <2>2 DEF MatchingFrom, Interested
<1> QED
  BY <1>2

\* A step of the walk reaches a subscription that is owed the packet.
LEMMA NotifyNextReaches ==
  ASSUME TypeOK, CallShape, DispatchInv, NotifyNext
  PROVE  cursor' \in owed /\ DispatchInv'
<1>1. PICK k \in DOMAIN subscriptions :
        /\ subscriptions[k] = cursor
        /\ owed = Following(subscriptions, k) \cap Interested(packet)
  BY DEF DispatchInv, NotifyNext
<1>2. k \in 0..Len(subscriptions) /\ Ahead = MatchingFrom(k + 1, packet)
  BY <1>1, AheadOfPlace DEF DispatchInv
<1> DEFINE next == Min(MatchingFrom(k + 1, packet))
<1>3. /\ pc' = "notify" /\ packet' = packet /\ cursor' = subscriptions[next]
      /\ owed' = owed \ {cursor'} /\ subscriptions' = subscriptions
      /\ MatchingFrom(k + 1, packet) # {}
  BY <1>2 DEF NotifyNext, Notify
<1>4. /\ next \in DOMAIN subscriptions
      /\ subscriptions[next] \in owed
      /\ Following(subscriptions, next) \cap Interested(packet) = owed \ {subscriptions[next]}
  BY <1>1, <1>2, <1>3, NextIsReached DEF DispatchInv
<1> HIDE DEF next
<1>5. Interested(packet') = Interested(packet)
  BY <1>3
<1> QED
  BY <1>3, <1>4, <1>5 DEF DispatchInv, EverySubscriberNotified

LEMMA DispatchStep ==
  ASSUME TypeOK, CallShape, DispatchInv, [Next]_vars
  PROVE  DispatchInv'
<1> USE DEF DispatchInv, EverySubscriberNotified
<1>0. subscriptions \in Seq(Subscriptions) /\ DOMAIN subscriptions = 1..Len(subscriptions)
      /\ Len(subscriptions) \in Nat
  BY LenProperties DEF TypeOK, SubscriptionTypeOK
<1>1. ASSUME NEW s \in Subscriptions, Subscribe(s) PROVE DispatchInv'
  <2>1. /\ subscriptions' = Append(subscriptions, s) /\ s \notin ToSet(subscriptions)
        /\ UNCHANGED <<pc, packet, cursor>>
        /\ owed' = IF pc = "notify" /\ s \in Interested(packet) THEN owed \cup {s} ELSE owed
    BY <1>1 DEF Subscribe, callVars, Interested
  <2>2. IsInjective(subscriptions')
    BY <1>0, <2>1, AppendSet
  <2>3. ASSUME pc = "notify"
        PROVE  \E k \in DOMAIN subscriptions' :
                 /\ subscriptions'[k] = cursor
                 /\ owed' = Following(subscriptions', k) \cap Interested(packet)
    <3>1. PICK k \in DOMAIN subscriptions :
            /\ subscriptions[k] = cursor
            /\ owed = Following(subscriptions, k) \cap Interested(packet)
      BY <2>3
    <3>2. k \in 0..Len(subscriptions)
      BY <1>0
    <3>3. Following(subscriptions', k) = Following(subscriptions, k) \cup {s}
      BY <1>0, <2>1, <3>2, FollowingAppended
    <3>4. k \in DOMAIN subscriptions' /\ subscriptions'[k] = cursor
      BY <1>0, <2>1, <3>1, AppendProperties, LenProperties
    <3>5. owed' = Following(subscriptions', k) \cap Interested(packet)
      BY <2>1, <2>3, <3>1, <3>3
    <3> QED
      BY <3>4, <3>5
  <2>4. Interested(packet') = Interested(packet)
    BY <2>1
  <2> QED
    BY <2>1, <2>2, <2>3, <2>4
<1>2. ASSUME NEW s \in Subscriptions, RemoveSubscription(s) PROVE DispatchInv'
  <2>1. PICK i \in DOMAIN subscriptions :
          subscriptions[i] = s /\ subscriptions' = RemoveAt(subscriptions, i)
    BY <1>2 DEF RemoveSubscription
  <2>2. UNCHANGED <<pc, packet, cursor>> /\ owed' = owed \ {s} /\ s # cursor
    BY <1>2 DEF RemoveSubscription, callVars
  <2>3. IsInjective(subscriptions')
    BY <1>0, <2>1, RemovedIsInjective
  <2>4. ASSUME pc = "notify"
        PROVE  \E k \in DOMAIN subscriptions' :
                 /\ subscriptions'[k] = cursor
                 /\ owed' = Following(subscriptions', k) \cap Interested(packet)
    <3>1. PICK k \in DOMAIN subscriptions :
            /\ subscriptions[k] = cursor
            /\ owed = Following(subscriptions, k) \cap Interested(packet)
      BY <2>4
    <3> DEFINE at == IF k < i THEN k ELSE k - 1
    <3>2. i \in 1..Len(subscriptions) /\ k \in 1..Len(subscriptions) /\ i # k
      BY <1>0, <2>1, <2>2, <3>1
    <3>3. /\ at \in DOMAIN RemoveAt(subscriptions, i)
          /\ RemoveAt(subscriptions, i)[at] = subscriptions[k]
          /\ Following(RemoveAt(subscriptions, i), at)
               = Following(subscriptions, k) \ {subscriptions[i]}
      BY <1>0, <3>2, FollowingRemoved
    <3> HIDE DEF at
    <3>4. owed' = Following(subscriptions', at) \cap Interested(packet)
      BY <2>1, <2>2, <3>1, <3>3
    <3> QED
      BY <2>1, <3>1, <3>3, <3>4
  <2>5. Interested(packet') = Interested(packet)
    BY <2>2
  <2> QED
    BY <2>2, <2>3, <2>4, <2>5
<1>3. ASSUME NEW f \in Frame, ReadNotification(f) PROVE DispatchInv'
  <2> DEFINE p == f.packet
  <2> DEFINE next == Min(MatchingFrom(1, p))
  <2>1. /\ pc' = "notify" /\ packet' = p /\ cursor' = subscriptions[next]
        /\ subscriptions' = subscriptions /\ MatchingFrom(1, p) # {}
        /\ owed' = {s \in ToSet(subscriptions) :
                      reply_specifier_matches(SubSpec[s], p)} \ {cursor'}
    BY <1>3 DEF ReadNotification, Notify
  <2> HIDE DEF p
  <2>2. {s \in ToSet(subscriptions) : reply_specifier_matches(SubSpec[s], p)}
          = Following(subscriptions, 0) \cap Interested(p)
    <3>1. ToSet(subscriptions) = Following(subscriptions, 0)
      BY <1>0 DEF ToSet, Following
    <3>2. ToSet(subscriptions) \subseteq Subscriptions
      BY <1>0, ElementOfSeq DEF ToSet
    <3> QED
      BY <3>1, <3>2 DEF Interested
  <2>3. /\ next \in DOMAIN subscriptions
        /\ Following(subscriptions, next) \cap Interested(p)
             = (Following(subscriptions, 0) \cap Interested(p)) \ {subscriptions[next]}
    <3>1. 0 \in 0..Len(subscriptions) /\ 0 + 1 = 1
      BY <1>0
    <3> QED
      BY <2>1, <3>1, NextIsReached
  <2> HIDE DEF next
  <2>4. Interested(packet') = Interested(p)
    BY <2>1
  <2> QED
    BY <2>1, <2>2, <2>3, <2>4
<1>4. CASE NotifyNext
  BY <1>4, NotifyNextReaches
<1>5. CASE NotifyEnds
  <2>1. PICK k \in DOMAIN subscriptions :
          /\ subscriptions[k] = cursor
          /\ owed = Following(subscriptions, k) \cap Interested(packet)
    BY <1>5 DEF NotifyEnds
  <2>2. owed = {}
    BY <1>5, <2>1, AheadOfPlace, NobodyIsLeft DEF NotifyEnds
  <2> QED
    BY <1>5, <2>2 DEF NotifyEnds, Return, historyVars
<1>6. CASE Close \/ CloseCallbackReturns
  <2>1. /\ pc' # "notify" /\ pc # "notify" /\ owed' = owed
        /\ subscriptions' = subscriptions \/ subscriptions' = <<>>
    BY <1>6 DEF Close, CloseCallbackReturns, AbandonFirst
  <2>2. IsInjective(<<>>)
    BY DEF IsInjective
  <2> QED
    BY <2>1, <2>2
<1>7. ASSUME \/ \E h \in Requests : MakeRequest(h) \/ MakeRefused(h)
             \/ Tick \/ LinkBreaks \/ Closed \/ UNCHANGED vars
      PROVE  DispatchInv'
  <2>1. UNCHANGED <<pc, packet, cursor, owed, subscriptions>>
    BY <1>7 DEF MakeRequest, MakeRefused, Tick, LinkBreaks, Closed, vars, callVars,
                historyVars
  <2>2. Interested(packet') = Interested(packet)
    BY <2>1
  <2> QED
    BY <2>1, <2>2
<1>8. ASSUME \/ \E r, w \in BOOLEAN : Process(r, w)
             \/ FlushFails \/ Transmit \/ TransmitBlocked \/ TransmitFails
             \/ NothingToSend \/ GiveUp \/ ErrorCallbackReturns
             \/ ReadSkipped \/ ReadNothing \/ ReadFails \/ ResultCallbackReturns
             \/ \E f \in Frame :
                  \/ AckCompletes(f) \/ AckAwaitsReply(f) \/ AckIgnored(f)
                  \/ ReadOther(f) \/ ReadMalformed(f) \/ ReadReply(f)
                  \/ ReadUnexpected(f)
      PROVE  DispatchInv'
  <2>1. pc # "notify" /\ pc' # "notify" /\ UNCHANGED <<owed, subscriptions>>
    BY <1>8 DEF Process, FlushFails, Transmit, TransmitBlocked, TransmitFails,
                NothingToSend, GiveUp, ErrorCallbackReturns, ReadSkipped, ReadNothing,
                ReadFails, ResultCallbackReturns, AckCompletes, AckAwaitsReply,
                AckIgnored, ReadOther, ReadMalformed, ReadReply, ReadUnexpected,
                ReadsAck, ReadsData, Return, GoTo, historyVars
  <2> QED
    BY <2>1
<1> QED
  BY <1>1, <1>2, <1>3, <1>4, <1>5, <1>6, <1>7, <1>8
     DEF Next, Application, Sending, Reading, CallbackReturns

LEMMA DispatchInvariant == Spec => []DispatchInv
<1>1. Init => DispatchInv
  BY DEF Init, DispatchInv, EverySubscriberNotified, IsInjective
<1>2. TypeOK /\ CallShape /\ DispatchInv /\ [Next]_vars => DispatchInv'
  BY DispatchStep
<1> QED
  BY <1>1, <1>2, TypeAndShapeCorrect, PTL DEF Spec

(***************************************************************************)
(* A packet that no request takes is handed to every subscription that     *)
(* matches it, those made by the callbacks on the way included, whatever   *)
(* the callbacks remove, but for the one that runs.                        *)
(***************************************************************************)
THEOREM EverySubscriptionIsReached == Spec => []EverySubscriberNotified
<1>1. DispatchInv => EverySubscriberNotified
  BY DEF DispatchInv
<1> QED
  BY <1>1, DispatchInvariant, PTL

(***************************************************************************)
(* And to none of them twice, nor to one that has been removed.            *)
(***************************************************************************)
THEOREM NoneIsReachedTwice == Spec => NotifiedOnce
<1>1. /\ TypeOK /\ CallShape /\ DispatchInv /\ [Next]_vars
      => [NotifyNext => cursor' \in owed]_vars
  BY NotifyNextReaches
<1> QED
  BY <1>1, DispatchInvariant, TypeAndShapeCorrect, PTL DEF Spec, NotifiedOnce

-----------------------------------------------------------------------------
(***************************************************************************)
(* Types, and the connection by itself.                                    *)
(***************************************************************************)

LinkTypes ==
  /\ toHeadset \in Seq(HostFrame)
  /\ toHost \in Seq(HeadsetFrame)
  /\ owes \subseteq Requests
  /\ dataSeq \in {0, 1}
  /\ unacked \in HeadsetFrame \cup {None}
  /\ confirmed \subseteq Requests
  /\ seen \in HostFrame \cup {None}
  /\ answeredBy \in [Requests -> Requests \cup {None}]

\* The sequence ids of the requests in the channel are those of the connection.
RequestIds ==
  \A i \in DOMAIN toHeadset :
    toHeadset[i].request # None => toHeadset[i].sequence_id \in {0, 1}

\* What is at the two ends of a channel.
LEMMA TailPlaces ==
  ASSUME NEW S, NEW q \in Seq(S), q # <<>>
  PROVE  /\ Head(q) = q[1] /\ 1 \in DOMAIN q /\ Head(q) \in S /\ Tail(q) \in Seq(S)
         /\ \A i \in DOMAIN q : i \in Nat /\ i >= 1
         /\ \A i \in DOMAIN Tail(q) : i + 1 \in DOMAIN q /\ Tail(q)[i] = q[i + 1]
         /\ \A i \in DOMAIN q :
              i # 1 => i - 1 \in DOMAIN Tail(q) /\ Tail(q)[i - 1] = q[i]
<1> DEFINE n == Len(q)
<1>1. n \in Nat /\ n # 0 /\ DOMAIN q = 1..n
  BY EmptySeq, LenProperties
<1>2. Head(q) \in S /\ Head(q) = q[1]
  BY HeadTailProperties
<1>3. /\ Tail(q) \in Seq(S) /\ Len(Tail(q)) = n - 1
      /\ \A i \in 1..(n - 1) : Tail(q)[i] = q[i + 1]
  BY HeadTailProperties
<1>4. DOMAIN Tail(q) = 1..(n - 1)
  BY <1>3, LenProperties
<1> HIDE DEF n
<1>5. 1 \in DOMAIN q
  BY <1>1
<1>6. \A i \in DOMAIN Tail(q) : i + 1 \in DOMAIN q /\ Tail(q)[i] = q[i + 1]
  BY <1>1, <1>3, <1>4
<1>7. ASSUME NEW i \in DOMAIN q, i # 1
      PROVE  i - 1 \in DOMAIN Tail(q) /\ Tail(q)[i - 1] = q[i]
  <2>1. i - 1 \in 1..(n - 1) /\ (i - 1) + 1 = i
    BY <1>1, <1>7
  <2> QED
    BY <1>3, <1>4, <2>1
<1> QED
  BY <1>1, <1>2, <1>3, <1>5, <1>6, <1>7

LEMMA AppendPlaces ==
  ASSUME NEW S, NEW q \in Seq(S), NEW e \in S
  PROVE  /\ Append(q, e) \in Seq(S)
         /\ DOMAIN Append(q, e) = DOMAIN q \cup {Len(q) + 1}
         /\ Append(q, e)[Len(q) + 1] = e
         /\ \A i \in DOMAIN q : i \in Nat /\ i < Len(q) + 1 /\ Append(q, e)[i] = q[i]
<1>1. Len(q) \in Nat /\ DOMAIN q = 1..Len(q)
  BY LenProperties
<1>2. /\ Append(q, e) \in Seq(S) /\ Len(Append(q, e)) = Len(q) + 1
      /\ Append(q, e)[Len(q) + 1] = e
      /\ \A i \in 1..Len(q) : Append(q, e)[i] = q[i]
  BY AppendProperties
<1>3. DOMAIN Append(q, e) = 1..(Len(q) + 1)
  BY <1>2, LenProperties
<1> QED
  BY <1>1, <1>2, <1>3

LEMMA ArrivingType ==
  ASSUME LinkTypes
  PROVE  /\ toHost # <<>> => Head(toHost) \in HeadsetFrame /\ Tail(toHost) \in Seq(HeadsetFrame)
         /\ toHeadset # <<>> => Arriving \in HostFrame /\ Tail(toHeadset) \in Seq(HostFrame)
  BY HeadTailProperties DEF LinkTypes, Arriving

\* Every step of the two is a step of the connection, or none of it.
LEMMA LinkStepIsStep ==
  ASSUME TypeOK, LinkTypes, [LinkNext]_allVars
  PROVE  [Next]_vars
<1>1. CASE HostAlone
  BY <1>1 DEF HostAlone, Next, Application, Sending, Reading
<1>2. CASE HostTransmits \/ HostReadsNothing \/ LinkTick
  BY <1>2 DEF HostTransmits, HostReadsNothing, LinkTick, Next, Sending, Reading
<1>3. CASE HostReadsAck \/ HostReadsData
  <2>1. Head(toHost).frame \in Frame
    BY <1>3, ArrivingType DEF HostReadsAck, HostReadsData, HeadsetFrame
  <2> QED
    BY <1>3, <2>1 DEF HostReadsAck, HostReadsData, Next, Reading
<1>4. CASE \/ HeadsetAccepts \/ HeadsetDisregards \/ HeadsetReceivesAck
           \/ HeadsetReplies \/ HeadsetNotifies \/ HeadsetSendsAgain
           \/ UNCHANGED allVars
  BY <1>4 DEF HeadsetAccepts, HeadsetDisregards, HeadsetReceivesAck, HeadsetReplies,
              HeadsetNotifies, HeadsetSends, HeadsetSendsAgain, allVars
<1> QED
  BY <1>1, <1>2, <1>3, <1>4 DEF LinkNext

LEMMA LinkTypesStep ==
  ASSUME TypeOK, LinkTypes, RequestIds, [LinkNext]_allVars
  PROVE  LinkTypes' /\ RequestIds'
<1> USE DEF LinkTypes
<1>1. ASSUME UNCHANGED linkVars PROVE LinkTypes' /\ RequestIds'
  BY <1>1 DEF linkVars, RequestIds
<1>2. ASSUME NEW e \in HostFrame, e.request # None => e.sequence_id \in {0, 1},
             toHeadset' = Append(toHeadset, e)
      PROVE  toHeadset' \in Seq(HostFrame) /\ RequestIds'
  <2>1. /\ toHeadset' \in Seq(HostFrame)
        /\ \A i \in DOMAIN toHeadset' : i \in DOMAIN toHeadset \/ toHeadset'[i] = e
        /\ \A i \in DOMAIN toHeadset : toHeadset'[i] = toHeadset[i]
    BY <1>2, AppendPlaces
  <2> QED
    BY <1>2, <2>1 DEF RequestIds
<1>3. ASSUME toHeadset # <<>>, toHeadset' = Tail(toHeadset)
      PROVE  /\ toHeadset' \in Seq(HostFrame) /\ RequestIds'
             /\ Arriving \in HostFrame
             /\ Arriving.request # None => Arriving.sequence_id \in {0, 1}
  <2>1. /\ toHeadset' \in Seq(HostFrame)
        /\ \A i \in DOMAIN toHeadset' :
             i + 1 \in DOMAIN toHeadset /\ toHeadset'[i] = toHeadset[i + 1]
    BY <1>3, TailPlaces
  <2>2. 1 \in DOMAIN toHeadset /\ Arriving = toHeadset[1] /\ Arriving \in HostFrame
    BY <1>3, TailPlaces DEF Arriving
  <2> QED
    BY <2>1, <2>2 DEF RequestIds
<1>4. ASSUME toHost # <<>>, toHost' = Tail(toHost)
      PROVE  /\ toHost' \in Seq(HeadsetFrame)
             /\ Head(toHost).answers \in Requests \cup {None}
             /\ Head(toHost).frame \in Frame
  BY <1>4, ArrivingType DEF HeadsetFrame
<1>5. ASSUME NEW e \in HeadsetFrame, toHost' = Append(toHost, e)
      PROVE  toHost' \in Seq(HeadsetFrame)
  BY <1>5, AppendPlaces
<1>6. ASSUME NEW a \in Requests \cup {None}, answeredBy' = [answeredBy EXCEPT ![Current] = a]
      PROVE  answeredBy' \in [Requests -> Requests \cup {None}]
  BY <1>6
<1>7. CASE HostAlone \/ HostReadsNothing \/ LinkTick
  BY <1>1, <1>7 DEF HostAlone, HostReadsNothing, LinkTick
<1>8. CASE HostTransmits
  <2>1. Current \in Requests /\ sequence_id[Current] \in {0, 1}
    BY <1>8, CurrentType
       DEF HostTransmits, Transmit, TransmissionDue, Unsent, TimedOut, InFlight, TypeOK,
           RequestTypeOK
  <2>2. [request |-> Current, sequence_id |-> sequence_id[Current]] \in HostFrame
    BY <2>1 DEF HostFrame, SeqIds
  <2>3. toHeadset' \in Seq(HostFrame) /\ RequestIds'
    BY <1>2, <1>8, <2>1, <2>2 DEF HostTransmits
  <2> QED
    BY <1>8, <2>3 DEF HostTransmits
<1>9. CASE HostReadsAck
  <2>1. /\ toHost # <<>> /\ toHost' = Tail(toHost)
        /\ \/ answeredBy' = [answeredBy EXCEPT ![Current] = Head(toHost).answers]
           \/ UNCHANGED answeredBy
        /\ UNCHANGED <<toHeadset, owes, dataSeq, unacked, confirmed, seen>>
    BY <1>9 DEF HostReadsAck
  <2>2. answeredBy' \in [Requests -> Requests \cup {None}]
    BY <1>4, <1>6, <2>1
  <2> QED
    BY <1>4, <2>1, <2>2 DEF RequestIds
<1>10. CASE HostReadsData
  <2>1. /\ toHost # <<>> /\ toHost' = Tail(toHost)
        /\ \/ answeredBy' = [answeredBy EXCEPT ![Current] = Head(toHost).answers]
           \/ UNCHANGED answeredBy
        /\ HostAcknowledges(Head(toHost).frame)
        /\ UNCHANGED <<owes, dataSeq, unacked, confirmed, seen>>
    BY <1>10 DEF HostReadsData
  <2>2. answeredBy' \in [Requests -> Requests \cup {None}]
    BY <1>4, <1>6, <2>1
  <2>3. toHeadset' \in Seq(HostFrame) /\ RequestIds'
    <3> DEFINE e == [request |-> None, sequence_id |-> Not(Head(toHost).frame.sequence_id)]
    <3>1. e \in HostFrame /\ e.request = None
      BY DEF HostFrame, SeqIds, Not
    <3> HIDE DEF e
    <3>2. toHeadset' = Append(toHeadset, e) \/ UNCHANGED toHeadset
      BY <2>1 DEF HostAcknowledges, e
    <3> QED
      BY <1>2, <3>1, <3>2 DEF RequestIds
  <2> QED
    BY <1>4, <2>1, <2>2, <2>3
<1>11. CASE HeadsetAccepts
  <2>1. /\ Arriving \in HostFrame /\ Arriving.request \in Requests
        /\ Arriving.sequence_id \in {0, 1}
        /\ toHeadset' \in Seq(HostFrame) /\ RequestIds'
    BY <1>3, <1>11 DEF HeadsetAccepts, HostFrame
  <2>2. [frame |-> [data_type |-> "ACK",
                    sequence_id |-> 1 - Arriving.sequence_id, packet |-> None],
         answers |-> Arriving.request] \in HeadsetFrame
    BY <2>1 DEF HeadsetFrame, Frame, AckFrame, SeqIds
  <2>3. toHost' \in Seq(HeadsetFrame)
    BY <1>5, <1>11, <2>2 DEF HeadsetAccepts
  <2> QED
    BY <1>11, <2>1, <2>3 DEF HeadsetAccepts
<1>12. CASE HeadsetDisregards
  BY <1>3, <1>12 DEF HeadsetDisregards
<1>13. CASE HeadsetReceivesAck
  BY <1>3, <1>13 DEF HeadsetReceivesAck
<1>14. ASSUME NEW p \in Packets, NEW h \in Requests \cup {None}, HeadsetSends(p, h),
              owes' \subseteq Requests
       PROVE  LinkTypes' /\ RequestIds'
  <2> DEFINE e == [frame |-> [data_type |-> "DATA_MDR", sequence_id |-> dataSeq,
                              packet |-> p],
                   answers |-> h]
  <2>1. e \in HeadsetFrame
    BY DEF HeadsetFrame, Frame, DataFrame, SeqIds
  <2> HIDE DEF e
  <2>2. /\ unacked' = e /\ toHost' = Append(toHost, e)
        /\ UNCHANGED <<toHeadset, dataSeq, confirmed, seen, answeredBy>>
    BY <1>14 DEF HeadsetSends, e
  <2> QED
    BY <1>5, <1>14, <2>1, <2>2 DEF RequestIds
<1>15. CASE HeadsetReplies \/ HeadsetNotifies
  BY <1>14, <1>15, LinkAssumption DEF HeadsetReplies, HeadsetNotifies
<1>16. CASE HeadsetSendsAgain
  <2>1. unacked \in HeadsetFrame
    BY <1>16 DEF HeadsetSendsAgain
  <2> QED
    BY <1>5, <1>16, <2>1 DEF HeadsetSendsAgain, RequestIds
<1>17. CASE UNCHANGED allVars
  BY <1>1, <1>17 DEF allVars
<1> QED
  BY <1>7, <1>8, <1>9, <1>10, <1>11, <1>12, <1>13, <1>15, <1>16, <1>17 DEF LinkNext

LEMMA LinkInvariant ==
  LinkSpec => [](TypeOK /\ CallShape /\ LinkTypes /\ RequestIds)
<1>1. LinkInit => TypeOK /\ CallShape /\ LinkTypes /\ RequestIds
  <2> SUFFICES ASSUME LinkInit PROVE TypeOK /\ CallShape /\ LinkTypes /\ RequestIds
    OBVIOUS
  <2>1. TypeOK /\ CallShape
    BY InitType, InitShape DEF LinkInit
  <2> QED
    BY <2>1, EmptySeq DEF LinkInit, LinkTypes, RequestIds
<1>2. /\ TypeOK /\ CallShape /\ LinkTypes /\ RequestIds /\ [LinkNext]_allVars
      => (TypeOK /\ CallShape /\ LinkTypes /\ RequestIds)'
  BY LinkStepIsStep, TypeStep, ShapeStep, LinkTypesStep
<1> QED
  BY <1>1, <1>2, PTL DEF LinkSpec

(***************************************************************************)
(* The types of the channel and of the headset, and of the connection      *)
(* while it talks to it.                                                   *)
(***************************************************************************)
THEOREM LinkTypeCorrect == LinkSpec => []LinkTypeOK
<1>1. TypeOK /\ CallShape /\ LinkTypes /\ RequestIds => LinkTypeOK
  BY DEF LinkTypes, LinkTypeOK
<1> QED
  BY <1>1, LinkInvariant, PTL

(***************************************************************************)
(* The connection of the composed system is the connection of PacketConn:  *)
(* whatever is proved of that holds when it talks to a headset.            *)
(***************************************************************************)
THEOREM LinkIsConnection == LinkSpec => Spec
<1>1. LinkInit => Init
  BY DEF LinkInit
<1>2. TypeOK /\ LinkTypes /\ [LinkNext]_allVars => [Next]_vars
  BY LinkStepIsStep
<1> QED
  BY <1>1, <1>2, LinkInvariant, PTL DEF LinkSpec, Spec
-----------------------------------------------------------------------------
(***************************************************************************)
(* A headset that answers in time.  Of a request, at most one thing is     *)
(* under way: the request, or its ACK and then its answer.  All of them    *)
(* belong to the request first in line, which still waits for them, and    *)
(* none is under way when the time is over.                                *)
(***************************************************************************)

\* The headset answers in time, and its notifications do not look like replies.
Prompt ==
  /\ HeadsetIsPrompt
  /\ \A h \in Requests : ~reply_specifier_matches(RequestSpec[h], Notification)

Waiting(h) == fate[h] = "PENDING" /\ attempts[h] # 0

\* The places of requests, of their ACKs and of their answers in the channel.
Asks == {i \in DOMAIN toHeadset : toHeadset[i].request # None}
Acks == {i \in DOMAIN toHost : toHost[i].frame.data_type = "ACK"}
Answers ==
  {i \in DOMAIN toHost : toHost[i].frame.data_type # "ACK" /\ toHost[i].answers # None}

AsksInv ==
  \A i \in Asks :
    /\ Asks = {i} /\ Acks = {} /\ Answers = {} /\ owes = {} /\ timer >= 0
    /\ LET h == toHeadset[i].request
       IN Waiting(h) /\ ~acked[h] /\ toHeadset[i].sequence_id = sequence_id[h]

AcksInv ==
  \A i \in Acks :
    /\ Acks = {i} /\ timer >= 0 /\ \A j \in Answers : i < j
    /\ LET h == toHost[i].answers
       IN /\ h \in Requests
          /\ Waiting(h) /\ ~acked[h]
          /\ toHost[i].frame.sequence_id = 1 - sequence_id[h]

AnswersInv ==
  \A i \in Answers :
    /\ Answers = {i} /\ owes = {} /\ timer >= 0
    /\ Waiting(toHost[i].answers) /\ ~RequestSpec[toHost[i].answers].only_ack

OwesInv == \A h \in owes : Waiting(h) /\ ~RequestSpec[h].only_ack /\ timer >= 0

OthersInv ==
  /\ \A i \in DOMAIN toHost \ (Acks \cup Answers) :
       toHost[i].frame.packet = Notification
  /\ \A h \in Requests : acked[h] => attempts[h] # 0
  /\ pc \notin {"closing", "closed"}

ExchangeInv == AsksInv /\ AcksInv /\ AnswersInv /\ OwesInv /\ OthersInv

\* What the headset has confirmed, and what it has seen last.
ConfirmedInv ==
  \A h \in confirmed :
    /\ fate[h] \notin {"NEW", "NO_ACK"} /\ attempts[h] # 0
    /\ fate[h] = "PENDING" => acked[h] \/ \E i \in Acks : toHost[i].answers = h

SeenInv ==
  /\ \A h \in Requests :
       Waiting(h) => \/ seen # None /\ seen.request = h
                     \/ \E i \in Asks : toHeadset[i].request = h
  /\ seen # None =>
       /\ seen.request \in Requests /\ attempts[seen.request] # 0
       /\ Waiting(seen.request) => seen.sequence_id = due
       /\ ~Waiting(seen.request) /\ seen.request \in confirmed => seen.sequence_id = 1 - due

\* What is known of the connection and of the channel by themselves.
Base ==
  TypeOK /\ CallShape /\ QueueInv /\ StopAndWaitInv /\ SequenceIdInv /\ LinkTypes /\ RequestIds

\* Nothing is under way.
Calm == Asks = {} /\ Acks = {} /\ Answers = {} /\ owes = {}

LEMMA WaitingIsCurrent ==
  ASSUME Base, OthersInv, NEW h \in Requests, Waiting(h)
  PROVE  /\ queue # <<>> /\ h = Current /\ ~EndingFirst
         /\ sequence_id[h] = due /\ sequence_id[h] \in {0, 1}
<1>1. fate[h] = "PENDING" /\ attempts[h] # 0
  BY DEF Waiting
<1>2. queue # <<>> /\ h = Current
  BY <1>1, PendingMeansQueue DEF Base, StopAndWaitInv, StopAndWait
<1>3. ~EndingFirst
  BY <1>1, <1>2 DEF Base, StopAndWaitInv, Endings
<1>4. sequence_id[h] = due
  BY <1>2, <1>3 DEF Base, SequenceIdInv, AlternatingSequenceId, OthersInv, EndingFirst
<1> QED
  BY <1>2, <1>3, <1>4 DEF Base, TypeOK, RequestTypeOK

\* The requests that things in the channel belong to.
LEMMA UnderWay ==
  ASSUME Base, ExchangeInv
  PROVE  /\ \A i \in Asks : toHeadset[i].request \in Requests
         /\ \A i \in Answers : toHost[i].answers \in Requests
<1>1. \A i \in DOMAIN toHeadset : toHeadset[i] \in HostFrame
  BY LenProperties, ElementOfSeq DEF Base, LinkTypes
<1>2. \A i \in DOMAIN toHost : toHost[i] \in HeadsetFrame
  BY LenProperties, ElementOfSeq DEF Base, LinkTypes
<1> QED
  BY <1>1, <1>2 DEF Asks, Answers, HostFrame, HeadsetFrame

LEMMA CalmWhenNobodyWaits ==
  ASSUME Base, ExchangeInv, \A h \in Requests : ~Waiting(h)
  PROVE  Calm
<1>1. Asks = {} /\ Answers = {}
  BY UnderWay DEF ExchangeInv, AsksInv, AnswersInv
<1>2. Acks = {}
  BY DEF ExchangeInv, AcksInv
<1>3. owes = {}
  BY DEF ExchangeInv, OwesInv, Base, LinkTypes
<1> QED
  BY <1>1, <1>2, <1>3 DEF Calm

LEMMA CalmWhenTimeIsOver ==
  ASSUME Base, ExchangeInv, timer < 0
  PROVE  Calm
<1>1. ~(timer >= 0)
  BY TimeoutAssumption DEF Base, TypeOK, RequestTypeOK
<1> QED
  BY <1>1 DEF ExchangeInv, AsksInv, AcksInv, AnswersInv, OwesInv, Calm

\* A step of the connection that nothing under way has to do with.
LEMMA FrozenKeepsExchange ==
  ASSUME Base, ExchangeInv, UNCHANGED <<toHeadset, toHost, owes>>,
         \A h \in Requests :
           /\ Waiting(h) => /\ fate'[h] = "PENDING" /\ attempts'[h] # 0
                            /\ acked'[h] = acked[h] /\ sequence_id'[h] = sequence_id[h]
                            /\ timer >= 0 => timer' >= 0
           /\ acked'[h] => attempts'[h] # 0,
         pc' \notin {"closing", "closed"}
  PROVE  ExchangeInv'
<1>1. Asks' = Asks /\ Acks' = Acks /\ Answers' = Answers
  BY DEF Asks, Acks, Answers
<1>2. OthersInv'
  BY <1>1 DEF ExchangeInv, OthersInv
<1>3. AsksInv'
  BY <1>1, UnderWay DEF ExchangeInv, AsksInv, Waiting
<1>4. AcksInv'
  BY <1>1 DEF ExchangeInv, AcksInv, Waiting
<1>5. AnswersInv'
  BY <1>1, UnderWay DEF ExchangeInv, AnswersInv, Waiting
<1>6. OwesInv'
  BY DEF ExchangeInv, OwesInv, Waiting, Base, LinkTypes
<1> QED
  BY <1>2, <1>3, <1>4, <1>5, <1>6 DEF ExchangeInv

LEMMA HostAloneExchange ==
  ASSUME Base, ExchangeInv, HostAlone \/ HostReadsNothing
  PROVE  ExchangeInv'
<1> USE DEF Waiting
<1>0. /\ UNCHANGED <<toHeadset, toHost, owes>>
      /\ pc \notin {"closing", "closed"}
      /\ \A h \in Requests : acked[h] => attempts[h] # 0
  BY DEF HostAlone, HostReadsNothing, linkVars, ExchangeInv, OthersInv
<1>1. ASSUME NEW h \in Requests, MakeRequest(h) PROVE ExchangeInv'
  <2>1. /\ fate[h] = "NEW" /\ fate' = [fate EXCEPT ![h] = "PENDING"]
        /\ UNCHANGED <<attempts, acked, timer, pc>>
        /\ \A g \in Requests \ {h} : sequence_id'[g] = sequence_id[g]
    BY <1>1 DEF MakeRequest, callVars, Base, TypeOK, RequestTypeOK
  <2>2. \A g \in Requests : Waiting(g) => g # h /\ fate'[g] = "PENDING"
    BY <2>1 DEF Base, TypeOK, HistoryTypeOK
  <2> QED
    BY <1>0, <2>1, <2>2, FrozenKeepsExchange
<1>2. ASSUME \/ \E s \in Subscriptions : Subscribe(s)
             \/ \E r, w \in BOOLEAN : Process(r, w)
             \/ NothingToSend \/ ReadSkipped \/ ReadNothing
             \/ ResultCallbackReturns \/ NotifyNext \/ NotifyEnds
      PROVE  ExchangeInv'
  <2>1. UNCHANGED <<fate, attempts, acked, sequence_id, timer>>
        /\ pc' \notin {"closing", "closed"}
    BY <1>0, <1>2 DEF Subscribe, Process, NothingToSend, ReadSkipped, ReadNothing,
                ResultCallbackReturns, NotifyNext, NotifyEnds, Return, GoTo, Notify,
                requestVars, callVars, historyVars
  <2> QED
    BY <1>0, <2>1, FrozenKeepsExchange
<1>3. CASE GiveUp
  <2>1. Calm
    BY <1>3, CalmWhenTimeIsOver DEF GiveUp, TimedOut
  <2>2. UNCHANGED <<attempts, acked>> /\ pc' = "errcb"
    BY <1>3 DEF GiveUp, GoTo
  <2>3. Calm' /\ OthersInv'
    BY <1>0, <2>1, <2>2 DEF Calm, Asks, Acks, Answers, ExchangeInv, OthersInv
  <2> QED
    BY <2>3 DEF Calm, ExchangeInv, AsksInv, AcksInv, AnswersInv, OwesInv
<1>4. CASE ErrorCallbackReturns
  <2>1. \A h \in Requests : ~Waiting(h)
    BY <1>4, WaitingIsCurrent DEF ErrorCallbackReturns, EndingFirst, ExchangeInv
  <2>2. UNCHANGED <<attempts, acked>> /\ pc' = "read"
    BY <1>4 DEF ErrorCallbackReturns, GoTo
  <2> QED
    BY <1>0, <2>1, <2>2, FrozenKeepsExchange
<1>5. ~CloseCallbackReturns
  BY <1>0 DEF CloseCallbackReturns
<1> QED
  BY <1>1, <1>2, <1>3, <1>4, <1>5 DEF HostAlone, HostReadsNothing, CallbackReturns

LEMMA HostTransmitsExchange ==
  ASSUME Base, ExchangeInv, HostTransmits
  PROVE  ExchangeInv'
<1> DEFINE e == [request |-> Current, sequence_id |-> sequence_id[Current]]
           n == Len(toHeadset) + 1
<1>1. /\ pc = "send" /\ pc' = "read" /\ queue # <<>> /\ Current \in Requests
      /\ attempts' = [attempts EXCEPT ![Current] = @ + 1] /\ timer' = AckTimeout
      /\ toHeadset' = Append(toHeadset, e) /\ UNCHANGED <<toHost, owes>>
      /\ UNCHANGED <<acked, sequence_id, fate, queue>>
      /\ attempts[Current] = 0 \/ (timer < 0 /\ ~acked[Current])
  <2>1. Transmit /\ toHeadset' = Append(toHeadset, e) /\ UNCHANGED <<toHost, owes>>
    BY DEF HostTransmits
  <2>2. queue # <<>> /\ (attempts[Current] = 0 \/ (timer < 0 /\ ~acked[Current]))
    BY <2>1 DEF Transmit, TransmissionDue, Unsent, TimedOut, Hopeless, InFlight
  <2>3. Current \in Requests
    BY <2>2, CurrentType DEF Base, TypeOK
  <2> QED
    BY <2>1, <2>2, <2>3 DEF Transmit, GoTo
<1>2. Calm /\ ~acked[Current]
  <2>1. CASE attempts[Current] = 0
    <3>1. \A h \in Requests : ~Waiting(h)
      BY <2>1, WaitingIsCurrent DEF Waiting, ExchangeInv
    <3> QED
      BY <1>1, <2>1, <3>1, CalmWhenNobodyWaits DEF ExchangeInv, OthersInv
  <2>2. CASE timer < 0 /\ ~acked[Current]
    BY <2>2, CalmWhenTimeIsOver
  <2> QED
    BY <1>1, <2>1, <2>2
<1>3. e \in HostFrame /\ e.request = Current /\ e.request # None
      /\ e.sequence_id = sequence_id[Current]
  <2>1. sequence_id[Current] \in {0, 1}
    BY <1>1 DEF Base, TypeOK, RequestTypeOK
  <2>2. None \notin Requests
    BY NoneAssumption
  <2> QED
    BY <1>1, <2>1, <2>2 DEF HostFrame, SeqIds
<1> HIDE DEF e, n
<1>4. Asks' = {n} /\ Acks' = {} /\ Answers' = {} /\ owes' = {} /\ toHeadset'[n] = e
  <2>1. /\ DOMAIN toHeadset' = DOMAIN toHeadset \cup {n} /\ toHeadset'[n] = e
        /\ \A i \in DOMAIN toHeadset : toHeadset'[i] = toHeadset[i]
    BY <1>1, <1>3, AppendPlaces DEF Base, LinkTypes, n
  <2>2. Asks' = {n}
    BY <1>2, <1>3, <2>1 DEF Calm, Asks
  <2> QED
    BY <1>1, <1>2, <2>1, <2>2 DEF Calm, Acks, Answers
<1>5. Waiting(Current)'
  <2>1. fate[Current] = "PENDING"
    BY <1>1, CurrentIsPending DEF Base, EndingFirst
  <2>2. attempts'[Current] # 0
    BY <1>1 DEF Base, TypeOK, RequestTypeOK
  <2>3. Current' = Current
    BY <1>1 DEF Current
  <2> QED
    BY <1>1, <2>1, <2>2, <2>3 DEF Waiting
<1>6. AsksInv'
  <2>1. Current' = Current
    BY <1>1 DEF Current
  <2>2. timer' >= 0
    BY <1>1, TimeoutAssumption
  <2>3. /\ fate'[Current] = "PENDING" /\ attempts'[Current] # 0
        /\ ~acked'[Current] /\ sequence_id'[Current] = sequence_id[Current]
    BY <1>1, <1>2, <1>5, <2>1 DEF Waiting
  <2> QED
    BY <1>3, <1>4, <2>2, <2>3 DEF AsksInv, Waiting
<1>7. OthersInv'
  <2>1. \A h \in Requests : attempts[h] # 0 => attempts'[h] # 0
    BY <1>1, TimeoutAssumption DEF Base, TypeOK, RequestTypeOK
  <2> QED
    BY <1>1, <1>2, <1>4, <2>1 DEF ExchangeInv, OthersInv, Calm
<1> QED
  BY <1>4, <1>6, <1>7 DEF ExchangeInv, AcksInv, AnswersInv, OwesInv

\* What is left in a channel when its first frame is taken.
LEMMA HostTakes ==
  ASSUME LinkTypes, toHost # <<>>, toHost' = Tail(toHost)
  PROVE  /\ \A i \in Acks' : i \in Nat /\ i + 1 \in Acks /\ i + 1 # 1 /\ toHost'[i] = toHost[i + 1]
         /\ \A i \in Answers' :
              i \in Nat /\ i + 1 \in Answers /\ i + 1 # 1 /\ toHost'[i] = toHost[i + 1]
         /\ \A i \in DOMAIN toHost' \ (Acks' \cup Answers') :
              /\ i + 1 \in DOMAIN toHost \ (Acks \cup Answers)
              /\ toHost'[i] = toHost[i + 1]
<1>1. \A i \in DOMAIN toHost' :
        i \in Nat /\ i >= 1 /\ i + 1 \in DOMAIN toHost /\ toHost'[i] = toHost[i + 1]
  <2>1. toHost \in Seq(HeadsetFrame) /\ Tail(toHost) \in Seq(HeadsetFrame)
    BY TailPlaces DEF LinkTypes
  <2>2. \A i \in DOMAIN Tail(toHost) : i \in Nat /\ i >= 1
    BY <2>1, LenProperties
  <2> QED
    BY <2>1, <2>2, TailPlaces
<1>2. \A i \in DOMAIN toHost' : i + 1 # 1
  BY <1>1
<1> QED
  BY <1>1, <1>2 DEF Acks, Answers

LEMMA HeadsetTakes ==
  ASSUME LinkTypes, toHeadset # <<>>, toHeadset' = Tail(toHeadset)
  PROVE  /\ Arriving = toHeadset[1] /\ 1 \in DOMAIN toHeadset /\ Arriving \in HostFrame
         /\ \A i \in Asks' :
              i \in Nat /\ i + 1 \in Asks /\ i + 1 # 1 /\ toHeadset'[i] = toHeadset[i + 1]
<1>1. \A i \in DOMAIN toHeadset' :
        i \in Nat /\ i >= 1 /\ i + 1 \in DOMAIN toHeadset /\ toHeadset'[i] = toHeadset[i + 1]
  <2>1. toHeadset \in Seq(HostFrame) /\ Tail(toHeadset) \in Seq(HostFrame)
    BY TailPlaces DEF LinkTypes
  <2>2. \A i \in DOMAIN Tail(toHeadset) : i \in Nat /\ i >= 1
    BY <2>1, LenProperties
  <2> QED
    BY <2>1, <2>2, TailPlaces
<1>2. \A i \in DOMAIN toHeadset' : i + 1 # 1
  BY <1>1
<1>3. Arriving = toHeadset[1] /\ 1 \in DOMAIN toHeadset /\ Arriving \in HostFrame
  BY TailPlaces DEF LinkTypes, Arriving
<1> QED
  BY <1>1, <1>2, <1>3 DEF Asks

\* A frame that the headset puts into the channel is behind all others.
LEMMA HeadsetPuts ==
  ASSUME LinkTypes, NEW e \in HeadsetFrame, toHost' = Append(toHost, e)
  PROVE  \E n \in Nat :
           /\ toHost'[n] = e /\ n \notin DOMAIN toHost
           /\ \A i \in DOMAIN toHost : i < n /\ toHost'[i] = toHost[i]
           /\ Acks' = Acks \cup {i \in {n} : e.frame.data_type = "ACK"}
           /\ Answers' = Answers \cup
                {i \in {n} : e.frame.data_type # "ACK" /\ e.answers # None}
           /\ DOMAIN toHost' = DOMAIN toHost \cup {n}
<1> DEFINE n == Len(toHost) + 1
<1>1. /\ DOMAIN toHost' = DOMAIN toHost \cup {n} /\ toHost'[n] = e
      /\ \A i \in DOMAIN toHost : i \in Nat /\ i < n /\ toHost'[i] = toHost[i]
  BY AppendPlaces DEF LinkTypes
<1>2. n \in Nat
  BY LenProperties DEF LinkTypes
<1> HIDE DEF n
<1>3. n \notin DOMAIN toHost
  BY <1>1, <1>2
<1>4. Acks' = Acks \cup {i \in {n} : e.frame.data_type = "ACK"}
  BY <1>1 DEF Acks
<1>5. Answers' = Answers \cup {i \in {n} : e.frame.data_type # "ACK" /\ e.answers # None}
  BY <1>1 DEF Answers
<1> QED
  BY <1>1, <1>2, <1>3, <1>4, <1>5

LEMMA HostReadsAckExchange ==
  ASSUME Base, ExchangeInv, HostReadsAck
  PROVE  ExchangeInv'
<1> DEFINE f == Head(toHost).frame
<1>1. /\ toHost # <<>> /\ toHost' = Tail(toHost) /\ UNCHANGED <<toHeadset, owes>>
      /\ AckCompletes(f) \/ AckAwaitsReply(f) \/ AckIgnored(f)
  BY DEF HostReadsAck
<1>2. f = toHost[1].frame /\ 1 \in Acks
  <2>1. Head(toHost) = toHost[1] /\ 1 \in DOMAIN toHost
    BY <1>1, TailPlaces DEF Base, LinkTypes
  <2>2. f.data_type = "ACK"
    BY <1>1 DEF AckCompletes, AckAwaitsReply, AckIgnored, ReadsAck
  <2> QED
    BY <2>1, <2>2 DEF Acks
<1> HIDE DEF f
<1>3. /\ Acks = {1} /\ Asks = {} /\ Current \in Requests
      /\ Waiting(Current) /\ ~acked[Current] /\ queue # <<>>
      /\ f.sequence_id = 1 - sequence_id[Current]
      /\ \A h \in Requests : Waiting(h) => h = Current
  <2>1. /\ Acks = {1} /\ toHost[1].answers \in Requests
        /\ Waiting(toHost[1].answers) /\ ~acked[toHost[1].answers]
        /\ f.sequence_id = 1 - sequence_id[toHost[1].answers]
    BY <1>2 DEF ExchangeInv, AcksInv
  <2>2. Asks = {}
    BY <1>2 DEF ExchangeInv, AsksInv
  <2> QED
    BY <2>1, <2>2, WaitingIsCurrent DEF ExchangeInv
<1>4. ~AckIgnored(f)
  BY <1>3 DEF AckIgnored, AckExpected
<1>5. /\ Acks' = {} /\ Asks' = {}
      /\ \A i \in Answers' : i \in Nat /\ i + 1 \in Answers /\ toHost'[i] = toHost[i + 1]
  <2>1. Acks' = {}
    BY <1>1, <1>3, HostTakes DEF Base
  <2> QED
    BY <1>1, <1>3, <2>1, HostTakes DEF Base, Asks
<1>6. OthersInv'
  <2>1. \A i \in DOMAIN toHost' \ (Acks' \cup Answers') : toHost'[i].frame.packet = Notification
    BY <1>1, HostTakes DEF Base, ExchangeInv, OthersInv
  <2>2. /\ \A h \in Requests : acked'[h] => acked[h] \/ h = Current
        /\ UNCHANGED attempts /\ pc' \notin {"closing", "closed"}
    BY <1>1, <1>4 DEF AckCompletes, AckAwaitsReply, GoTo, Return, Base, TypeOK, RequestTypeOK
  <2> QED
    BY <1>3, <2>1, <2>2 DEF ExchangeInv, OthersInv, Waiting
<1>7. CASE AckCompletes(f)
  <2>1. Answers = {} /\ owes = {}
    <3>1. Answers = {}
      BY <1>3, <1>7, UnderWay DEF AckCompletes, ExchangeInv, AnswersInv
    <3>2. owes = {}
      BY <1>3, <1>7 DEF AckCompletes, ExchangeInv, OwesInv, Base, LinkTypes
    <3> QED
      BY <3>1, <3>2
  <2>2. Answers' = {} /\ owes' = {}
    BY <1>1, <1>5, <2>1
  <2> QED
    BY <1>5, <1>6, <2>2 DEF ExchangeInv, AsksInv, AcksInv, AnswersInv, OwesInv
<1>8. CASE AckAwaitsReply(f)
  <2>1. UNCHANGED <<fate, attempts>> /\ timer' >= 0
    BY <1>8, TimeoutAssumption DEF AckAwaitsReply, historyVars
  <2>2. AnswersInv'
    <3> SUFFICES ASSUME NEW i \in Answers'
                 PROVE  /\ Answers' = {i} /\ owes' = {} /\ timer' >= 0
                        /\ Waiting(toHost[i].answers)' /\ ~RequestSpec[toHost'[i].answers].only_ack
      BY DEF AnswersInv
    <3>1. i \in Nat /\ i + 1 \in Answers /\ toHost'[i] = toHost[i + 1]
      BY <1>5
    <3>2. Answers = {i + 1}
      BY <3>1 DEF ExchangeInv, AnswersInv
    <3>3. Answers' = {i}
      <4>1. \A j \in Answers' : j \in Nat /\ j + 1 = i + 1
        BY <1>5, <3>2
      <4>2. \A j \in Answers' : j = i
        BY <3>1, <4>1
      <4> QED
        BY <4>2
    <3> QED
      BY <1>1, <2>1, <3>1, <3>3 DEF ExchangeInv, AnswersInv, Waiting
  <2>3. OwesInv'
    BY <1>1, <2>1 DEF ExchangeInv, OwesInv, Waiting
  <2> QED
    BY <1>5, <1>6, <2>2, <2>3 DEF ExchangeInv, AsksInv, AcksInv
<1> QED
  BY <1>1, <1>4, <1>7, <1>8

\* The acknowledgement of a data frame is no request.
LEMMA AcknowledgementIsNoAsk ==
  ASSUME LinkTypes, NEW f, HostAcknowledges(f)
  PROVE  Asks' = Asks /\ \A i \in Asks : toHeadset'[i] = toHeadset[i]
<1> DEFINE e == [request |-> None, sequence_id |-> Not(f.sequence_id)]
<1>1. e \in HostFrame /\ e.request = None
  BY DEF HostFrame, SeqIds, Not
<1> HIDE DEF e
<1>2. CASE toHeadset' = Append(toHeadset, e)
  <2>1. /\ DOMAIN toHeadset' = DOMAIN toHeadset \cup {Len(toHeadset) + 1}
        /\ toHeadset'[Len(toHeadset) + 1] = e
        /\ \A i \in DOMAIN toHeadset : toHeadset'[i] = toHeadset[i]
    BY <1>1, <1>2, AppendPlaces DEF LinkTypes
  <2> QED
    BY <1>1, <2>1 DEF Asks
<1> QED
  BY <1>2 DEF HostAcknowledges, Asks, e

\* A packet that is no answer is taken for none.
LEMMA NotificationIsNoReply ==
  ASSUME Base, Prompt, NEW f, f.packet = Notification
  PROVE  ~IsReply(f)
<1>1. queue # <<>> => Current \in Requests
  BY CurrentType DEF Base, TypeOK
<1> QED
  BY <1>1 DEF Prompt, IsReply

LEMMA HostReadsDataExchange ==
  ASSUME Base, Prompt, ExchangeInv, HostReadsData
  PROVE  ExchangeInv'
<1> DEFINE f == Head(toHost).frame
<1>1. /\ toHost # <<>> /\ toHost' = Tail(toHost) /\ UNCHANGED owes
      /\ ReadReply(f) \/ ReadNotification(f) \/ ReadUnexpected(f)
      /\ HostAcknowledges(f)
  BY DEF HostReadsData
<1>2. f = toHost[1].frame /\ 1 \in DOMAIN toHost /\ 1 \notin Acks
  <2>1. Head(toHost) = toHost[1] /\ 1 \in DOMAIN toHost
    BY <1>1, TailPlaces DEF Base, LinkTypes
  <2>2. f.data_type # "ACK"
    BY <1>1 DEF ReadReply, ReadNotification, ReadUnexpected, ReadsData
  <2> QED
    BY <2>1, <2>2 DEF Acks
<1> HIDE DEF f
<1>3. Asks' = Asks /\ \A i \in Asks : toHeadset'[i] = toHeadset[i]
  BY <1>1, AcknowledgementIsNoAsk DEF Base
<1>4. OthersInv'
  <2>1. \A i \in DOMAIN toHost' \ (Acks' \cup Answers') : toHost'[i].frame.packet = Notification
    BY <1>1, HostTakes DEF Base, ExchangeInv, OthersInv
  <2>2. UNCHANGED <<acked, attempts>> /\ pc' \notin {"closing", "closed"}
    BY <1>1 DEF ReadReply, ReadNotification, ReadUnexpected, GoTo, Return, Notify, requestVars
  <2> QED
    BY <2>1, <2>2 DEF ExchangeInv, OthersInv
<1>5. CASE 1 \in Answers
  <2>1. Answers = {1} /\ owes = {} /\ Asks = {}
    BY <1>5 DEF ExchangeInv, AnswersInv, AsksInv
  <2>2. Acks = {}
    <3> SUFFICES ASSUME NEW i \in Acks PROVE FALSE
      OBVIOUS
    <3>1. i < 1
      BY <1>5 DEF ExchangeInv, AcksInv
    <3>2. i \in Nat /\ i >= 1
      BY <1>1, TailPlaces DEF Acks, Base, LinkTypes
    <3> QED
      BY <3>1, <3>2
  <2>3. Answers' = {} /\ Acks' = {} /\ Asks' = {} /\ owes' = {}
    <3>1. Answers' = {}
      BY <1>1, <2>1, HostTakes DEF Base
    <3>2. Acks' = {}
      BY <1>1, <2>2, HostTakes DEF Base
    <3> QED
      BY <1>1, <1>3, <2>1, <3>1, <3>2
  <2> QED
    BY <1>4, <2>3 DEF ExchangeInv, AsksInv, AcksInv, AnswersInv, OwesInv
<1>6. CASE 1 \notin Answers
  <2>1. f.packet = Notification
    BY <1>2, <1>6 DEF ExchangeInv, OthersInv
  <2>2. UNCHANGED <<fate, attempts, acked, sequence_id, timer>>
    BY <1>1, <2>1, NotificationIsNoReply
       DEF ReadReply, ReadNotification, ReadUnexpected, requestVars, historyVars
  <2>3. \A i \in Acks' : i \in Nat /\ i + 1 \in Acks /\ toHost'[i] = toHost[i + 1]
    BY <1>1, HostTakes DEF Base
  <2>4. \A i \in Answers' : i \in Nat /\ i + 1 \in Answers /\ toHost'[i] = toHost[i + 1]
    BY <1>1, HostTakes DEF Base
  <2>5. AsksInv'
    <3>1. \A i \in Asks : Acks' = {} /\ Answers' = {}
      BY <2>3, <2>4 DEF ExchangeInv, AsksInv
    <3> QED
      BY <1>1, <1>3, <2>2, <3>1 DEF ExchangeInv, AsksInv, Waiting
  <2>6. AcksInv'
    <3> SUFFICES ASSUME NEW i \in Acks'
                 PROVE  /\ Acks' = {i} /\ timer' >= 0 /\ \A j \in Answers' : i < j
                        /\ toHost'[i].answers \in Requests
                        /\ Waiting(toHost[i].answers)' /\ ~acked'[toHost'[i].answers]
                        /\ toHost'[i].frame.sequence_id = 1 - sequence_id'[toHost'[i].answers]
      BY DEF AcksInv
    <3>1. i \in Nat /\ i + 1 \in Acks /\ toHost'[i] = toHost[i + 1]
      BY <2>3
    <3>2. Acks = {i + 1} /\ \A j \in Answers : i + 1 < j
      BY <3>1 DEF ExchangeInv, AcksInv
    <3>3. Acks' = {i}
      <4>1. \A j \in Acks' : j \in Nat /\ j + 1 = i + 1
        <5>1. Acks = {i + 1}
          BY <3>2
        <5> QED
          BY <2>3, <5>1
      <4>2. \A j \in Acks' : j = i
        BY <3>1, <4>1
      <4> QED
        BY <4>2
    <3>4. \A j \in Answers' : i < j
      BY <2>4, <3>1, <3>2
    <3> QED
      BY <2>2, <3>1, <3>3, <3>4 DEF ExchangeInv, AcksInv, Waiting
  <2>7. AnswersInv'
    <3> SUFFICES ASSUME NEW i \in Answers'
                 PROVE  /\ Answers' = {i} /\ owes' = {} /\ timer' >= 0
                        /\ Waiting(toHost[i].answers)' /\ ~RequestSpec[toHost'[i].answers].only_ack
      BY DEF AnswersInv
    <3>1. i \in Nat /\ i + 1 \in Answers /\ toHost'[i] = toHost[i + 1]
      BY <2>4
    <3>2. Answers = {i + 1}
      BY <3>1 DEF ExchangeInv, AnswersInv
    <3>3. Answers' = {i}
      <4>1. \A j \in Answers' : j \in Nat /\ j + 1 = i + 1
        BY <2>4, <3>2
      <4>2. \A j \in Answers' : j = i
        BY <3>1, <4>1
      <4> QED
        BY <4>2
    <3> QED
      BY <1>1, <2>2, <3>1, <3>3 DEF ExchangeInv, AnswersInv, Waiting
  <2>8. OwesInv'
    BY <1>1, <2>2 DEF ExchangeInv, OwesInv, Waiting
  <2> QED
    BY <1>4, <2>5, <2>6, <2>7, <2>8 DEF ExchangeInv
<1> QED
  BY <1>5, <1>6

LEMMA HeadsetTakesExchange ==
  ASSUME Base, ExchangeInv, HeadsetDisregards \/ HeadsetReceivesAck
  PROVE  ExchangeInv'
<1>1. /\ toHeadset # <<>> /\ toHeadset' = Tail(toHeadset)
      /\ UNCHANGED <<toHost, owes>> /\ UNCHANGED vars
  BY DEF HeadsetDisregards, HeadsetReceivesAck
<1>2. /\ UNCHANGED <<fate, attempts, acked, sequence_id, timer, pc>>
      /\ Acks' = Acks /\ Answers' = Answers
  BY <1>1 DEF vars, requestVars, callVars, historyVars, Acks, Answers
<1>3. \A i \in Asks' : i \in Nat /\ i + 1 \in Asks /\ i + 1 # 1 /\ toHeadset'[i] = toHeadset[i + 1]
  BY <1>1, HeadsetTakes DEF Base
<1>4. AsksInv'
  <2> SUFFICES ASSUME NEW i \in Asks'
               PROVE  /\ Asks' = {i} /\ Acks' = {} /\ Answers' = {} /\ owes' = {} /\ timer' >= 0
                      /\ Waiting(toHeadset[i].request)' /\ ~acked'[toHeadset'[i].request]
                      /\ toHeadset'[i].sequence_id = sequence_id'[toHeadset'[i].request]
    BY DEF AsksInv
  <2>1. i \in Nat /\ i + 1 \in Asks /\ toHeadset'[i] = toHeadset[i + 1]
    BY <1>3
  <2>2. Asks = {i + 1}
    BY <2>1 DEF ExchangeInv, AsksInv
  <2>3. Asks' = {i}
    <3>1. \A j \in Asks' : j \in Nat /\ j + 1 = i + 1
      BY <1>3, <2>2
    <3>2. \A j \in Asks' : j = i
      BY <2>1, <3>1
    <3> QED
      BY <3>2
  <2> QED
    BY <1>1, <1>2, <2>1, <2>3 DEF ExchangeInv, AsksInv, Waiting
<1>5. AcksInv' /\ AnswersInv' /\ OwesInv'
  BY <1>1, <1>2 DEF ExchangeInv, AcksInv, AnswersInv, OwesInv, Waiting
<1>6. OthersInv'
  BY <1>1, <1>2 DEF ExchangeInv, OthersInv
<1> QED
  BY <1>4, <1>5, <1>6 DEF ExchangeInv

LEMMA HeadsetAcceptsExchange ==
  ASSUME Base, ExchangeInv, HeadsetAccepts
  PROVE  ExchangeInv'
<1> DEFINE h == Arriving.request
           e == [frame |-> [data_type |-> "ACK",
                            sequence_id |-> 1 - Arriving.sequence_id, packet |-> None],
                 answers |-> h]
<1>1. /\ toHeadset # <<>> /\ toHeadset' = Tail(toHeadset) /\ toHost' = Append(toHost, e)
      /\ h # None
      /\ owes' = IF RequestSpec[h].only_ack THEN owes ELSE owes \cup {h}
      /\ UNCHANGED vars
  BY DEF HeadsetAccepts
<1>2. UNCHANGED <<fate, attempts, acked, sequence_id, timer, pc>>
  BY <1>1 DEF vars, requestVars, callVars, historyVars
<1>3. 1 \in Asks /\ Arriving = toHeadset[1] /\ Arriving \in HostFrame
  BY <1>1, HeadsetTakes DEF Base, Asks
<1>4. /\ h \in Requests /\ Asks = {1} /\ Acks = {} /\ Answers = {} /\ owes = {} /\ timer >= 0
      /\ Waiting(h) /\ ~acked[h] /\ Arriving.sequence_id = sequence_id[h]
      /\ Arriving.sequence_id \in {0, 1}
  <2>1. h \in Requests
    BY <1>1, <1>3 DEF HostFrame
  <2>2. Arriving.sequence_id \in {0, 1}
    BY <1>1, <1>3 DEF Base, RequestIds, Asks
  <2> QED
    BY <1>3, <2>1, <2>2 DEF ExchangeInv, AsksInv
<1>5. e \in HeadsetFrame
  BY <1>4 DEF HeadsetFrame, Frame, AckFrame, SeqIds
<1>6. /\ e.frame.data_type = "ACK" /\ e.answers = h
      /\ e.frame.sequence_id = 1 - sequence_id[h]
  BY <1>4
<1> HIDE DEF e, h
<1>7. PICK n \in Nat :
        /\ toHost'[n] = e /\ n \notin DOMAIN toHost
        /\ \A i \in DOMAIN toHost : i < n /\ toHost'[i] = toHost[i]
        /\ Acks' = Acks \cup {i \in {n} : e.frame.data_type = "ACK"}
        /\ Answers' = Answers \cup {i \in {n} : e.frame.data_type # "ACK" /\ e.answers # None}
        /\ DOMAIN toHost' = DOMAIN toHost \cup {n}
  BY <1>1, <1>5, HeadsetPuts DEF Base
<1>8. Acks' = {n} /\ Answers' = {}
  BY <1>4, <1>6, <1>7
<1>9. Asks' = {}
  BY <1>1, <1>4, HeadsetTakes DEF Base
<1>10. AcksInv'
  BY <1>2, <1>4, <1>6, <1>7, <1>8 DEF AcksInv, Waiting
<1>11. OwesInv'
  BY <1>1, <1>2, <1>4 DEF OwesInv, Waiting
<1>12. OthersInv'
  <2>1. \A i \in DOMAIN toHost' \ (Acks' \cup Answers') :
          i \in DOMAIN toHost \ (Acks \cup Answers) /\ toHost'[i] = toHost[i]
    BY <1>4, <1>7, <1>8
  <2> QED
    BY <1>2, <2>1 DEF ExchangeInv, OthersInv
<1> QED
  BY <1>8, <1>9, <1>10, <1>11, <1>12 DEF ExchangeInv, AsksInv, AnswersInv

LEMMA HeadsetRepliesExchange ==
  ASSUME Base, ExchangeInv, HeadsetReplies
  PROVE  ExchangeInv'
<1>1. PICK h \in owes : HeadsetSends(ReplyTo[h], h) /\ owes' = owes \ {h}
  BY DEF HeadsetReplies
<1> DEFINE e == [frame |-> [data_type |-> "DATA_MDR", sequence_id |-> dataSeq,
                            packet |-> ReplyTo[h]],
                 answers |-> h]
<1>2. toHost' = Append(toHost, e) /\ UNCHANGED <<vars, toHeadset>>
  BY <1>1 DEF HeadsetSends
<1>3. UNCHANGED <<fate, attempts, acked, sequence_id, timer, pc>> /\ Asks' = Asks
  BY <1>2 DEF vars, requestVars, callVars, historyVars, Asks
<1>4. /\ h \in Requests /\ h # None /\ Waiting(h) /\ ~RequestSpec[h].only_ack /\ timer >= 0
      /\ Asks = {} /\ Answers = {} /\ owes' = {}
  <2>1. h \in Requests /\ h # None /\ Waiting(h) /\ ~RequestSpec[h].only_ack /\ timer >= 0
    BY NoneAssumption DEF ExchangeInv, OwesInv, Base, LinkTypes
  <2>2. Asks = {} /\ Answers = {}
    BY DEF ExchangeInv, AsksInv, AnswersInv
  <2>3. \A g \in owes : g = h
    BY <2>1, WaitingIsCurrent DEF ExchangeInv, OwesInv, Base, LinkTypes
  <2> QED
    BY <1>1, <2>1, <2>2, <2>3
<1>5. e \in HeadsetFrame
  BY <1>4, LinkAssumption DEF HeadsetFrame, Frame, DataFrame, SeqIds, Base, LinkTypes
<1>6. e.frame.data_type # "ACK" /\ e.answers = h
  OBVIOUS
<1> HIDE DEF e
<1>7. PICK n \in Nat :
        /\ toHost'[n] = e /\ n \notin DOMAIN toHost
        /\ \A i \in DOMAIN toHost : i < n /\ toHost'[i] = toHost[i]
        /\ Acks' = Acks \cup {i \in {n} : e.frame.data_type = "ACK"}
        /\ Answers' = Answers \cup {i \in {n} : e.frame.data_type # "ACK" /\ e.answers # None}
        /\ DOMAIN toHost' = DOMAIN toHost \cup {n}
  BY <1>2, <1>5, HeadsetPuts DEF Base
<1>8. /\ Answers' = {n} /\ Acks' = Acks
      /\ \A i \in Acks : i < n /\ toHost'[i] = toHost[i]
  BY <1>4, <1>6, <1>7 DEF Acks
<1>9. AcksInv'
  BY <1>3, <1>8 DEF ExchangeInv, AcksInv, Waiting
<1>10. AnswersInv'
  BY <1>3, <1>4, <1>6, <1>7, <1>8 DEF AnswersInv, Waiting
<1>11. OthersInv'
  <2>1. \A i \in DOMAIN toHost' \ (Acks' \cup Answers') :
          i \in DOMAIN toHost \ (Acks \cup Answers) /\ toHost'[i] = toHost[i]
    BY <1>4, <1>7, <1>8
  <2> QED
    BY <1>3, <2>1 DEF ExchangeInv, OthersInv
<1> QED
  BY <1>3, <1>4, <1>9, <1>10, <1>11 DEF ExchangeInv, AsksInv, OwesInv

LEMMA HeadsetNotifiesExchange ==
  ASSUME Base, ExchangeInv, HeadsetNotifies
  PROVE  ExchangeInv'
<1> DEFINE e == [frame |-> [data_type |-> "DATA_MDR", sequence_id |-> dataSeq,
                            packet |-> Notification],
                 answers |-> None]
<1>1. toHost' = Append(toHost, e) /\ UNCHANGED <<vars, toHeadset, owes>>
  BY DEF HeadsetNotifies, HeadsetSends
<1>2. UNCHANGED <<fate, attempts, acked, sequence_id, timer, pc>> /\ Asks' = Asks
  BY <1>1 DEF vars, requestVars, callVars, historyVars, Asks
<1>3. e \in HeadsetFrame
  BY LinkAssumption DEF HeadsetFrame, Frame, DataFrame, SeqIds, Base, LinkTypes
<1>4. e.frame.data_type # "ACK" /\ e.answers = None /\ e.frame.packet = Notification
  OBVIOUS
<1> HIDE DEF e
<1>5. PICK n \in Nat :
        /\ toHost'[n] = e /\ n \notin DOMAIN toHost
        /\ \A i \in DOMAIN toHost : i < n /\ toHost'[i] = toHost[i]
        /\ Acks' = Acks \cup {i \in {n} : e.frame.data_type = "ACK"}
        /\ Answers' = Answers \cup {i \in {n} : e.frame.data_type # "ACK" /\ e.answers # None}
        /\ DOMAIN toHost' = DOMAIN toHost \cup {n}
  BY <1>1, <1>3, HeadsetPuts DEF Base
<1>6. /\ Acks' = Acks /\ Answers' = Answers
      /\ \A i \in Acks \cup Answers : toHost'[i] = toHost[i]
  BY <1>4, <1>5 DEF Acks, Answers
<1>7. AsksInv' /\ OwesInv'
  <2>1. AsksInv'
    BY <1>1, <1>2, <1>6 DEF ExchangeInv, AsksInv, Waiting
  <2>2. OwesInv'
    BY <1>1, <1>2 DEF ExchangeInv, OwesInv, Waiting
  <2> QED
    BY <2>1, <2>2
<1>8. AcksInv' /\ AnswersInv'
  <2>1. \A i \in Acks : toHost'[i] = toHost[i]
    BY <1>6
  <2>2. AcksInv'
    BY <1>2, <1>6, <2>1 DEF ExchangeInv, AcksInv, Waiting
  <2>3. \A i \in Answers : toHost'[i] = toHost[i]
    BY <1>6
  <2>4. AnswersInv'
    BY <1>1, <1>2, <1>6, <2>3 DEF ExchangeInv, AnswersInv, Waiting
  <2> QED
    BY <2>2, <2>4
<1>9. OthersInv'
  BY <1>2, <1>4, <1>5, <1>6 DEF ExchangeInv, OthersInv
<1> QED
  BY <1>7, <1>8, <1>9 DEF ExchangeInv

LEMMA LinkTickExchange ==
  ASSUME Base, HeadsetIsPrompt, ExchangeInv, LinkTick
  PROVE  ExchangeInv'
<1>1. /\ toHeadset = <<>> /\ toHost = <<>> /\ owes = {}
      /\ UNCHANGED <<toHeadset, toHost, owes, acked, attempts, pc>>
  BY DEF LinkTick, Tick, linkVars, callVars
<1>2. Asks' = {} /\ Acks' = {} /\ Answers' = {}
  BY <1>1 DEF Asks, Acks, Answers
<1>3. OthersInv'
  BY <1>1 DEF ExchangeInv, OthersInv
<1> QED
  BY <1>1, <1>2, <1>3 DEF ExchangeInv, AsksInv, AcksInv, AnswersInv, OwesInv

LEMMA ExchangeStep ==
  ASSUME Base, Prompt, ExchangeInv, [LinkNext]_allVars
  PROVE  ExchangeInv'
<1>1. ASSUME UNCHANGED allVars PROVE ExchangeInv'
  <2>1. /\ UNCHANGED <<toHeadset, toHost, owes>>
        /\ UNCHANGED <<fate, attempts, acked, sequence_id, timer, pc>>
    BY <1>1 DEF allVars, linkVars, vars, requestVars, callVars, historyVars
  <2> QED
    BY <2>1, FrozenKeepsExchange DEF ExchangeInv, OthersInv, Waiting
<1>2. ~HeadsetSendsAgain
  BY DEF HeadsetSendsAgain, Prompt
<1> QED
  BY <1>1, <1>2, HostAloneExchange, HostTransmitsExchange, HostReadsAckExchange,
     HostReadsDataExchange, HeadsetAcceptsExchange, HeadsetTakesExchange,
     HeadsetRepliesExchange, HeadsetNotifiesExchange, LinkTickExchange
     DEF LinkNext, Prompt

-----------------------------------------------------------------------------
(***************************************************************************)
(* What is remembered of past requests fits what is under way.             *)
(***************************************************************************)
HistoryInv == ConfirmedInv /\ SeenInv /\ AnswersAreGenuine

AckUnderWay(h) == \E i \in Acks : toHost[i].answers = h
AskUnderWay(h) == \E i \in Asks : toHeadset[i].request = h

\* A step that ends no request and gives the headset none.
LEMMA QuietKeepsHistory ==
  ASSUME HistoryInv, UNCHANGED <<confirmed, seen, answeredBy, attempts, due>>,
         \A h \in Requests :
           /\ AckUnderWay(h) => AckUnderWay(h)'
           /\ AskUnderWay(h) => AskUnderWay(h)'
           /\ acked[h] => acked'[h]
           /\ fate'[h] # fate[h] => fate[h] = "NEW" /\ fate'[h] = "PENDING" /\ attempts[h] = 0,
         LinkTypes
  PROVE  HistoryInv'
<1>1. ConfirmedInv'
  <2> SUFFICES ASSUME NEW h \in confirmed
               PROVE  /\ fate'[h] \notin {"NEW", "NO_ACK"} /\ attempts'[h] # 0
                      /\ fate'[h] = "PENDING" => acked'[h] \/ AckUnderWay(h)'
    BY DEF ConfirmedInv, AckUnderWay
  <2>1. /\ h \in Requests /\ fate[h] \notin {"NEW", "NO_ACK"} /\ attempts[h] # 0
        /\ fate[h] = "PENDING" => acked[h] \/ AckUnderWay(h)
    BY DEF HistoryInv, ConfirmedInv, AckUnderWay, LinkTypes
  <2> QED
    BY <2>1
<1>2. SeenInv'
  <2>1. \A h \in Requests : Waiting(h)' <=> Waiting(h)
    BY DEF Waiting
  <2>2. \A h \in Requests : Waiting(h)' => \/ seen' # None /\ seen'.request = h
                                           \/ AskUnderWay(h)'
    BY <2>1 DEF HistoryInv, SeenInv, AskUnderWay
  <2>3. seen' # None =>
          /\ seen'.request \in Requests /\ attempts'[seen'.request] # 0
          /\ Waiting(seen.request)' => seen'.sequence_id = due'
          /\ ~Waiting(seen.request)' /\ seen'.request \in confirmed'
             => seen'.sequence_id = 1 - due'
    BY <2>1 DEF HistoryInv, SeenInv, Waiting
  <2> QED
    BY <2>2, <2>3 DEF SeenInv, AskUnderWay
<1>3. AnswersAreGenuine'
  BY DEF HistoryInv, AnswersAreGenuine
<1> QED
  BY <1>1, <1>2, <1>3 DEF HistoryInv

\* A step that ends the request in flight.
LEMMA EndKeepsHistory ==
  ASSUME Base, ExchangeInv, HistoryInv, pc \in {"send", "read"}, queue # <<>>,
         Current \in Requests, Waiting(Current), Asks = {},
         NEW ending \in {"NO_ACK", "NO_REPLY", "RESULT"}, Ends(Current, ending),
         UNCHANGED <<attempts, confirmed, seen>>,
         ending = "NO_ACK" => Current \notin confirmed,
         \A h \in Requests \ {Current} : answeredBy'[h] = answeredBy[h],
         ending = "RESULT" => answeredBy'[Current] = Current
  PROVE  HistoryInv'
<1>1. /\ fate'[Current] = ending
      /\ \A h \in Requests \ {Current} : fate'[h] = fate[h]
      /\ due' = IF ending = "NO_ACK" THEN sequence_id[Current] ELSE 1 - sequence_id[Current]
  BY DEF Ends, Base, TypeOK, HistoryTypeOK
<1>2. \A h \in Requests : ~Waiting(h)'
  BY <1>1, WaitingIsCurrent DEF ExchangeInv, Waiting
<1>3. /\ sequence_id[Current] = due
      /\ seen # None /\ seen.request = Current /\ seen.sequence_id = due
  <2>1. sequence_id[Current] = due
    BY WaitingIsCurrent DEF ExchangeInv
  <2> QED
    BY <2>1 DEF HistoryInv, SeenInv
<1>4. ConfirmedInv'
  <2> SUFFICES ASSUME NEW h \in confirmed
               PROVE  fate'[h] \notin {"NEW", "NO_ACK", "PENDING"} /\ attempts'[h] # 0
    BY DEF ConfirmedInv
  <2>1. h \in Requests /\ fate[h] \notin {"NEW", "NO_ACK"} /\ attempts[h] # 0
    BY DEF HistoryInv, ConfirmedInv, Base, LinkTypes
  <2>2. CASE h = Current
    BY <1>1, <2>1, <2>2
  <2>3. CASE h # Current
    <3>1. fate[h] # "PENDING"
      BY <2>1, <2>3, WaitingIsCurrent DEF ExchangeInv, Waiting
    <3> QED
      BY <1>1, <2>1, <2>3, <3>1
  <2> QED
    BY <2>2, <2>3
<1>5. SeenInv'
  <2>1. seen'.request \in confirmed' => seen'.sequence_id = 1 - due'
    BY <1>1, <1>3 DEF Base, TypeOK, HistoryTypeOK
  <2> QED
    BY <1>2, <1>3, <2>1 DEF SeenInv, Waiting
<1>6. AnswersAreGenuine'
  BY <1>1 DEF HistoryInv, AnswersAreGenuine
<1> QED
  BY <1>4, <1>5, <1>6 DEF HistoryInv

LEMMA HostAloneHistory ==
  ASSUME Base, ExchangeInv, HistoryInv, HostAlone \/ HostReadsNothing
  PROVE  HistoryInv'
<1>1. UNCHANGED <<toHeadset, toHost, confirmed, seen, answeredBy>>
  BY DEF HostAlone, HostReadsNothing, linkVars
<1>2. \A h \in Requests : (AckUnderWay(h)' <=> AckUnderWay(h))
                          /\ (AskUnderWay(h)' <=> AskUnderWay(h))
  BY <1>1 DEF AckUnderWay, AskUnderWay, Acks, Asks
<1>3. ASSUME NEW h \in Requests, MakeRequest(h) PROVE HistoryInv'
  <2>1. /\ fate[h] = "NEW" /\ fate' = [fate EXCEPT ![h] = "PENDING"]
        /\ UNCHANGED <<attempts, acked, due>>
    BY <1>3 DEF MakeRequest
  <2>2. attempts[h] = 0
    BY <2>1 DEF Base, StopAndWaitInv
  <2>3. \A g \in Requests : fate'[g] # fate[g] =>
          fate[g] = "NEW" /\ fate'[g] = "PENDING" /\ attempts[g] = 0
    BY <2>1, <2>2 DEF Base, TypeOK, HistoryTypeOK
  <2> QED
    BY <1>1, <1>2, <2>1, <2>3, QuietKeepsHistory DEF Base
<1>4. CASE GiveUp
  <2>1. Calm
    BY <1>4, CalmWhenTimeIsOver DEF GiveUp, TimedOut
  <2>2. /\ pc = "send" /\ queue # <<>> /\ attempts[Current] # 0
        /\ UNCHANGED <<attempts, acked>>
    BY <1>4 DEF GiveUp, TimedOut, InFlight
  <2>3. Current \in Requests /\ Waiting(Current)
    BY <2>2, CurrentIsPending DEF Base, EndingFirst, Waiting
  <2>4. ~acked[Current] => Current \notin confirmed
    BY <2>1, <2>3 DEF HistoryInv, ConfirmedInv, Calm, Waiting
  <2>5. CASE acked[Current]
    <3>1. Ends(Current, "NO_REPLY")
      BY <1>4, <2>5 DEF GiveUp
    <3> QED
      BY <1>1, <2>1, <2>2, <2>3, <3>1, EndKeepsHistory DEF Calm
  <2>6. CASE ~acked[Current]
    <3>1. Ends(Current, "NO_ACK")
      BY <1>4, <2>6 DEF GiveUp
    <3> QED
      BY <1>1, <2>1, <2>2, <2>3, <2>4, <2>6, <3>1, EndKeepsHistory DEF Calm
  <2> QED
    BY <2>5, <2>6
<1>5. ASSUME \/ \E s \in Subscriptions : Subscribe(s)
             \/ \E r, w \in BOOLEAN : Process(r, w)
             \/ NothingToSend \/ ReadSkipped \/ ReadNothing
             \/ ErrorCallbackReturns \/ ResultCallbackReturns \/ NotifyNext \/ NotifyEnds
      PROVE  HistoryInv'
  <2>1. UNCHANGED <<fate, attempts, acked, due>>
    BY <1>5 DEF Subscribe, Process, NothingToSend, ReadSkipped, ReadNothing,
                ErrorCallbackReturns, ResultCallbackReturns, NotifyNext, NotifyEnds,
                requestVars, historyVars
  <2> QED
    BY <1>1, <1>2, <2>1, QuietKeepsHistory DEF Base
<1>6. ~CloseCallbackReturns
  BY DEF CloseCallbackReturns, ExchangeInv, OthersInv
<1> QED
  BY <1>3, <1>4, <1>5, <1>6 DEF HostAlone, HostReadsNothing, CallbackReturns

LEMMA HostTransmitsHistory ==
  ASSUME Base, ExchangeInv, ExchangeInv', HistoryInv, HostTransmits
  PROVE  HistoryInv'
<1> DEFINE e == [request |-> Current, sequence_id |-> sequence_id[Current]]
<1>1. /\ pc = "send" /\ queue # <<>> /\ Current \in Requests
      /\ attempts' = [attempts EXCEPT ![Current] = @ + 1]
      /\ toHeadset' = Append(toHeadset, e)
      /\ UNCHANGED <<toHost, confirmed, seen, answeredBy, acked, fate, due>>
      /\ attempts[Current] = 0 \/ (timer < 0 /\ ~acked[Current])
  <2>1. Transmit /\ UNCHANGED <<toHost, confirmed, seen, answeredBy>>
        /\ toHeadset' = Append(toHeadset, e)
    BY DEF HostTransmits
  <2>2. queue # <<>> /\ (attempts[Current] = 0 \/ (timer < 0 /\ ~acked[Current]))
    BY <2>1 DEF Transmit, TransmissionDue, Unsent, TimedOut, Hopeless, InFlight
  <2>3. Current \in Requests
    BY <2>2, CurrentType DEF Base, TypeOK
  <2> QED
    BY <2>1, <2>2, <2>3 DEF Transmit
<1>2. fate[Current] = "PENDING"
  BY <1>1, CurrentIsPending DEF Base, EndingFirst
<1>3. /\ attempts'[Current] # 0
      /\ \A h \in Requests \ {Current} : attempts'[h] = attempts[h]
  BY <1>1, TimeoutAssumption DEF Base, TypeOK, RequestTypeOK
<1>4. Current \notin confirmed
  <2>1. CASE attempts[Current] = 0
    BY <2>1 DEF HistoryInv, ConfirmedInv
  <2>2. CASE timer < 0 /\ ~acked[Current]
    BY <1>2, <2>2, CalmWhenTimeIsOver DEF Calm, HistoryInv, ConfirmedInv
  <2> QED
    BY <1>1, <2>1, <2>2
<1>5. AskUnderWay(Current)'
  <2>1. e \in HostFrame /\ e.request = Current /\ e.request # None
    BY <1>1, NoneAssumption DEF HostFrame, SeqIds, Base, TypeOK, RequestTypeOK
  <2> HIDE DEF e
  <2>2. \E n \in DOMAIN toHeadset' : toHeadset'[n] = e
    BY <1>1, <2>1, AppendPlaces DEF Base, LinkTypes
  <2>3. \E i \in Asks' : toHeadset'[i].request = Current
    BY <2>1, <2>2 DEF Asks
  <2>4. Current' = Current
    BY DEF HostTransmits, Transmit, Current
  <2> QED
    BY <2>3, <2>4 DEF AskUnderWay
<1>6. ConfirmedInv'
  <2>1. \A h \in confirmed : h \in Requests /\ h # Current /\ attempts'[h] = attempts[h]
    BY <1>3, <1>4 DEF Base, LinkTypes
  <2>2. Acks' = Acks
    BY <1>1 DEF Acks
  <2> QED
    BY <1>1, <2>1, <2>2 DEF HistoryInv, ConfirmedInv
<1>7. SeenInv'
  <2>1. \A h \in Requests : Waiting(h)' => h = Current
    <3>1. \A h \in Requests \ {Current} : Waiting(h)' => Waiting(h)
      BY <1>1, <1>3 DEF Waiting
    <3> QED
      BY <3>1, WaitingIsCurrent DEF ExchangeInv
  <2>2. AskUnderWay(Current)' /\ Current' = Current
    BY <1>5 DEF HostTransmits, Transmit, Current
  <2>3. \A h \in Requests : Waiting(h)' => \E i \in Asks' : toHeadset'[i].request = h
    BY <2>1, <2>2 DEF AskUnderWay
  <2>4. ASSUME seen # None
        PROVE  /\ seen.request \in Requests /\ attempts'[seen.request] # 0
               /\ Waiting(seen.request)' => seen.sequence_id = due
               /\ ~Waiting(seen.request)' /\ seen.request \in confirmed
                  => seen.sequence_id = 1 - due
    <3>1. /\ seen.request \in Requests /\ attempts[seen.request] # 0
          /\ Waiting(seen.request) => seen.sequence_id = due
          /\ ~Waiting(seen.request) /\ seen.request \in confirmed
             => seen.sequence_id = 1 - due
      BY <2>4 DEF HistoryInv, SeenInv
    <3>2. seen' = seen /\ attempts'[seen.request] # 0
      BY <1>1, <1>3, <3>1
    <3>3. Waiting(seen.request)' <=> Waiting(seen.request)
      BY <1>1, <3>1, <3>2 DEF Waiting
    <3> QED
      BY <3>1, <3>2, <3>3
  <2> QED
    BY <1>1, <2>3, <2>4 DEF SeenInv
<1>8. AnswersAreGenuine'
  BY <1>1 DEF HistoryInv, AnswersAreGenuine
<1> QED
  BY <1>6, <1>7, <1>8 DEF HistoryInv

LEMMA HostReadsAckHistory ==
  ASSUME Base, ExchangeInv, HistoryInv, HostReadsAck
  PROVE  HistoryInv'
<1> DEFINE f == Head(toHost).frame
<1>1. /\ toHost # <<>> /\ toHost' = Tail(toHost)
      /\ UNCHANGED <<toHeadset, confirmed, seen>>
      /\ \/ /\ AckCompletes(f)
            /\ answeredBy' = [answeredBy EXCEPT ![Current] = Head(toHost).answers]
         \/ /\ AckAwaitsReply(f) \/ AckIgnored(f)
            /\ UNCHANGED answeredBy
  BY DEF HostReadsAck
<1>2. Head(toHost) = toHost[1] /\ f = toHost[1].frame /\ 1 \in Acks /\ pc = "read"
  <2>1. Head(toHost) = toHost[1] /\ 1 \in DOMAIN toHost
    BY <1>1, TailPlaces DEF Base, LinkTypes
  <2>2. f.data_type = "ACK" /\ pc = "read"
    BY <1>1 DEF AckCompletes, AckAwaitsReply, AckIgnored, ReadsAck
  <2> QED
    BY <2>1, <2>2 DEF Acks
<1> HIDE DEF f
<1>3. /\ Acks = {1} /\ Asks = {} /\ Current \in Requests /\ queue # <<>>
      /\ Waiting(Current) /\ ~acked[Current] /\ toHost[1].answers = Current
      /\ f.sequence_id = 1 - sequence_id[Current]
  <2>1. /\ Acks = {1} /\ toHost[1].answers \in Requests
        /\ Waiting(toHost[1].answers) /\ ~acked[toHost[1].answers]
        /\ f.sequence_id = 1 - sequence_id[toHost[1].answers]
    BY <1>2 DEF ExchangeInv, AcksInv
  <2>2. Asks = {}
    BY <1>2 DEF ExchangeInv, AsksInv
  <2> QED
    BY <2>1, <2>2, WaitingIsCurrent DEF ExchangeInv
<1>4. ~AckIgnored(f)
  BY <1>3 DEF AckIgnored, AckExpected
<1>5. CASE AckCompletes(f)
  <2>1. answeredBy' = [answeredBy EXCEPT ![Current] = Current]
    <3>1. ~AckAwaitsReply(f)
      BY <1>5 DEF AckCompletes, AckAwaitsReply
    <3> QED
      BY <1>1, <1>2, <1>3, <1>4, <3>1
  <2>2. Ends(Current, "RESULT") /\ UNCHANGED attempts
    BY <1>5 DEF AckCompletes
  <2>3. /\ answeredBy'[Current] = Current
        /\ \A h \in Requests \ {Current} : answeredBy'[h] = answeredBy[h]
    BY <1>3, <2>1 DEF Base, LinkTypes
  <2> QED
    BY <1>1, <1>2, <1>3, <2>2, <2>3, EndKeepsHistory
<1>6. CASE AckAwaitsReply(f)
  <2>1. /\ acked' = [acked EXCEPT ![Current] = TRUE]
        /\ UNCHANGED <<fate, attempts, due, answeredBy>>
    BY <1>1, <1>6 DEF AckAwaitsReply, AckCompletes, historyVars
  <2>2. Asks' = Asks
    BY <1>1 DEF Asks
  <2>3. ConfirmedInv'
    <3> SUFFICES ASSUME NEW h \in confirmed
                 PROVE  /\ fate[h] \notin {"NEW", "NO_ACK"} /\ attempts[h] # 0
                        /\ fate[h] = "PENDING" => acked'[h]
      BY <1>1, <2>1 DEF ConfirmedInv
    <3>1. h \in Requests /\ fate[h] \notin {"NEW", "NO_ACK"} /\ attempts[h] # 0
      BY DEF HistoryInv, ConfirmedInv, Base, LinkTypes
    <3>2. fate[h] = "PENDING" => h = Current
      BY <3>1, WaitingIsCurrent DEF ExchangeInv, Waiting
    <3> QED
      BY <1>3, <2>1, <3>1, <3>2 DEF Base, TypeOK, RequestTypeOK
  <2>4. SeenInv' /\ AnswersAreGenuine'
    BY <1>1, <2>1, <2>2 DEF HistoryInv, SeenInv, AnswersAreGenuine, Waiting
  <2> QED
    BY <2>3, <2>4 DEF HistoryInv
<1> QED
  BY <1>1, <1>4, <1>5, <1>6

LEMMA HostReadsDataHistory ==
  ASSUME Base, Prompt, ExchangeInv, HistoryInv, HostReadsData
  PROVE  HistoryInv'
<1> DEFINE f == Head(toHost).frame
<1>1. /\ toHost # <<>> /\ toHost' = Tail(toHost)
      /\ UNCHANGED <<confirmed, seen>>
      /\ \/ /\ ReadReply(f)
            /\ answeredBy' = [answeredBy EXCEPT ![Current] = Head(toHost).answers]
         \/ /\ ReadNotification(f) \/ ReadUnexpected(f)
            /\ UNCHANGED answeredBy
      /\ HostAcknowledges(f)
  BY DEF HostReadsData
<1>2. /\ Head(toHost) = toHost[1] /\ f = toHost[1].frame
      /\ 1 \in DOMAIN toHost /\ 1 \notin Acks /\ pc = "read"
  <2>1. Head(toHost) = toHost[1] /\ 1 \in DOMAIN toHost
    BY <1>1, TailPlaces DEF Base, LinkTypes
  <2>2. f.data_type # "ACK" /\ pc = "read"
    BY <1>1 DEF ReadReply, ReadNotification, ReadUnexpected, ReadsData
  <2> QED
    BY <2>1, <2>2 DEF Acks
<1> HIDE DEF f
<1>3. CASE IsReply(f)
  <2>1. 1 \in Answers
    BY <1>2, <1>3, NotificationIsNoReply DEF ExchangeInv, OthersInv
  <2>2. /\ Asks = {} /\ toHost[1].answers = Current /\ Current \in Requests
        /\ Waiting(Current) /\ queue # <<>>
    <3>1. Asks = {}
      BY <2>1 DEF ExchangeInv, AsksInv
    <3>2. toHost[1].answers \in Requests /\ Waiting(toHost[1].answers)
      BY <2>1, UnderWay DEF ExchangeInv, AnswersInv
    <3> QED
      BY <3>1, <3>2, WaitingIsCurrent DEF ExchangeInv
  <2>3. /\ ReadReply(f)
        /\ answeredBy' = [answeredBy EXCEPT ![Current] = Current]
    BY <1>1, <1>2, <1>3, <2>2 DEF ReadNotification, ReadUnexpected
  <2>4. Ends(Current, "RESULT") /\ UNCHANGED attempts
    BY <2>3 DEF ReadReply
  <2>5. /\ answeredBy'[Current] = Current
        /\ \A h \in Requests \ {Current} : answeredBy'[h] = answeredBy[h]
    BY <2>2, <2>3 DEF Base, LinkTypes
  <2> QED
    BY <1>1, <1>2, <2>2, <2>4, <2>5, EndKeepsHistory
<1>4. CASE ~IsReply(f)
  <2>1. UNCHANGED <<fate, attempts, acked, due, answeredBy>>
    BY <1>1, <1>4 DEF ReadReply, ReadNotification, ReadUnexpected, requestVars, historyVars
  <2>2. Asks' = Asks /\ \A i \in Asks : toHeadset'[i] = toHeadset[i]
    BY <1>1, AcknowledgementIsNoAsk DEF Base
  <2>3. \A i \in Acks : i - 1 \in Acks' /\ toHost'[i - 1] = toHost[i]
    <3>1. \A i \in DOMAIN toHost :
            i # 1 => i - 1 \in DOMAIN toHost' /\ toHost'[i - 1] = toHost[i]
      BY <1>1, TailPlaces DEF Base, LinkTypes
    <3> QED
      BY <1>2, <3>1 DEF Acks
  <2>4. \A h \in Requests : (AckUnderWay(h) => AckUnderWay(h)')
                            /\ (AskUnderWay(h) => AskUnderWay(h)')
    BY <2>2, <2>3 DEF AckUnderWay, AskUnderWay
  <2> QED
    BY <1>1, <2>1, <2>4, QuietKeepsHistory DEF Base
<1> QED
  BY <1>3, <1>4

LEMMA HeadsetReceivesHistory ==
  ASSUME Base, ExchangeInv, HistoryInv, HeadsetAccepts \/ HeadsetDisregards
  PROVE  HistoryInv'
<1> DEFINE h == Arriving.request
<1>1. /\ toHeadset # <<>> /\ toHeadset' = Tail(toHeadset) /\ h # None
      /\ seen' = Arriving /\ UNCHANGED answeredBy /\ UNCHANGED vars
  BY DEF HeadsetAccepts, HeadsetDisregards
<1>2. UNCHANGED <<fate, attempts, acked, sequence_id, due>>
  BY <1>1 DEF vars, requestVars, historyVars
<1>3. /\ h \in Requests /\ Acks = {} /\ Arriving # None
      /\ Waiting(h) /\ ~acked[h] /\ Arriving.sequence_id = due
  <2>1. 1 \in Asks /\ Arriving = toHeadset[1] /\ Arriving \in HostFrame
    BY <1>1, HeadsetTakes DEF Base, Asks
  <2>2. h \in Requests
    BY <1>1, <2>1 DEF HostFrame
  <2>3. /\ Acks = {} /\ Waiting(h) /\ ~acked[h]
        /\ Arriving.sequence_id = sequence_id[h]
    BY <2>1 DEF ExchangeInv, AsksInv
  <2> QED
    BY <2>1, <2>2, <2>3, WaitingIsCurrent, NoneAssumption DEF ExchangeInv
<1>4. \A g \in Requests : Waiting(g) => g = h
  BY <1>3, WaitingIsCurrent DEF ExchangeInv
<1>5. ConfirmedInv'
  <2>1. CASE HeadsetAccepts
    <3>1. \E n \in Acks' : toHost'[n].answers = h
      <4> DEFINE e == [frame |-> [data_type |-> "ACK",
                                  sequence_id |-> 1 - Arriving.sequence_id, packet |-> None],
                       answers |-> h]
      <4>1. toHost' = Append(toHost, e)
        BY <2>1 DEF HeadsetAccepts
      <4>2. e \in HeadsetFrame
        BY <1>3 DEF HeadsetFrame, Frame, AckFrame, SeqIds, Base, TypeOK, HistoryTypeOK
      <4>3. e.frame.data_type = "ACK" /\ e.answers = h
        OBVIOUS
      <4> HIDE DEF e
      <4>4. \E n \in DOMAIN toHost' : toHost'[n] = e
        BY <4>1, <4>2, HeadsetPuts DEF Base
      <4> QED
        BY <4>3, <4>4 DEF Acks
    <3>2. \A g \in confirmed' : g \in confirmed \/ g = h
      BY <2>1 DEF HeadsetAccepts
    <3> SUFFICES ASSUME NEW g \in confirmed'
                 PROVE  /\ fate[g] \notin {"NEW", "NO_ACK"} /\ attempts[g] # 0
                        /\ fate[g] = "PENDING" => \E n \in Acks' : toHost'[n].answers = g
      BY <1>2 DEF ConfirmedInv
    <3>3. CASE g = h
      BY <1>3, <3>1, <3>3 DEF Waiting
    <3>4. CASE g # h
      <4>1. g \in confirmed /\ g \in Requests
        BY <3>2, <3>4 DEF Base, LinkTypes
      <4>2. fate[g] \notin {"NEW", "NO_ACK"} /\ attempts[g] # 0
        BY <4>1 DEF HistoryInv, ConfirmedInv
      <4>3. fate[g] # "PENDING"
        BY <1>4, <3>4, <4>1, <4>2 DEF Waiting
      <4> QED
        BY <4>2, <4>3
    <3> QED
      BY <3>3, <3>4
  <2>2. CASE HeadsetDisregards
    BY <1>2, <1>3, <2>2 DEF HeadsetDisregards, HistoryInv, ConfirmedInv, Acks
  <2> QED
    BY <2>1, <2>2
<1>6. SeenInv'
  BY <1>1, <1>2, <1>3, <1>4 DEF SeenInv, Waiting
<1>7. AnswersAreGenuine'
  BY <1>1, <1>2 DEF HistoryInv, AnswersAreGenuine
<1> QED
  BY <1>5, <1>6, <1>7 DEF HistoryInv

LEMMA HeadsetAloneHistory ==
  ASSUME Base, HistoryInv,
         HeadsetReceivesAck \/ HeadsetReplies \/ HeadsetNotifies \/ LinkTick
         \/ UNCHANGED allVars
  PROVE  HistoryInv'
<1>1. UNCHANGED <<fate, attempts, acked, due, confirmed, seen, answeredBy>>
  BY DEF HeadsetReceivesAck, HeadsetReplies, HeadsetNotifies, HeadsetSends, LinkTick, Tick,
         allVars, linkVars, vars, requestVars, historyVars
<1>2. \A i \in Asks : \E j \in Asks' : toHeadset'[j] = toHeadset[i]
  <2>1. CASE HeadsetReceivesAck
    <3>1. /\ toHeadset # <<>> /\ toHeadset' = Tail(toHeadset) /\ Arriving.request = None
      BY <2>1 DEF HeadsetReceivesAck
    <3>2. Arriving = toHeadset[1]
      BY <3>1, HeadsetTakes DEF Base
    <3>3. \A i \in DOMAIN toHeadset :
            i # 1 => i - 1 \in DOMAIN toHeadset' /\ toHeadset'[i - 1] = toHeadset[i]
      BY <3>1, TailPlaces DEF Base, LinkTypes
    <3> QED
      BY <3>1, <3>2, <3>3 DEF Asks
  <2>2. CASE ~HeadsetReceivesAck
    <3>1. UNCHANGED toHeadset
      BY <2>2 DEF HeadsetReplies, HeadsetNotifies, HeadsetSends, LinkTick, allVars, linkVars
    <3> QED
      BY <3>1 DEF Asks
  <2> QED
    BY <2>1, <2>2
<1>3. \A i \in Acks : \E j \in Acks' : toHost'[j] = toHost[i]
  <2>1. ASSUME NEW p \in Packets, NEW h \in Requests \cup {None}, HeadsetSends(p, h)
        PROVE  \A i \in Acks : i \in Acks' /\ toHost'[i] = toHost[i]
    <3> DEFINE e == [frame |-> [data_type |-> "DATA_MDR", sequence_id |-> dataSeq,
                                packet |-> p],
                     answers |-> h]
    <3>1. toHost' = Append(toHost, e)
      BY <2>1 DEF HeadsetSends
    <3>2. e \in HeadsetFrame
      BY DEF HeadsetFrame, Frame, DataFrame, SeqIds, Base, LinkTypes
    <3> HIDE DEF e
    <3> QED
      BY <3>1, <3>2, HeadsetPuts DEF Base, Acks
  <2>2. CASE HeadsetReplies \/ HeadsetNotifies
    BY <2>1, <2>2, LinkAssumption DEF HeadsetReplies, HeadsetNotifies, Base, LinkTypes
  <2>3. CASE ~(HeadsetReplies \/ HeadsetNotifies)
    <3>1. UNCHANGED toHost
      BY <2>3 DEF HeadsetReceivesAck, LinkTick, allVars, linkVars
    <3> QED
      BY <3>1 DEF Acks
  <2> QED
    BY <2>2, <2>3
<1>4. \A h \in Requests : (AckUnderWay(h) => AckUnderWay(h)')
                          /\ (AskUnderWay(h) => AskUnderWay(h)')
  BY <1>2, <1>3 DEF AckUnderWay, AskUnderWay
<1> QED
  BY <1>1, <1>4, QuietKeepsHistory DEF Base

LEMMA HistoryStep ==
  ASSUME Base, Prompt, ExchangeInv, HistoryInv, [LinkNext]_allVars
  PROVE  HistoryInv'
<1>1. ExchangeInv'
  BY ExchangeStep
<1>2. ~HeadsetSendsAgain
  BY DEF HeadsetSendsAgain, Prompt
<1> QED
  BY <1>1, <1>2, HostAloneHistory, HostTransmitsHistory, HostReadsAckHistory,
     HostReadsDataHistory, HeadsetReceivesHistory, HeadsetAloneHistory DEF LinkNext

-----------------------------------------------------------------------------
LEMMA LinkInitBase == LinkInit => Base /\ ExchangeInv /\ HistoryInv
<1> SUFFICES ASSUME LinkInit PROVE Base /\ ExchangeInv /\ HistoryInv
  OBVIOUS
<1>1. Init
  BY DEF LinkInit
<1>2. TypeOK /\ CallShape /\ QueueInv
  BY <1>1, InitType, InitShape, InitQueue
<1>3. StopAndWaitInv /\ SequenceIdInv
  BY <1>1 DEF Init, StopAndWaitInv, StopAndWait, EndingFirst, SequenceIdInv,
              AlternatingSequenceId
<1>4. LinkTypes /\ RequestIds
  BY EmptySeq DEF LinkInit, LinkTypes, RequestIds
<1>5. Asks = {} /\ Acks = {} /\ Answers = {} /\ owes = {}
  BY DEF LinkInit, Asks, Acks, Answers
<1>6. ExchangeInv
  <2>1. OthersInv
    BY <1>1, EmptySeq DEF LinkInit, Init, OthersInv
  <2> QED
    BY <1>5, <2>1 DEF ExchangeInv, AsksInv, AcksInv, AnswersInv, OwesInv
<1>7. HistoryInv
  BY <1>1 DEF LinkInit, Init, HistoryInv, ConfirmedInv, SeenInv, AnswersAreGenuine, Waiting
<1> QED
  BY <1>2, <1>3, <1>4, <1>6, <1>7 DEF Base

LEMMA BaseStep ==
  ASSUME Base, [LinkNext]_allVars
  PROVE  Base'
<1>1. [Next]_vars
  BY LinkStepIsStep DEF Base
<1>2. TypeOK' /\ CallShape' /\ LinkTypes' /\ RequestIds'
  BY <1>1, TypeStep, ShapeStep, LinkTypesStep DEF Base
<1>3. QueueInv' /\ StopAndWaitInv' /\ SequenceIdInv'
  BY <1>1, <1>2, QueueStep, StopAndWaitStep, SequenceIdStep DEF Base
<1> QED
  BY <1>2, <1>3 DEF Base

LEMMA PromptInvariant ==
  ASSUME Prompt
  PROVE  LinkSpec => [](Base /\ ExchangeInv /\ HistoryInv)
<1>1. Base /\ ExchangeInv /\ HistoryInv /\ [LinkNext]_allVars
      => (Base /\ ExchangeInv /\ HistoryInv)'
  BY BaseStep, ExchangeStep, HistoryStep
<1> QED
  BY <1>1, LinkInitBase, PTL DEF LinkSpec

(***************************************************************************)
(* When the headset answers in time, the answer that ends a request is the *)
(* answer to that request.                                                 *)
(***************************************************************************)
THEOREM PromptAnswersAreGenuine ==
  ASSUME Prompt
  PROVE  LinkSpec => []AnswersAreGenuine
<1>1. HistoryInv => AnswersAreGenuine
  BY DEF HistoryInv
<1> QED
  BY <1>1, PromptInvariant, PTL

(***************************************************************************)
(* When the headset answers in time, the error NO_ACK tells the truth: the *)
(* headset has not acknowledged the request.                               *)
(***************************************************************************)
THEOREM PromptNoAckIsTrue ==
  ASSUME Prompt
  PROVE  LinkSpec => []NoAckMeansNoAck
<1>1. HistoryInv => NoAckMeansNoAck
  BY DEF HistoryInv, ConfirmedInv, NoAckMeansNoAck
<1> QED
  BY <1>1, PromptInvariant, PTL

(***************************************************************************)
(* When the headset answers in time, it never takes a new request for the  *)
(* repetition of one it has acknowledged: the sequence ids differ, though  *)
(* requests in between were given up and their ids taken back.             *)
(***************************************************************************)
THEOREM PromptRequestsAreFresh ==
  ASSUME Prompt
  PROVE  LinkSpec => FreshRequestFreshId
<1> DEFINE Fresh == /\ seen # None
                    /\ seen' # None
                    /\ seen'.request # seen.request
                    /\ seen.request \in confirmed
                    => seen'.sequence_id # seen.sequence_id
<1>1. Base /\ ExchangeInv /\ HistoryInv /\ [LinkNext]_allVars => [Fresh]_allVars
  <2> SUFFICES ASSUME Base, ExchangeInv, HistoryInv, [LinkNext]_allVars,
                      seen # None, seen' # None, seen'.request # seen.request,
                      seen.request \in confirmed
               PROVE  seen'.sequence_id # seen.sequence_id
    OBVIOUS
  <2>1. HeadsetAccepts \/ HeadsetDisregards
    BY DEF LinkNext, HostAlone, HostTransmits, HostReadsNothing, HostReadsAck, HostReadsData,
           HeadsetReceivesAck, HeadsetReplies, HeadsetNotifies, HeadsetSends,
           HeadsetSendsAgain, LinkTick, linkVars, allVars
  <2>2. /\ toHeadset # <<>> /\ toHeadset' = Tail(toHeadset)
        /\ Arriving.request # None /\ seen' = Arriving
    BY <2>1 DEF HeadsetAccepts, HeadsetDisregards
  <2>3. 1 \in Asks /\ Arriving = toHeadset[1] /\ Arriving \in HostFrame
    BY <2>2, HeadsetTakes DEF Base, Asks
  <2>4. /\ Arriving.request \in Requests /\ Waiting(Arriving.request)
        /\ Arriving.sequence_id = due
    <3>1. Arriving.request \in Requests
      BY <2>2, <2>3 DEF HostFrame
    <3>2. /\ Waiting(Arriving.request)
          /\ Arriving.sequence_id = sequence_id[Arriving.request]
      BY <2>3 DEF ExchangeInv, AsksInv
    <3> QED
      BY <3>1, <3>2, WaitingIsCurrent DEF ExchangeInv
  <2>5. seen.request \in Requests /\ ~Waiting(seen.request)
    BY <2>2, <2>4, WaitingIsCurrent DEF HistoryInv, SeenInv, ExchangeInv
  <2> QED
    BY <2>2, <2>4, <2>5 DEF HistoryInv, SeenInv, Base, TypeOK, HistoryTypeOK
<1> QED
  BY <1>1, PromptInvariant, PTL DEF LinkSpec, FreshRequestFreshId

-----------------------------------------------------------------------------
(***************************************************************************)
(* However slow the headset is.  The requests and the ACKs under way, the  *)
(* ACKs first, are in the order in which the requests were written, and of *)
(* the two ids a request may have been written under the one that is due   *)
(* was handed out last: once it occurs, only it occurs behind.  What is    *)
(* under way with that id belongs to the request in flight, or to one that *)
(* was given up without an ACK and left its id to its successor.  This is  *)
(* all there is under way once the request in flight has its ACK.          *)
(***************************************************************************)

\* The id of the request that an ACK is for, and that of a request.
AckBit(i) == 1 - toHost[i].frame.sequence_id
AskBit(i) == toHeadset[i].sequence_id

Rightful(h) == h \in Requests /\ (Waiting(h) \/ fate[h] = "NO_ACK")

OnlyDue == (\A i \in Acks : AckBit(i) = due) /\ (\A i \in Asks : AskBit(i) = due)

OrderInv ==
  /\ \A i \in Acks : toHost[i].frame.sequence_id \in {0, 1}
  /\ \A i \in Acks : AckBit(i) = due =>
       /\ Rightful(toHost[i].answers)
       /\ \A j \in Acks : i < j => AckBit(j) = due
       /\ \A j \in Asks : AskBit(j) = due
  /\ \A i \in Asks : AskBit(i) = due =>
       /\ Rightful(toHeadset[i].request)
       /\ \A j \in Asks : i < j => AskBit(j) = due

AckedInv == \A h \in Requests : fate[h] = "PENDING" /\ acked[h] => OnlyDue

StaleAckInv ==
  \A h \in Requests :
    fate[h] = "RESULT" /\ RequestSpec[h].only_ack =>
      /\ answeredBy[h] \in Requests
      /\ answeredBy[h] = h \/ fate[answeredBy[h]] = "NO_ACK"

TrafficInv == OrderInv /\ AckedInv /\ StaleAckInv

\* What holds besides, whatever the headset answers.
OpenInv ==
  /\ pc \notin {"closing", "closed"}
  /\ unacked # None => unacked.frame.data_type # "ACK"

\* Every reply that ended a request came after the ACK.
RepliesFollowAcks ==
  \A h \in Requests : fate[h] = "RESULT" /\ ~RequestSpec[h].only_ack => acked[h]

LEMMA OpenStep ==
  ASSUME OpenInv, [LinkNext]_allVars
  PROVE  OpenInv'
<1> USE DEF OpenInv
<1>1. CASE HostAlone
  <2>1. pc' \notin {"closing", "closed"}
    <3>1. ASSUME NEW h \in Requests, MakeRequest(h) PROVE pc' = pc
      BY <3>1 DEF MakeRequest, callVars
    <3>2. ASSUME NEW s \in Subscriptions, Subscribe(s) PROVE pc' = pc
      BY <3>2 DEF Subscribe, callVars
    <3>3. ~CloseCallbackReturns
      BY DEF CloseCallbackReturns
    <3> QED
      BY <1>1, <3>1, <3>2, <3>3
         DEF HostAlone, Process, NothingToSend, GiveUp, ReadSkipped, CallbackReturns,
             ErrorCallbackReturns, ResultCallbackReturns, NotifyNext, NotifyEnds, Return,
             GoTo, Notify
  <2> QED
    BY <1>1, <2>1 DEF HostAlone, linkVars
<1>2. CASE HostTransmits \/ HostReadsNothing \/ LinkTick
  BY <1>2 DEF HostTransmits, HostReadsNothing, LinkTick, Transmit, ReadNothing, Tick, Return,
              GoTo, linkVars, callVars
<1>3. CASE HostReadsAck
  BY <1>3 DEF HostReadsAck, AckCompletes, AckAwaitsReply, AckIgnored, Return, GoTo
<1>4. CASE HostReadsData
  BY <1>4 DEF HostReadsData, ReadReply, ReadNotification, ReadUnexpected, Return, GoTo, Notify
<1>5. CASE HeadsetAccepts \/ HeadsetDisregards \/ HeadsetReceivesAck \/ HeadsetSendsAgain
           \/ UNCHANGED allVars
  BY <1>5 DEF HeadsetAccepts, HeadsetDisregards, HeadsetReceivesAck, HeadsetSendsAgain,
              allVars, linkVars, vars, callVars
<1>6. CASE HeadsetReplies \/ HeadsetNotifies
  <2>1. ASSUME NEW p, NEW h, HeadsetSends(p, h)
        PROVE  unacked'.frame.data_type = "DATA_MDR" /\ UNCHANGED vars
    BY <2>1 DEF HeadsetSends
  <2> QED
    BY <1>6, <2>1 DEF HeadsetReplies, HeadsetNotifies, vars, callVars
<1> QED
  BY <1>1, <1>2, <1>3, <1>4, <1>5, <1>6 DEF LinkNext

\* Only the ACK that a request in line waits for marks it.
LEMMA AckedChanges ==
  ASSUME TypeOK, [Next]_vars, NEW h \in Requests, acked'[h] # acked[h]
  PROVE  fate[h] # "RESULT" \/ \E f \in Frame : AckAwaitsReply(f)
BY DEF Next, Application, Sending, Reading, CallbackReturns, MakeRequest, MakeRefused, Subscribe,
       RemoveSubscription, Process, Close, FlushFails, Transmit, TransmitBlocked, TransmitFails,
       NothingToSend, GiveUp, ReadSkipped, ReadNothing, ReadFails, AckCompletes, AckIgnored,
       ReadOther, ReadMalformed, ReadReply, ReadNotification, ReadUnexpected,
       ErrorCallbackReturns, ResultCallbackReturns, NotifyNext, NotifyEnds,
       CloseCallbackReturns, Tick, LinkBreaks, Closed, requestVars, vars

\* That a reply came before its ACK stays true.
LEMMA RepliesFollowedAcks ==
  ASSUME Base, [LinkNext]_allVars, RepliesFollowAcks'
  PROVE  RepliesFollowAcks
<1> SUFFICES ASSUME NEW h \in Requests, fate[h] = "RESULT", ~RequestSpec[h].only_ack
             PROVE  acked[h]
  BY DEF RepliesFollowAcks
<1>1. [Next]_vars
  BY LinkStepIsStep DEF Base
<1>2. fate'[h] = "RESULT"
  <2>1. ContractStep
    BY <1>1, EveryStepIsOfContract DEF Base
  <2>2. ASSUME NEW ending, EndsOldest(ending) PROVE fate'[h] = fate[h]
    <3>1. Outstanding \in Seq(Requests) /\ Outstanding # <<>>
      BY <2>2, OutstandingType DEF EndsOldest, Base
    <3>2. Head(Outstanding) \in ToSet(Outstanding) /\ Head(Outstanding) \in Requests
      BY <3>1, TailSet, HeadTailProperties DEF Base, QueueInv
    <3>3. fate[Head(Outstanding)] = "PENDING"
      BY <3>2 DEF Base, QueueInv, CalledBackOnce
    <3> QED
      BY <2>2, <3>3 DEF EndsOldest, Base, TypeOK, HistoryTypeOK
  <2>3. ASSUME NEW g \in Requests, Accepts(g) \/ Refuses(g) PROVE fate'[h] = fate[h]
    BY <2>3 DEF Accepts, Refuses, Base, TypeOK, HistoryTypeOK
  <2> QED
    BY <2>1, <2>2, <2>3 DEF ContractStep
<1>3. acked'[h]
  BY <1>2 DEF RepliesFollowAcks
<1>4. acked'[h] = acked[h]
  <2>1. SUFFICES ASSUME NEW f \in Frame, AckAwaitsReply(f) PROVE acked'[h] = acked[h]
    BY <1>1, AckedChanges DEF Base
  <2>2. /\ acked' = [acked EXCEPT ![Current] = TRUE]
        /\ queue # <<>> /\ pc = "read"
    BY <2>1 DEF AckAwaitsReply, AckExpected, ReadsAck
  <2>3. fate[Current] = "PENDING" /\ Current \in Requests
    BY <2>2, CurrentIsPending DEF Base, EndingFirst
  <2> QED
    BY <2>2, <2>3 DEF Base, TypeOK, RequestTypeOK
<1> QED
  BY <1>3, <1>4

-----------------------------------------------------------------------------
\* No frame is under way that was not before, and those that are left are in
\* the order in which they were.
FramesLess ==
  \E a, b \in {0, 1} :
    /\ \A i \in Acks' : i \in Nat /\ i + a \in Acks /\ toHost'[i] = toHost[i + a]
    /\ \A i \in Asks' : i \in Nat /\ i + b \in Asks /\ toHeadset'[i] = toHeadset[i + b]

LEMMA SameFrames ==
  ASSUME LinkTypes, UNCHANGED <<toHost, toHeadset>>
  PROVE  FramesLess
<1>1. Acks' = Acks /\ Asks' = Asks
  BY DEF Acks, Asks
<1>2. (\A i \in Acks : i \in Nat /\ i + 0 = i) /\ (\A i \in Asks : i \in Nat /\ i + 0 = i)
  BY LenProperties DEF Acks, Asks, LinkTypes
<1> QED
  BY <1>1, <1>2 DEF FramesLess

LEMMA LessKeepsOrder ==
  ASSUME OrderInv, FramesLess, due' = due,
         \A h \in Requests : Rightful(h) => Rightful(h)'
  PROVE  OrderInv' /\ (OnlyDue => OnlyDue')
<1>1. PICK a \in {0, 1} : \E b \in {0, 1} :
        /\ \A i \in Acks' : i \in Nat /\ i + a \in Acks /\ toHost'[i] = toHost[i + a]
        /\ \A i \in Asks' : i \in Nat /\ i + b \in Asks /\ toHeadset'[i] = toHeadset[i + b]
  BY DEF FramesLess
<1>2. PICK b \in {0, 1} :
        /\ \A i \in Acks' : i \in Nat /\ i + a \in Acks /\ toHost'[i] = toHost[i + a]
        /\ \A i \in Asks' : i \in Nat /\ i + b \in Asks /\ toHeadset'[i] = toHeadset[i + b]
  BY <1>1
<1>3. /\ \A i \in Acks' : i + a \in Acks /\ AckBit(i)' = AckBit(i + a)
      /\ \A i \in Asks' : i + b \in Asks /\ AskBit(i)' = AskBit(i + b)
  BY <1>2 DEF AckBit, AskBit
<1>4. /\ \A i, j \in Acks' : i < j => i + a < j + a
      /\ \A i, j \in Asks' : i < j => i + b < j + b
  BY <1>2
<1> HIDE DEF FramesLess
<1>5. \A i \in Acks' : toHost'[i].frame.sequence_id \in {0, 1}
  BY <1>2 DEF OrderInv
<1>6. \A h : Rightful(h) => Rightful(h)'
  BY DEF Rightful
<1>7. ASSUME NEW i \in Acks', AckBit(i)' = due'
      PROVE  /\ Rightful(toHost[i].answers)'
             /\ \A j \in Acks' : i < j => AckBit(j)' = due'
             /\ \A j \in Asks' : AskBit(j)' = due'
  <2>1. i + a \in Acks /\ AckBit(i + a) = due /\ toHost'[i] = toHost[i + a]
    BY <1>2, <1>3, <1>7
  <2>2. /\ Rightful(toHost[i + a].answers)
        /\ \A j \in Acks : i + a < j => AckBit(j) = due
        /\ \A j \in Asks : AskBit(j) = due
    BY <2>1 DEF OrderInv
  <2>3. Rightful(toHost[i].answers)'
    BY <1>6, <2>1, <2>2 DEF Rightful
  <2> QED
    BY <1>3, <1>4, <2>2, <2>3
<1>8. ASSUME NEW i \in Asks', AskBit(i)' = due'
      PROVE  /\ Rightful(toHeadset[i].request)'
             /\ \A j \in Asks' : i < j => AskBit(j)' = due'
  <2>1. i + b \in Asks /\ AskBit(i + b) = due /\ toHeadset'[i] = toHeadset[i + b]
    BY <1>2, <1>3, <1>8
  <2>2. /\ Rightful(toHeadset[i + b].request)
        /\ \A j \in Asks : i + b < j => AskBit(j) = due
    BY <2>1 DEF OrderInv
  <2>3. Rightful(toHeadset[i].request)'
    BY <1>6, <2>1, <2>2 DEF Rightful
  <2> QED
    BY <1>3, <1>4, <2>2, <2>3
<1>9. OrderInv'
  BY <1>5, <1>7, <1>8 DEF OrderInv
<1>10. OnlyDue => OnlyDue'
  BY <1>3 DEF OnlyDue
<1> QED
  BY <1>9, <1>10

\* When the due id turns over, none is under way with the new one.
LEMMA TurnKeepsOrder ==
  ASSUME OrderInv, OnlyDue, FramesLess, due \in {0, 1}, due' = 1 - due
  PROVE  OrderInv'
<1>1. /\ \A i \in Acks' : AckBit(i)' = due /\ toHost'[i].frame.sequence_id \in {0, 1}
      /\ \A i \in Asks' : AskBit(i)' = due
  BY DEF FramesLess, OnlyDue, OrderInv, AckBit, AskBit
<1>2. due' # due
  OBVIOUS
<1> QED
  BY <1>1, <1>2 DEF OrderInv

\* A step that ends no request and puts none of these frames into the channel.
LEMMA QuietKeepsTraffic ==
  ASSUME TrafficInv, FramesLess, UNCHANGED <<due, acked, answeredBy>>,
         \A h \in Requests :
           /\ attempts[h] # 0 => attempts'[h] # 0
           /\ fate'[h] = fate[h] \/ (fate[h] = "NEW" /\ fate'[h] = "PENDING" /\ ~acked[h])
  PROVE  TrafficInv'
<1>1. \A h \in Requests : Rightful(h) => Rightful(h)'
  BY DEF Rightful, Waiting
<1>2. OrderInv' /\ (OnlyDue => OnlyDue')
  BY <1>1, LessKeepsOrder DEF TrafficInv
<1>3. AckedInv'
  BY <1>2 DEF TrafficInv, AckedInv
<1>4. StaleAckInv'
  BY DEF TrafficInv, StaleAckInv
<1> QED
  BY <1>2, <1>3, <1>4 DEF TrafficInv

\* The id of the request in flight, and which requests have an ACK.
LEMMA CurrentIsDue ==
  ASSUME Base, OpenInv, queue # <<>>, ~EndingFirst
  PROVE  /\ Current \in Requests /\ fate[Current] = "PENDING"
         /\ sequence_id[Current] = due /\ due \in {0, 1}
         /\ \A h \in Requests : fate[h] = "PENDING" /\ h # Current
                                => ~acked[h] /\ attempts[h] = 0
<1>1. Current \in Requests /\ fate[Current] = "PENDING"
  BY CurrentIsPending DEF Base
<1>2. sequence_id[Current] = due /\ due \in {0, 1}
  BY DEF Base, SequenceIdInv, AlternatingSequenceId, OpenInv, EndingFirst, TypeOK, HistoryTypeOK
<1>3. \A h \in Requests : fate[h] = "PENDING" /\ h # Current => ~acked[h] /\ attempts[h] = 0
  BY DEF Base, StopAndWaitInv, StopAndWait, TypeOK, RequestTypeOK
<1> QED
  BY <1>1, <1>2, <1>3

\* A step that ends the first request in line.
LEMMA EndKeepsTraffic ==
  ASSUME Base, OpenInv, TrafficInv, FramesLess, queue # <<>>, ~EndingFirst,
         NEW ending \in {"NO_ACK", "NO_REPLY", "RESULT"}, Ends(Current, ending),
         UNCHANGED <<attempts, acked>>,
         ending # "NO_ACK" => OnlyDue,
         \A h \in Requests \ {Current} : answeredBy'[h] = answeredBy[h],
         ending = "RESULT" /\ RequestSpec[Current].only_ack =>
           answeredBy'[Current] \in Requests /\ Rightful(answeredBy'[Current])
  PROVE  TrafficInv'
<1>1. /\ Current \in Requests /\ fate[Current] = "PENDING"
      /\ sequence_id[Current] = due /\ due \in {0, 1}
      /\ \A h \in Requests : fate[h] = "PENDING" /\ h # Current
                             => ~acked[h] /\ attempts[h] = 0
  BY CurrentIsDue
<1>2. /\ fate'[Current] = ending
      /\ \A h \in Requests \ {Current} : fate'[h] = fate[h]
      /\ due' = IF ending = "NO_ACK" THEN due ELSE 1 - due
  BY <1>1 DEF Ends, Base, TypeOK, HistoryTypeOK
<1>3. \A h \in Requests : ~(fate'[h] = "PENDING" /\ acked'[h])
  BY <1>1, <1>2
<1>4. AckedInv'
  BY <1>3 DEF AckedInv
<1>5. OrderInv'
  <2>1. CASE ending = "NO_ACK"
    <3>1. \A h \in Requests : Rightful(h) => Rightful(h)'
      BY <1>1, <1>2, <2>1 DEF Rightful, Waiting
    <3> QED
      BY <1>2, <2>1, <3>1, LessKeepsOrder DEF TrafficInv
  <2>2. CASE ending # "NO_ACK"
    BY <1>1, <1>2, <2>2, TurnKeepsOrder DEF TrafficInv
  <2> QED
    BY <2>1, <2>2
<1>6. StaleAckInv'
  <2> SUFFICES ASSUME NEW h \in Requests, fate'[h] = "RESULT", RequestSpec[h].only_ack
               PROVE  /\ answeredBy'[h] \in Requests
                      /\ answeredBy'[h] = h \/ fate'[answeredBy'[h]] = "NO_ACK"
    BY DEF StaleAckInv
  <2>1. CASE h = Current
    <3>1. answeredBy'[h] \in Requests /\ Rightful(answeredBy'[h])
      BY <1>2, <2>1
    <3>2. answeredBy'[h] = h \/ fate[answeredBy'[h]] = "NO_ACK"
      BY <1>1, <2>1, <3>1 DEF Rightful, Waiting
    <3> QED
      BY <1>1, <1>2, <3>1, <3>2
  <2>2. CASE h # Current
    <3>1. fate[h] = "RESULT" /\ answeredBy'[h] = answeredBy[h]
      BY <1>2, <2>2
    <3>2. answeredBy[h] \in Requests /\ (answeredBy[h] = h \/ fate[answeredBy[h]] = "NO_ACK")
      BY <3>1 DEF TrafficInv, StaleAckInv
    <3> QED
      BY <1>1, <1>2, <3>1, <3>2
  <2> QED
    BY <2>1, <2>2
<1> QED
  BY <1>4, <1>5, <1>6 DEF TrafficInv

-----------------------------------------------------------------------------
LEMMA HostAloneTraffic ==
  ASSUME Base, OpenInv, TrafficInv, HostAlone \/ HostReadsNothing
  PROVE  TrafficInv'
<1>1. UNCHANGED <<toHeadset, toHost, answeredBy>> /\ FramesLess
  <2>1. UNCHANGED <<toHeadset, toHost, answeredBy>>
    BY DEF HostAlone, HostReadsNothing, linkVars
  <2> QED
    BY <2>1, SameFrames DEF Base
<1>2. ASSUME NEW h \in Requests, MakeRequest(h) PROVE TrafficInv'
  <2>1. /\ fate[h] = "NEW" /\ fate' = [fate EXCEPT ![h] = "PENDING"]
        /\ UNCHANGED <<attempts, acked, due>>
    BY <1>2 DEF MakeRequest
  <2>2. ~acked[h]
    BY <2>1 DEF Base, StopAndWaitInv
  <2>3. \A g \in Requests :
          fate'[g] = fate[g] \/ (fate[g] = "NEW" /\ fate'[g] = "PENDING" /\ ~acked[g])
    BY <2>1, <2>2 DEF Base, TypeOK, HistoryTypeOK
  <2> QED
    BY <1>1, <2>1, <2>3, QuietKeepsTraffic
<1>3. CASE GiveUp
  <2>1. queue # <<>> /\ ~EndingFirst /\ UNCHANGED <<attempts, acked>>
    BY <1>3 DEF GiveUp, TimedOut, InFlight, EndingFirst
  <2>2. Current \in Requests /\ fate[Current] = "PENDING"
    BY <2>1, CurrentIsDue
  <2>3. CASE acked[Current]
    <3>1. Ends(Current, "NO_REPLY")
      BY <1>3, <2>3 DEF GiveUp
    <3>2. OnlyDue
      BY <2>2, <2>3 DEF TrafficInv, AckedInv
    <3> QED
      BY <1>1, <2>1, <3>1, <3>2, EndKeepsTraffic
  <2>4. CASE ~acked[Current]
    <3>1. Ends(Current, "NO_ACK")
      BY <1>3, <2>4 DEF GiveUp
    <3> QED
      BY <1>1, <2>1, <3>1, EndKeepsTraffic
  <2> QED
    BY <2>3, <2>4
<1>4. ASSUME \/ \E s \in Subscriptions : Subscribe(s)
             \/ \E r, w \in BOOLEAN : Process(r, w)
             \/ NothingToSend \/ ReadSkipped \/ ReadNothing
             \/ ErrorCallbackReturns \/ ResultCallbackReturns \/ NotifyNext \/ NotifyEnds
      PROVE  TrafficInv'
  <2>1. UNCHANGED <<fate, attempts, acked, due>>
    BY <1>4 DEF Subscribe, Process, NothingToSend, ReadSkipped, ReadNothing,
                ErrorCallbackReturns, ResultCallbackReturns, NotifyNext, NotifyEnds,
                requestVars, historyVars
  <2> QED
    BY <1>1, <2>1, QuietKeepsTraffic
<1>5. ~CloseCallbackReturns
  BY DEF CloseCallbackReturns, OpenInv
<1> QED
  BY <1>2, <1>3, <1>4, <1>5 DEF HostAlone, HostReadsNothing, CallbackReturns

\* A request is written behind all others, with the id that is due.
LEMMA HostTransmitsTraffic ==
  ASSUME Base, OpenInv, TrafficInv, HostTransmits
  PROVE  TrafficInv'
<1> DEFINE e == [request |-> Current, sequence_id |-> sequence_id[Current]]
<1>1. /\ queue # <<>> /\ ~EndingFirst
      /\ attempts' = [attempts EXCEPT ![Current] = @ + 1]
      /\ toHeadset' = Append(toHeadset, e)
      /\ UNCHANGED <<toHost, answeredBy, acked, fate, due>>
  BY DEF HostTransmits, Transmit, TransmissionDue, Unsent, TimedOut, InFlight, EndingFirst
<1>2. Current \in Requests /\ fate[Current] = "PENDING" /\ e.sequence_id = due /\ due \in {0, 1}
  BY <1>1, CurrentIsDue
<1>3. e \in HostFrame /\ e.request = Current /\ Current # None
  BY <1>2, NoneAssumption DEF HostFrame, SeqIds
<1> HIDE DEF e
<1>4. PICK n \in Nat :
        /\ DOMAIN toHeadset' = DOMAIN toHeadset \cup {n} /\ toHeadset'[n] = e
        /\ \A i \in DOMAIN toHeadset : i \in Nat /\ i < n /\ toHeadset'[i] = toHeadset[i]
  BY <1>1, <1>3, AppendPlaces, LenProperties DEF Base, LinkTypes
<1>5. Asks' = Asks \cup {n} /\ Acks' = Acks
  BY <1>1, <1>3, <1>4 DEF Asks, Acks
<1>6. /\ \A i \in Asks : AskBit(i)' = AskBit(i) /\ toHeadset'[i] = toHeadset[i] /\ i < n
      /\ AskBit(n)' = due' /\ toHeadset'[n].request = Current
      /\ \A i \in Acks : AckBit(i)' = AckBit(i) /\ toHost'[i] = toHost[i]
  BY <1>1, <1>2, <1>3, <1>4 DEF Asks, AskBit, AckBit
<1>7. \A h \in Requests : attempts[h] # 0 => attempts'[h] # 0
  BY <1>1 DEF Base, TypeOK, RequestTypeOK
<1>8. attempts'[Current] # 0
  BY <1>1, <1>2 DEF Base, TypeOK, RequestTypeOK
<1>9. /\ \A h : Rightful(h) => Rightful(h)'
      /\ \A h : h = Current => Rightful(h)'
  BY <1>1, <1>2, <1>7, <1>8 DEF Rightful, Waiting
<1>10. OrderInv'
  <2>1. \A i \in Acks' : toHost'[i].frame.sequence_id \in {0, 1}
    BY <1>1, <1>5 DEF TrafficInv, OrderInv
  <2>2. ASSUME NEW i \in Acks', AckBit(i)' = due'
        PROVE  /\ Rightful(toHost[i].answers)'
               /\ \A j \in Acks' : i < j => AckBit(j)' = due'
               /\ \A j \in Asks' : AskBit(j)' = due'
    <3>1. /\ Rightful(toHost[i].answers)
          /\ \A j \in Acks : i < j => AckBit(j) = due
          /\ \A j \in Asks : AskBit(j) = due
      BY <1>1, <1>5, <1>6, <2>2 DEF TrafficInv, OrderInv
    <3>2. Rightful(toHost[i].answers)'
      BY <1>1, <1>9, <3>1 DEF Rightful
    <3> QED
      BY <1>1, <1>5, <1>6, <3>1, <3>2
  <2>3. ASSUME NEW i \in Asks', AskBit(i)' = due'
        PROVE  /\ Rightful(toHeadset[i].request)'
               /\ \A j \in Asks' : i < j => AskBit(j)' = due'
    <3>1. CASE i = n
      <4>1. \A j \in Asks' : ~(i < j)
        BY <1>4, <1>5, <1>6, <3>1 DEF Asks
      <4>2. Rightful(toHeadset[i].request)'
        BY <1>6, <1>9, <3>1 DEF Rightful
      <4> QED
        BY <4>1, <4>2
    <3>2. CASE i # n
      <4>1. i \in Asks /\ AskBit(i) = due
        BY <1>1, <1>5, <1>6, <2>3, <3>2
      <4>2. Rightful(toHeadset[i].request) /\ \A j \in Asks : i < j => AskBit(j) = due
        BY <4>1 DEF TrafficInv, OrderInv
      <4>3. Rightful(toHeadset[i].request)'
        BY <1>6, <1>9, <4>1, <4>2 DEF Rightful
      <4> QED
        BY <1>1, <1>5, <1>6, <4>2, <4>3
    <3> QED
      BY <3>1, <3>2
  <2> QED
    BY <2>1, <2>2, <2>3 DEF OrderInv
<1>11. AckedInv'
  <2>1. OnlyDue => OnlyDue'
    BY <1>1, <1>5, <1>6 DEF OnlyDue
  <2> QED
    BY <1>1, <2>1 DEF TrafficInv, AckedInv
<1>12. StaleAckInv'
  BY <1>1 DEF TrafficInv, StaleAckInv
<1> QED
  BY <1>10, <1>11, <1>12 DEF TrafficInv

\* What the host takes is the oldest.
LEMMA TakenIsLess ==
  ASSUME LinkTypes, toHost # <<>>, toHost' = Tail(toHost),
         Asks' = Asks, \A i \in Asks : toHeadset'[i] = toHeadset[i]
  PROVE  FramesLess
<1>1. \A i \in Asks : i \in Nat /\ i + 0 = i
  BY LenProperties DEF Asks, LinkTypes
<1>2. \A i \in Acks' : i \in Nat /\ i + 1 \in Acks /\ toHost'[i] = toHost[i + 1]
  BY HostTakes
<1> QED
  BY <1>1, <1>2 DEF FramesLess

LEMMA HostReadsAckTraffic ==
  ASSUME Base, OpenInv, TrafficInv, HostReadsAck
  PROVE  TrafficInv'
<1> DEFINE f == Head(toHost).frame
           a == Head(toHost).answers
<1>1. /\ toHost # <<>> /\ toHost' = Tail(toHost) /\ UNCHANGED toHeadset
      /\ \/ AckCompletes(f) /\ answeredBy' = [answeredBy EXCEPT ![Current] = a]
         \/ (AckAwaitsReply(f) \/ AckIgnored(f)) /\ UNCHANGED answeredBy
      /\ ReadsAck(f)
  BY DEF HostReadsAck, AckCompletes, AckAwaitsReply, AckIgnored
<1>2. f = toHost[1].frame /\ a = toHost[1].answers /\ 1 \in Acks
  <2>1. Head(toHost) = toHost[1] /\ 1 \in DOMAIN toHost
    BY <1>1, TailPlaces DEF Base, LinkTypes
  <2> QED
    BY <1>1, <2>1 DEF Acks, ReadsAck
<1> HIDE DEF f, a
<1>3. FramesLess
  BY <1>1, TakenIsLess DEF Base, Asks
<1>4. ~EndingFirst
  BY <1>1 DEF ReadsAck, EndingFirst
\* An ACK that counts has the id that is due, and so has all that follows.
<1>5. ASSUME AckExpected(f)
      PROVE  /\ queue # <<>> /\ Rightful(a) /\ OnlyDue
  <2>1. /\ queue # <<>> /\ sequence_id[Current] = due /\ due \in {0, 1}
        /\ f.sequence_id = 1 - sequence_id[Current]
    BY <1>4, <1>5, CurrentIsDue DEF AckExpected
  <2>2. AckBit(1) = due
    BY <1>2, <2>1 DEF AckBit
  <2>3. /\ Rightful(a)
        /\ \A j \in Acks : 1 < j => AckBit(j) = due
        /\ \A j \in Asks : AskBit(j) = due
    BY <1>2, <2>2 DEF TrafficInv, OrderInv
  <2>4. \A j \in Acks : j = 1 \/ 1 < j
    <3>1. \A j \in Acks : j \in Nat /\ j >= 1
      BY <1>1, TailPlaces DEF Acks, Base, LinkTypes
    <3> QED
      BY <3>1
  <2> QED
    BY <2>1, <2>2, <2>3, <2>4 DEF OnlyDue
<1>6. CASE AckCompletes(f)
  <2>1. /\ AckExpected(f) /\ Ends(Current, "RESULT") /\ UNCHANGED <<attempts, acked>>
        /\ ~AckAwaitsReply(f) /\ ~AckIgnored(f)
    BY <1>6 DEF AckCompletes, AckAwaitsReply, AckIgnored
  <2>2. queue # <<>> /\ Rightful(a) /\ OnlyDue /\ Current \in Requests
    BY <1>4, <1>5, <2>1, CurrentIsDue
  <2>3. /\ answeredBy'[Current] = a /\ a \in Requests
        /\ \A h \in Requests \ {Current} : answeredBy'[h] = answeredBy[h]
    BY <1>1, <2>1, <2>2 DEF Rightful, Base, LinkTypes
  <2> QED
    BY <1>3, <1>4, <2>1, <2>2, <2>3, EndKeepsTraffic
<1>7. CASE AckAwaitsReply(f)
  <2>1. /\ AckExpected(f) /\ UNCHANGED <<fate, attempts, due, answeredBy>>
    BY <1>1, <1>7 DEF AckAwaitsReply, AckCompletes, historyVars
  <2>2. \A h \in Requests : Rightful(h) => Rightful(h)'
    BY <2>1 DEF Rightful, Waiting
  <2>3. OrderInv' /\ OnlyDue'
    BY <1>3, <1>5, <2>1, <2>2, LessKeepsOrder DEF TrafficInv
  <2> QED
    BY <2>1, <2>3 DEF TrafficInv, AckedInv, StaleAckInv
<1>8. CASE AckIgnored(f)
  <2>1. UNCHANGED <<fate, attempts, acked, due, answeredBy>>
    BY <1>1, <1>8 DEF AckIgnored, AckCompletes, requestVars, historyVars
  <2> QED
    BY <1>3, <2>1, QuietKeepsTraffic
<1> QED
  BY <1>1, <1>6, <1>7, <1>8

\* A reply ends a getter, which has had its ACK.
LEMMA HostReadsDataTraffic ==
  ASSUME Base, OpenInv, TrafficInv, SettersAwaitAcks, RepliesFollowAcks', HostReadsData
  PROVE  TrafficInv'
<1> DEFINE f == Head(toHost).frame
<1>1. /\ toHost # <<>> /\ toHost' = Tail(toHost)
      /\ \/ /\ ReadReply(f)
            /\ answeredBy' = [answeredBy EXCEPT ![Current] = Head(toHost).answers]
         \/ /\ ReadNotification(f) \/ ReadUnexpected(f)
            /\ UNCHANGED answeredBy
      /\ HostAcknowledges(f) /\ ReadsData(f)
  BY DEF HostReadsData, ReadReply, ReadNotification, ReadUnexpected
<1>2. f \in Frame
  BY <1>1, ArrivingType DEF Base, HeadsetFrame
<1> DEFINE a == Head(toHost).answers
<1> HIDE DEF f, a
<1>3. Asks' = Asks /\ \A i \in Asks : toHeadset'[i] = toHeadset[i]
  BY <1>1, AcknowledgementIsNoAsk DEF Base
<1>4. FramesLess
  BY <1>1, <1>3, TakenIsLess DEF Base
<1>5. ~EndingFirst
  BY <1>1 DEF ReadsData, EndingFirst
<1>6. CASE ReadReply(f)
  <2>1. /\ IsReply(f) /\ queue # <<>> /\ Ends(Current, "RESULT")
        /\ UNCHANGED <<attempts, acked>>
        /\ ~ReadNotification(f) /\ ~ReadUnexpected(f)
    BY <1>6 DEF ReadReply, ReadNotification, ReadUnexpected, IsReply
  <2>2. Current \in Requests /\ fate[Current] = "PENDING"
    BY <1>5, <2>1, CurrentIsDue
  <2>3. ~RequestSpec[Current].only_ack
    <3>1. f.packet \in Packets
      BY <1>1, <1>2, <2>1 DEF ReadsData, IsReply, Frame, DataFrame, AckFrame, OtherFrame
    <3> QED
      BY <2>1, <2>2, <3>1 DEF SettersAwaitAcks, IsReply
  <2>4. fate'[Current] = "RESULT"
    BY <2>1, <2>2 DEF Ends, Base, TypeOK, HistoryTypeOK
  <2>5. acked[Current]
    BY <2>1, <2>2, <2>3, <2>4 DEF RepliesFollowAcks
  <2>6. OnlyDue
    BY <2>2, <2>5 DEF TrafficInv, AckedInv
  <2>7. \A h \in Requests \ {Current} : answeredBy'[h] = answeredBy[h]
    BY <1>1, <2>1 DEF Base, LinkTypes
  <2> QED
    BY <1>4, <1>5, <2>1, <2>3, <2>6, <2>7, EndKeepsTraffic
<1>7. CASE ~ReadReply(f)
  <2>1. UNCHANGED <<fate, attempts, acked, due, answeredBy>>
    BY <1>1, <1>7 DEF ReadNotification, ReadUnexpected, requestVars, historyVars
  <2> QED
    BY <1>4, <2>1, QuietKeepsTraffic
<1> QED
  BY <1>6, <1>7

\* What the headset takes is the oldest request, or no request.
LEMMA ReceivedIsLess ==
  ASSUME LinkTypes, toHeadset # <<>>, toHeadset' = Tail(toHeadset), UNCHANGED toHost
  PROVE  FramesLess
<1>1. \A i \in Acks : i \in Nat /\ i + 0 = i
  BY LenProperties DEF Acks, LinkTypes
<1>2. \A i \in Asks' : i \in Nat /\ i + 1 \in Asks /\ toHeadset'[i] = toHeadset[i + 1]
  BY HeadsetTakes
<1>3. Acks' = Acks
  BY DEF Acks
<1> QED
  BY <1>1, <1>2, <1>3 DEF FramesLess

\* A data frame is no ACK.
LEMMA SentIsLess ==
  ASSUME LinkTypes, NEW e \in HeadsetFrame, e.frame.data_type # "ACK",
         toHost' = Append(toHost, e), UNCHANGED toHeadset
  PROVE  FramesLess
<1>1. /\ \A i \in Acks : i \in Nat /\ i + 0 = i
      /\ \A i \in Asks : i \in Nat /\ i + 0 = i
  BY LenProperties DEF Asks, Acks, LinkTypes
<1>2. Asks' = Asks
  BY DEF Asks
<1>3. Acks' = Acks /\ \A i \in Acks : toHost'[i] = toHost[i]
  BY HeadsetPuts DEF Acks
<1> QED
  BY <1>1, <1>2, <1>3 DEF FramesLess

LEMMA HeadsetAloneTraffic ==
  ASSUME Base, OpenInv, TrafficInv,
         \/ HeadsetDisregards \/ HeadsetReceivesAck \/ HeadsetReplies \/ HeadsetNotifies
         \/ HeadsetSendsAgain \/ LinkTick \/ UNCHANGED allVars
  PROVE  TrafficInv'
<1>1. UNCHANGED <<fate, attempts, acked, due, answeredBy>>
  BY DEF HeadsetDisregards, HeadsetReceivesAck, HeadsetReplies, HeadsetNotifies, HeadsetSends,
         HeadsetSendsAgain, LinkTick, Tick, allVars, linkVars, vars, requestVars, historyVars
<1>2. FramesLess
  <2>1. CASE HeadsetDisregards \/ HeadsetReceivesAck
    BY <2>1, ReceivedIsLess DEF HeadsetDisregards, HeadsetReceivesAck, Base
  <2>2. ASSUME NEW p \in Packets, NEW h \in Requests \cup {None}, HeadsetSends(p, h)
        PROVE  FramesLess
    <3> DEFINE e == [frame |-> [data_type |-> "DATA_MDR", sequence_id |-> dataSeq,
                                packet |-> p],
                     answers |-> h]
    <3>1. e \in HeadsetFrame /\ e.frame.data_type # "ACK"
      BY DEF HeadsetFrame, Frame, DataFrame, SeqIds, Base, LinkTypes
    <3>2. toHost' = Append(toHost, e) /\ UNCHANGED toHeadset
      BY <2>2 DEF HeadsetSends
    <3> HIDE DEF e
    <3> QED
      BY <3>1, <3>2, SentIsLess DEF Base
  <2>3. CASE HeadsetReplies \/ HeadsetNotifies
    BY <2>2, <2>3, LinkAssumption DEF HeadsetReplies, HeadsetNotifies, Base, LinkTypes
  <2>4. CASE HeadsetSendsAgain
    <3>1. unacked \in HeadsetFrame /\ unacked.frame.data_type # "ACK"
      BY <2>4 DEF HeadsetSendsAgain, OpenInv, Base, LinkTypes
    <3> QED
      BY <2>4, <3>1, SentIsLess DEF HeadsetSendsAgain, Base
  <2>5. CASE LinkTick \/ UNCHANGED allVars
    BY <2>5, SameFrames DEF LinkTick, allVars, linkVars, Base
  <2> QED
    BY <2>1, <2>3, <2>4, <2>5
<1> QED
  BY <1>1, <1>2, QuietKeepsTraffic

\* The ACK of the oldest request comes behind all ACKs.
LEMMA HeadsetAcceptsTraffic ==
  ASSUME Base, OpenInv, TrafficInv, HeadsetAccepts
  PROVE  TrafficInv'
<1> DEFINE h == Arriving.request
           e == [frame |-> [data_type |-> "ACK",
                            sequence_id |-> 1 - Arriving.sequence_id, packet |-> None],
                 answers |-> h]
<1>1. /\ toHeadset # <<>> /\ toHeadset' = Tail(toHeadset) /\ toHost' = Append(toHost, e)
      /\ h # None /\ UNCHANGED answeredBy /\ UNCHANGED vars
  BY DEF HeadsetAccepts
<1>2. UNCHANGED <<fate, attempts, acked, due>>
  BY <1>1 DEF vars, requestVars, historyVars
<1>3. 1 \in Asks /\ Arriving = toHeadset[1] /\ Arriving \in HostFrame
  BY <1>1, HeadsetTakes DEF Base, Asks
<1>4. h \in Requests /\ Arriving.sequence_id \in {0, 1} /\ AskBit(1) = Arriving.sequence_id
  <2>1. h \in Requests
    BY <1>1, <1>3 DEF HostFrame
  <2>2. Arriving.sequence_id \in {0, 1}
    BY <1>1, <1>3 DEF Base, RequestIds, Asks
  <2> QED
    BY <1>3, <2>1, <2>2 DEF AskBit
<1>5. /\ e \in HeadsetFrame /\ e.frame.data_type = "ACK" /\ e.answers = toHeadset[1].request
      /\ e.frame.sequence_id \in {0, 1} /\ 1 - e.frame.sequence_id = AskBit(1)
  <2>1. e \in HeadsetFrame
    BY <1>4 DEF HeadsetFrame, Frame, AckFrame, SeqIds
  <2>2. e.frame.sequence_id = 1 - Arriving.sequence_id
    OBVIOUS
  <2> QED
    BY <1>3, <1>4, <2>1, <2>2
<1> HIDE DEF e, h
<1>6. PICK n \in Nat :
        /\ toHost'[n] = e /\ n \notin DOMAIN toHost
        /\ \A i \in DOMAIN toHost : i < n /\ toHost'[i] = toHost[i]
        /\ Acks' = Acks \cup {i \in {n} : e.frame.data_type = "ACK"}
        /\ DOMAIN toHost' = DOMAIN toHost \cup {n}
  BY <1>1, <1>5, HeadsetPuts DEF Base
<1>7. /\ Acks' = Acks \cup {n}
      /\ \A i \in Acks : i < n /\ AckBit(i)' = AckBit(i) /\ toHost'[i] = toHost[i]
      /\ AckBit(n)' = AskBit(1) /\ toHost'[n].answers = toHeadset[1].request
  BY <1>5, <1>6 DEF Acks, AckBit
<1>8. \A i \in Asks' : /\ i \in Nat /\ i + 1 \in Asks /\ 1 < i + 1
                       /\ toHeadset'[i] = toHeadset[i + 1] /\ AskBit(i)' = AskBit(i + 1)
  <2>1. \A i \in Asks' : i \in Nat /\ i + 1 \in Asks /\ i + 1 # 1
                         /\ toHeadset'[i] = toHeadset[i + 1]
    BY <1>1, HeadsetTakes DEF Base
  <2> QED
    BY <2>1 DEF AskBit
<1>9. \A g : Rightful(g) <=> Rightful(g)'
  BY <1>2 DEF Rightful, Waiting
<1>10. OrderInv'
  <2>1. \A i \in Acks' : toHost'[i].frame.sequence_id \in {0, 1}
    BY <1>5, <1>6, <1>7 DEF TrafficInv, OrderInv
  <2>2. AskBit(1) = due =>
          /\ Rightful(toHeadset[1].request)
          /\ \A j \in Asks' : AskBit(j)' = due
    BY <1>3, <1>8 DEF TrafficInv, OrderInv
  <2>3. ASSUME NEW i \in Acks', AckBit(i)' = due'
        PROVE  /\ Rightful(toHost[i].answers)'
               /\ \A j \in Acks' : i < j => AckBit(j)' = due'
               /\ \A j \in Asks' : AskBit(j)' = due'
    <3>1. CASE i = n
      <4>1. AskBit(1) = due
        BY <1>2, <1>7, <2>3, <3>1
      <4>2. \A j \in Acks' : ~(i < j)
        <5>1. \A j \in Acks : j \in Nat /\ j < n
          BY <1>7, LenProperties DEF Acks, Base, LinkTypes
        <5>2. \A j \in Nat : j < n \/ j = n => ~(n < j)
          BY <1>6
        <5>3. \A j \in Acks' : j \in Nat /\ (j < n \/ j = n)
          BY <1>6, <1>7, <5>1
        <5> QED
          BY <3>1, <5>2, <5>3
      <4>3. Rightful(toHost[i].answers)'
        BY <1>7, <1>9, <2>2, <3>1, <4>1 DEF Rightful
      <4> QED
        BY <1>2, <2>2, <4>1, <4>2, <4>3
    <3>2. CASE i # n
      <4>1. i \in Acks /\ AckBit(i) = due
        BY <1>2, <1>7, <2>3, <3>2
      <4>2. /\ Rightful(toHost[i].answers)
            /\ \A j \in Acks : i < j => AckBit(j) = due
            /\ \A j \in Asks : AskBit(j) = due
        BY <4>1 DEF TrafficInv, OrderInv
      <4>3. Rightful(toHost[i].answers)'
        BY <1>7, <1>9, <4>1, <4>2 DEF Rightful
      <4>4. \A j \in Acks' : i < j => AckBit(j)' = due'
        BY <1>2, <1>3, <1>7, <4>2
      <4>5. \A j \in Asks' : AskBit(j)' = due'
        BY <1>2, <1>8, <4>2
      <4> QED
        BY <4>3, <4>4, <4>5
    <3> QED
      BY <3>1, <3>2
  <2>4. ASSUME NEW i \in Asks', AskBit(i)' = due'
        PROVE  /\ Rightful(toHeadset[i].request)'
               /\ \A j \in Asks' : i < j => AskBit(j)' = due'
    <3>1. /\ i \in Nat /\ i + 1 \in Asks /\ AskBit(i + 1) = due
          /\ toHeadset'[i] = toHeadset[i + 1]
      BY <1>2, <1>8, <2>4
    <3>2. /\ Rightful(toHeadset[i + 1].request)
          /\ \A j \in Asks : i + 1 < j => AskBit(j) = due
      BY <3>1 DEF TrafficInv, OrderInv
    <3>3. Rightful(toHeadset[i].request)'
      BY <1>9, <3>1, <3>2 DEF Rightful
    <3>4. \A j \in Asks' : i < j => i + 1 < j + 1
      BY <1>8, <3>1
    <3> QED
      BY <1>2, <1>8, <3>2, <3>3, <3>4
  <2> QED
    BY <2>1, <2>3, <2>4 DEF OrderInv
<1>11. OnlyDue => OnlyDue'
  BY <1>2, <1>3, <1>7, <1>8 DEF OnlyDue
<1>12. AckedInv' /\ StaleAckInv'
  BY <1>1, <1>2, <1>11 DEF TrafficInv, AckedInv, StaleAckInv
<1> QED
  BY <1>10, <1>12 DEF TrafficInv

LEMMA TrafficStep ==
  ASSUME SettersAwaitAcks, Base, OpenInv, RepliesFollowAcks => TrafficInv, [LinkNext]_allVars
  PROVE  (RepliesFollowAcks => TrafficInv)'
<1> SUFFICES ASSUME RepliesFollowAcks' PROVE TrafficInv'
  OBVIOUS
<1>1. TrafficInv
  BY RepliesFollowedAcks
<1> QED
  BY <1>1, HostAloneTraffic, HostTransmitsTraffic, HostReadsAckTraffic, HostReadsDataTraffic,
     HeadsetAcceptsTraffic, HeadsetAloneTraffic DEF LinkNext

LEMMA LinkInitTraffic == LinkInit => OpenInv /\ TrafficInv
<1> SUFFICES ASSUME LinkInit PROVE OpenInv /\ TrafficInv
  OBVIOUS
<1>1. Asks = {} /\ Acks = {}
  BY DEF LinkInit, Asks, Acks
<1>2. OpenInv /\ AckedInv /\ StaleAckInv
  BY DEF LinkInit, Init, OpenInv, AckedInv, StaleAckInv
<1> QED
  BY <1>1, <1>2 DEF TrafficInv, OrderInv

(***************************************************************************)
(* However slow the headset is and however often a request is sent, an ACK *)
(* ends a request other than its own only if its own was given up for want *)
(* of an ACK, as long as no packet ends a setter and no reply has overtaken*)
(* the ACK of its request.  The library checks neither: src/packetconn.c   *)
(* takes a packet for a reply whatever only_ack and acked are.             *)
(***************************************************************************)
THEOREM StaleAcksAreToldApart ==
  ASSUME SettersAwaitAcks
  PROVE  LinkSpec => [](RepliesFollowAcks => StaleAckOnlyAfterGivingUp)
<1>1. LinkInit => Base /\ OpenInv /\ (RepliesFollowAcks => TrafficInv)
  BY LinkInitBase, LinkInitTraffic
<1>2. Base /\ OpenInv /\ (RepliesFollowAcks => TrafficInv) /\ [LinkNext]_allVars
      => (Base /\ OpenInv /\ (RepliesFollowAcks => TrafficInv))'
  BY BaseStep, OpenStep, TrafficStep
<1>3. Base /\ OpenInv /\ (RepliesFollowAcks => TrafficInv)
      => (RepliesFollowAcks => StaleAckOnlyAfterGivingUp)
  BY DEF TrafficInv, StaleAckInv, StaleAckOnlyAfterGivingUp
<1> QED
  BY <1>1, <1>2, <1>3, PTL DEF LinkSpec

(***************************************************************************)
(* With setters alone, which no reply answers, it always holds.            *)
(***************************************************************************)
THEOREM StaleAcksOfSetters ==
  ASSUME SettersAwaitAcks, \A h \in Requests : RequestSpec[h].only_ack
  PROVE  LinkSpec => []StaleAckOnlyAfterGivingUp
<1>1. RepliesFollowAcks
  BY DEF RepliesFollowAcks
<1> QED
  BY <1>1, StaleAcksAreToldApart, PTL
=============================================================================
