------------------------- MODULE FrameReaderProofs -------------------------
(***************************************************************************)
(* Proofs about module FrameReader, for every set of consistent streams    *)
(* and every size of the buffer.                                           *)
(*                                                                         *)
(* And, from EnsureMakesRoom on, about FrameEscape, the loop that makes    *)
(* what is read; its variables are its own, and the proofs of neither use  *)
(* anything of the other.                                                  *)
(***************************************************************************)
EXTENDS FrameReader, FrameEscape, FrameFormatProofs

Delimiters == {FRAME_START_BYTE, FRAME_END_BYTE}

(***************************************************************************)
(* The inductive invariant: the call has removed the first p bytes of what *)
(* the peer sends from the buffer, and the buffer and the socket hold the  *)
(* rest, in order.                                                         *)
(***************************************************************************)
Buffered(wire, p) ==
  /\ p + Len(read_buf) + Len(incoming) = Len(wire)
  /\ \A j \in DOMAIN read_buf : read_buf[j] = wire[p + j]
  /\ \A j \in DOMAIN incoming : incoming[j] = wire[p + Len(read_buf) + j]

\* The last byte removed is the start byte of the frame under way.
Started(wire, p) == read_started => p > 0 /\ wire[p] = FRAME_START_BYTE

\* The scan has passed no delimiter that it would have acted upon.
Scanned ==
  pc = "scan" =>
    \A j \in DOMAIN read_buf : j < i =>
      /\ read_started => read_buf[j] \notin Delimiters
      /\ ~damaged => read_buf[j] # FRAME_START_BYTE

\* The frames returned are frames the peer sent, out of the bytes removed.
Returned(stream, p) ==
  \E at \in [FramesDelivered -> DOMAIN frames] :
    \A k \in FramesDelivered :
      /\ delivered[k] = frames[at[k]]
      /\ stream.ends[at[k]] <= p
      /\ \A l \in FramesDelivered : l < k => at[l] < at[k]

\* Without damage, and if the frames fit, they are all the frames that end in these bytes.
AllReturned(stream, p) ==
  FramesFit /\ ~damaged =>
    /\ Len(delivered) <= Len(frames)
    /\ \A k \in DOMAIN delivered : delivered[k] = frames[k]
    /\ \A k \in DOMAIN frames : k <= Len(delivered) <=> stream.ends[k] <= p

\* A frame of which some bytes were removed is the one under way.
NoneCut(wire, p) ==
  FramesFit /\ ~damaged =>
    \A a, b \in DOMAIN wire :
      FrameAt(wire, a, b) /\ a <= p /\ p < b => read_started /\ a = p

\* No frame ends in a buffer that was scanned to its end.
NoneWaiting(stream, p) ==
  FramesFit /\ ~damaged /\ (pc = "refill" \/ (pc = "idle" /\ errno # "0")) =>
    \A k \in DOMAIN frames :
      stream.ends[k] <= p \/ stream.ends[k] > p + Len(read_buf)

ReadUpTo(stream, p) ==
  /\ frames = stream.frames
  /\ Buffered(stream.wire, p)
  /\ Started(stream.wire, p)
  /\ Returned(stream, p)
  /\ AllReturned(stream, p)
  /\ NoneCut(stream.wire, p)
  /\ NoneWaiting(stream, p)

IInv ==
  /\ TypeOK
  /\ Scanned
  /\ \E stream \in Streams : \E p \in 0..Len(stream.wire) : ReadUpTo(stream, p)
-----------------------------------------------------------------------------
LEMMA Constants ==
  /\ FRAME_BUF_SIZE \in Nat \ {0}
  /\ \A stream \in Streams :
       /\ stream.wire \in Seq(Byte)
       /\ stream.frames \in Seq(Seq(Byte))
       /\ stream.ends \in Seq(Nat)
       /\ Consistent(stream)
BY ReaderAssumption DEF Stream

\* What a consistent stream says of its frames, for the k-th of them.
LEMMA EndsOf ==
  ASSUME NEW stream \in Streams
  PROVE  /\ DOMAIN stream.ends = DOMAIN stream.frames
         /\ \A k, l \in DOMAIN stream.ends : k < l => stream.ends[k] < stream.ends[l]
         /\ \A k \in DOMAIN stream.ends :
              /\ stream.ends[k] \in DOMAIN stream.wire
              /\ \E a \in DOMAIN stream.wire :
                   /\ FrameAt(stream.wire, a, stream.ends[k])
                   /\ stream.frames[k] = Decoded(stream.wire, a, stream.ends[k])
         /\ \A a, b \in DOMAIN stream.wire :
              FrameAt(stream.wire, a, b) => \E k \in DOMAIN stream.ends : stream.ends[k] = b
BY Constants, Zenon DEF Consistent

\* Two frames that end at the same byte start at the same byte.
LEMMA OneStart ==
  ASSUME NEW wire \in Seq(Byte), NEW a \in DOMAIN wire, NEW c \in DOMAIN wire,
         NEW b \in DOMAIN wire, Delimited(wire, a, b), Delimited(wire, c, b)
  PROVE  a = c
<1>1. a \in Nat /\ b \in Nat /\ c \in Nat
  OBVIOUS
<1> QED
  BY <1>1 DEF Delimited

\* What the scan has passed holds neither end of a frame.
LEMMA ScannedNoFrame ==
  ASSUME TypeOK, Scanned, NEW stream \in Streams, NEW p \in 0..Len(stream.wire),
         ReadUpTo(stream, p), pc = "scan", FramesFit, ~damaged,
         NEW n \in Nat, n < i, n <= Len(read_buf),
         NEW a \in DOMAIN stream.wire, NEW b \in DOMAIN stream.wire,
         FrameAt(stream.wire, a, b)
  PROVE  /\ ~(p < a /\ a <= p + n)
         /\ ~(p < b /\ b <= p + n)
<1> DEFINE wire == stream.wire
<1>1. wire \in Seq(Byte) /\ a \in Nat /\ b \in Nat /\ p \in Nat /\ i \in Nat
  BY Constants DEF TypeOK
<1>2. /\ a < b
      /\ wire[a] = FRAME_START_BYTE
      /\ wire[b] = FRAME_END_BYTE
  BY DEF FrameAt, Delimited
<1>3. \A j \in DOMAIN read_buf : read_buf[j] = wire[p + j]
  BY DEF ReadUpTo, Buffered
<1>4. DOMAIN read_buf = 1..Len(read_buf) /\ Len(read_buf) \in Nat
  BY DEF TypeOK
<1>5. ~(p < a /\ a <= p + n)
  <2> SUFFICES ASSUME p < a, a <= p + n PROVE FALSE
    OBVIOUS
  <2>1. a - p \in DOMAIN read_buf /\ a - p < i /\ p + (a - p) = a
    BY <1>1, <1>4
  <2>2. read_buf[a - p] # FRAME_START_BYTE
    BY <2>1 DEF Scanned
  <2> QED
    BY <1>2, <1>3, <2>1, <2>2
<1>6. ~(p < b /\ b <= p + n)
  <2> SUFFICES ASSUME p < b, b <= p + n PROVE FALSE
    OBVIOUS
  <2>1. a <= p
    BY <1>1, <1>2, <1>5
  <2>2. read_started
    BY <2>1 DEF ReadUpTo, NoneCut
  <2>3. b - p \in DOMAIN read_buf /\ b - p < i /\ p + (b - p) = b
    BY <1>1, <1>4
  <2>4. read_buf[b - p] \notin Delimiters
    BY <2>2, <2>3 DEF Scanned
  <2> QED
    BY <1>2, <1>3, <2>3, <2>4 DEF Delimiters
<1> QED
  BY <1>5, <1>6

\* The same of the frames' ends.
LEMMA ScannedNoEnd ==
  ASSUME TypeOK, Scanned, NEW stream \in Streams, NEW p \in 0..Len(stream.wire),
         ReadUpTo(stream, p), pc = "scan", FramesFit, ~damaged,
         NEW n \in Nat, n < i, n <= Len(read_buf),
         NEW k \in DOMAIN frames
  PROVE  ~(p < stream.ends[k] /\ stream.ends[k] <= p + n)
<1>1. k \in DOMAIN stream.ends
  BY EndsOf DEF ReadUpTo
<1>2. PICK a \in DOMAIN stream.wire : FrameAt(stream.wire, a, stream.ends[k])
  BY <1>1, EndsOf
<1>3. stream.ends[k] \in DOMAIN stream.wire
  BY <1>1, EndsOf
<1> QED
  BY <1>2, <1>3, ScannedNoFrame

\* The bytes between the start byte and the index of the scan.
LEMMA FoundIsDecoded ==
  ASSUME TypeOK, Scanned, NEW stream \in Streams, NEW p \in 0..Len(stream.wire),
         ReadUpTo(stream, p), Scanning, AtEnd
  PROVE  /\ p \in DOMAIN stream.wire /\ p + i \in DOMAIN stream.wire
         /\ Delimited(stream.wire, p, p + i)
         /\ Found = Decoded(stream.wire, p, p + i)
<1> DEFINE wire == stream.wire
<1>1. wire \in Seq(Byte) /\ p \in Nat /\ i \in Nat \ {0}
  BY Constants DEF TypeOK
<1>2. /\ i <= Len(read_buf) /\ Len(read_buf) \in Nat /\ Len(incoming) \in Nat
      /\ DOMAIN read_buf = 1..Len(read_buf)
      /\ p + Len(read_buf) + Len(incoming) = Len(wire)
      /\ \A j \in DOMAIN read_buf : read_buf[j] = wire[p + j]
  BY DEF Scanning, ReadUpTo, Buffered, TypeOK
<1>3. p > 0 /\ wire[p] = FRAME_START_BYTE
  BY DEF AtEnd, ReadUpTo, Started
<1>4. wire[p + i] = FRAME_END_BYTE
  BY <1>1, <1>2 DEF AtEnd
<1>5. \A j \in (p + 1)..((p + i) - 1) : wire[j] \notin {FRAME_START_BYTE, FRAME_END_BYTE}
  <2> SUFFICES ASSUME NEW j \in (p + 1)..((p + i) - 1)
               PROVE  wire[j] \notin {FRAME_START_BYTE, FRAME_END_BYTE}
    OBVIOUS
  <2>1. j - p \in DOMAIN read_buf /\ j - p < i /\ p + (j - p) = j
    BY <1>1, <1>2
  <2>2. read_buf[j - p] \notin Delimiters
    BY <2>1 DEF Scanned, Scanning, AtEnd
  <2> QED
    BY <1>2, <2>1, <2>2 DEF Delimiters
<1>6. p \in DOMAIN wire /\ p + i \in DOMAIN wire
  BY <1>1, <1>2, <1>3
<1>7. SubSeq(read_buf, 1, i - 1) = SubSeq(wire, p + 1, (p + i) - 1)
  <2>1. read_buf \in Seq(Byte)
    BY DEF TypeOK
  <2>2. /\ Len(SubSeq(read_buf, 1, i - 1)) = i - 1
        /\ SubSeq(read_buf, 1, i - 1) \in Seq(Byte)
        /\ \A j \in 1..(i - 1) : SubSeq(read_buf, 1, i - 1)[j] = read_buf[j]
    BY <1>1, <1>2, <2>1
  <2>3. /\ Len(SubSeq(wire, p + 1, (p + i) - 1)) = i - 1
        /\ SubSeq(wire, p + 1, (p + i) - 1) \in Seq(Byte)
        /\ \A j \in 1..(i - 1) : SubSeq(wire, p + 1, (p + i) - 1)[j] = wire[p + j]
    <3>1. wire \in Seq(Byte) /\ p \in Nat /\ i - 1 \in Nat /\ p + (i - 1) <= Len(wire)
      BY <1>1, <1>2, <1>6
    <3>2. p + (i - 1) = (p + i) - 1
      BY <1>1, <1>2, <1>6
    <3> QED
      BY <3>1, <3>2, SubSeqAt
  <2>4. \A j \in 1..(i - 1) : read_buf[j] = wire[p + j]
    <3>1. \A j \in 1..(i - 1) : j \in 1..Len(read_buf)
      BY <1>1, <1>2
    <3>2. \A j \in 1..(i - 1) : j \in DOMAIN read_buf
      BY <1>2, <3>1
    <3> QED
      BY <1>2, <3>2
  <2> QED
    BY <1>1, <2>2, <2>3, <2>4, SeqEqual
<1>8. Delimited(wire, p, p + i)
  BY <1>1, <1>3, <1>4, <1>5 DEF Delimited
<1>9. Found = Decoded(wire, p, p + i)
  <2>1. Found = unescape_frame(SubSeq(read_buf, 1, i - 1))
    BY DEF Found
  <2>2. Decoded(wire, p, p + i) = unescape_frame(SubSeq(wire, p + 1, (p + i) - 1))
    BY DEF Decoded
  <2> QED
    BY <1>7, <2>1, <2>2, Zenon
<1> QED
  BY <1>6, <1>8, <1>9

-----------------------------------------------------------------------------
\* To show that a step keeps the invariant: the bytes removed by then.
LEMMA Witnessed ==
  ASSUME NEW stream \in Streams, NEW p \in 0..Len(stream.wire),
         TypeOK', Scanned', ReadUpTo(stream, p)'
  PROVE  IInv'
BY DEF IInv, ReadUpTo, Buffered, Started, Returned, FramesDelivered, AllReturned, NoneCut,
       NoneWaiting

LEMMA InitIInv == Init => IInv
<1> SUFFICES ASSUME Init PROVE IInv
  OBVIOUS
<1>1. PICK stream \in Streams : incoming = stream.wire /\ frames = stream.frames
  BY DEF Init
<1>2. /\ stream.wire \in Seq(Byte) /\ stream.frames \in Seq(Seq(Byte))
      /\ Len(stream.wire) \in Nat /\ DOMAIN stream.wire = 1..Len(stream.wire)
  BY Constants
<1>3. TypeOK
  <2>1. <<>> \in Seq(Byte) /\ <<>> \in Seq(Seq(Byte)) /\ Len(<<>>) <= FRAME_BUF_SIZE
    BY Constants
  <2>2. 1 \in 1..(FRAME_BUF_SIZE + 1)
    BY Constants
  <2> QED
    BY <1>1, <1>2, <2>1, <2>2 DEF Init, TypeOK
<1>4. Scanned
  BY DEF Init, Scanned
<1>5. Buffered(stream.wire, 0)
  BY <1>1, <1>2 DEF Init, Buffered
<1>6. Returned(stream, 0)
  <2>1. FramesDelivered = {}
    BY DEF Init, FramesDelivered
  <2>2. [k \in {} |-> 1] \in [FramesDelivered -> DOMAIN frames]
    BY <2>1
  <2> QED
    BY <2>1, <2>2 DEF Returned
<1>7. AllReturned(stream, 0)
  <2>1. \A k \in DOMAIN frames : stream.ends[k] \in Nat \ {0} /\ k \in Nat \ {0}
    BY <1>1, <1>2, EndsOf
  <2>2. Len(delivered) = 0 /\ DOMAIN delivered = {} /\ Len(frames) \in Nat
    BY <1>1, <1>2 DEF Init
  <2> QED
    BY <2>1, <2>2 DEF AllReturned
<1>8. Started(stream.wire, 0) /\ NoneWaiting(stream, 0)
  BY DEF Init, Started, NoneWaiting
<1>9. NoneCut(stream.wire, 0)
  BY <1>2 DEF NoneCut
<1>10. ReadUpTo(stream, 0)
  BY <1>1, <1>5, <1>6, <1>7, <1>8, <1>9 DEF ReadUpTo
<1> QED
  BY <1>2, <1>3, <1>4, <1>10 DEF IInv

\* What was returned was so before more bytes were removed.
LEMMA ReturnedStays ==
  ASSUME NEW stream \in Streams, NEW p \in Nat, NEW q \in Nat, p <= q,
         ReadUpTo(stream, p), UNCHANGED <<frames, delivered>>
  PROVE  Returned(stream, q)'
<1>1. PICK at \in [FramesDelivered -> DOMAIN frames] :
        \A k \in FramesDelivered :
          /\ delivered[k] = frames[at[k]]
          /\ stream.ends[at[k]] <= p
          /\ \A l \in FramesDelivered : l < k => at[l] < at[k]
  BY DEF ReadUpTo, Returned
<1>2. ASSUME NEW k \in FramesDelivered PROVE stream.ends[at[k]] <= q
  <2>1. stream.ends[at[k]] \in Nat
    BY EndsOf, Constants DEF ReadUpTo
  <2> QED
    BY <1>1, <2>1
<1>3. FramesDelivered' = FramesDelivered
  BY DEF FramesDelivered
<1> QED
  BY <1>1, <1>2, <1>3 DEF Returned

\* Read calls and what happens outside of them leave the buffer alone.
LEMMA KeepsBuffer ==
  ASSUME IInv, Read \/ OtherByte \/ RefillsNothing \/ WritesToNull \/ HangUp \/ UNCHANGED vars
                 \/ \E error \in {"EAGAIN", "EIO"} : ReturnsNothing(error)
  PROVE  IInv'
<1>0. PICK stream \in Streams : \E p \in 0..Len(stream.wire) : ReadUpTo(stream, p)
  BY DEF IInv
<1>1. PICK p \in 0..Len(stream.wire) : ReadUpTo(stream, p)
  BY <1>0
<1>2. TypeOK /\ Scanned
  BY DEF IInv
<1>3. UNCHANGED <<read_buf, read_started, incoming, frames, delivered, damaged>>
  BY DEF Read, OtherByte, RefillsNothing, WritesToNull, HangUp, ReturnsNothing, vars
<1>4. TypeOK'
  <2>1. i' \in 1..(FRAME_BUF_SIZE + 1)
    BY <1>2, Constants DEF TypeOK, Read, OtherByte, RefillsNothing, WritesToNull, HangUp,
       ReturnsNothing, vars, Scanning
  <2>2. pc' \in {"idle", "scan", "refill", "crashed"} /\ errno' \in {"0", "EAGAIN", "EIO"}
    BY <1>2 DEF TypeOK, Read, OtherByte, RefillsNothing, WritesToNull, HangUp, ReturnsNothing,
       vars, Scanning
  <2>3. hungup' \in BOOLEAN
    BY <1>2 DEF TypeOK, Read, OtherByte, RefillsNothing, WritesToNull, HangUp,
       ReturnsNothing, vars
  <2> QED
    BY <1>2, <1>3, <2>1, <2>2, <2>3 DEF TypeOK
<1>5. Scanned'
  <2>1. CASE OtherByte
    <3> SUFFICES ASSUME NEW j \in DOMAIN read_buf, j < i + 1
                 PROVE  /\ read_started => read_buf[j] \notin Delimiters
                        /\ ~damaged => read_buf[j] # FRAME_START_BYTE
      BY <1>3, <2>1 DEF Scanned, OtherByte
    <3>1. j < i \/ j = i
      BY <1>2 DEF TypeOK
    <3> QED
      BY <1>2, <2>1, <3>1 DEF Scanned, OtherByte, Scanning, AtStart, AtEnd, Delimiters
  <2>2. CASE Read \/ RefillsNothing
    <3>1. i' = 1 /\ DOMAIN read_buf' = DOMAIN read_buf
      BY <1>3, <2>2 DEF Read, RefillsNothing
    <3>2. \A j \in DOMAIN read_buf : ~(j < 1)
      BY <1>2 DEF TypeOK
    <3> QED
      BY <3>1, <3>2 DEF Scanned
  <2>3. CASE HangUp \/ UNCHANGED vars
    BY <1>2, <1>3, <2>3 DEF Scanned, HangUp, vars
  <2>4. CASE \E error \in {"EAGAIN", "EIO"} : ReturnsNothing(error)
    BY <2>4 DEF Scanned, ReturnsNothing
  <2>5. CASE WritesToNull
    BY <2>5 DEF Scanned, WritesToNull
  <2> QED
    BY <2>1, <2>2, <2>3, <2>4, <2>5
<1>6. NoneWaiting(stream, p)'
  BY <1>1, <1>3 DEF ReadUpTo, NoneWaiting, Read, OtherByte, RefillsNothing, WritesToNull,
     HangUp, ReturnsNothing, vars
<1>7. ReadUpTo(stream, p)'
  <2>1. Returned(stream, p)'
    <3>1. p \in Nat /\ p <= p
      BY Constants
    <3> QED
      BY <1>1, <1>3, <3>1, ReturnedStays
  <2> QED
    BY <1>1, <1>3, <1>6, <2>1 DEF ReadUpTo, Buffered, Started, AllReturned, NoneCut
<1> QED
  BY <1>4, <1>5, <1>7, Witnessed

-----------------------------------------------------------------------------
\* The bytes behind the index, in a buffer that has moved.
LEMMA BehindMoves ==
  ASSUME TypeOK, Scanning
  PROVE  /\ Behind \in Seq(Byte)
         /\ Len(Behind) = Len(read_buf) - i
         /\ \A j \in DOMAIN Behind : i + j \in DOMAIN read_buf /\ Behind[j] = read_buf[i + j]
<1> DEFINE n == Len(read_buf) - i
<1>1. i \in Nat \ {0} /\ i <= Len(read_buf) /\ Len(read_buf) \in Nat /\ read_buf \in Seq(Byte)
  BY Constants DEF TypeOK, Scanning
<1>2. \A j \in (i + 1)..Len(read_buf) : read_buf[j] \in Byte
  BY <1>1
<1>3. /\ Behind \in Seq(Byte)
      /\ Len(Behind) = IF i + 1 <= Len(read_buf) THEN Len(read_buf) - (i + 1) + 1 ELSE 0
      /\ \A j \in 1..(Len(read_buf) - (i + 1) + 1) : Behind[j] = read_buf[(i + 1) + j - 1]
  BY <1>1, <1>2, SubSeqProperties DEF Behind
<1>4. Len(Behind) = Len(read_buf) - i
  BY <1>1, <1>3
<1>5. DOMAIN Behind = 1..n
  BY <1>3, <1>4
<1>6. ASSUME NEW j \in 1..n
      PROVE  i + j \in DOMAIN read_buf /\ Behind[j] = read_buf[i + j]
  <2>1. (i + 1) + j - 1 = i + j /\ j \in 1..(Len(read_buf) - (i + 1) + 1)
    BY <1>1
  <2> QED
    BY <1>1, <1>3, <2>1
<1> QED
  BY <1>3, <1>4, <1>5, <1>6

LEMMA BufferMoves ==
  ASSUME TypeOK, NEW stream \in Streams, NEW p \in 0..Len(stream.wire),
         ReadUpTo(stream, p), NEW q, q = p + i, Scanning, read_buf' = Behind, incoming' = incoming
  PROVE  /\ q \in 1..Len(stream.wire)
         /\ read_buf[i] = stream.wire[q]
         /\ q + Len(read_buf') = p + Len(read_buf)
         /\ Buffered(stream.wire, q)'
         /\ read_buf' \in Seq(Byte) /\ Len(read_buf') <= FRAME_BUF_SIZE
<1>1. i \in Nat \ {0} /\ i <= Len(read_buf) /\ Len(read_buf) \in Nat /\ p \in Nat
  BY Constants DEF TypeOK, Scanning
<1>2. /\ p + Len(read_buf) + Len(incoming) = Len(stream.wire)
      /\ \A j \in DOMAIN read_buf : read_buf[j] = stream.wire[p + j]
      /\ \A j \in DOMAIN incoming : incoming[j] = stream.wire[p + Len(read_buf) + j]
      /\ Len(incoming) \in Nat /\ DOMAIN read_buf = 1..Len(read_buf)
  BY DEF ReadUpTo, Buffered, TypeOK
<1>3. /\ read_buf' \in Seq(Byte)
      /\ Len(read_buf') = Len(read_buf) - i
      /\ \A j \in DOMAIN read_buf' : i + j \in DOMAIN read_buf /\ read_buf'[j] = read_buf[i + j]
  BY BehindMoves
<1>4. q + Len(read_buf') = p + Len(read_buf)
  BY <1>1, <1>3
<1>5. \A j \in DOMAIN read_buf' : read_buf'[j] = stream.wire[q + j]
  <2> SUFFICES ASSUME NEW j \in DOMAIN read_buf' PROVE read_buf'[j] = stream.wire[q + j]
    OBVIOUS
  <2>1. j \in Nat
    BY <1>3
  <2>2. p + (i + j) = q + j
    BY <1>1, <2>1
  <2>3. read_buf[i + j] = stream.wire[p + (i + j)]
    BY <1>2, <1>3
  <2> QED
    BY <1>3, <2>2, <2>3
<1>6. Buffered(stream.wire, q)'
  <2>1. q + Len(read_buf') + Len(incoming') = Len(stream.wire)
    BY <1>2, <1>4
  <2>2. \A j \in DOMAIN incoming' : incoming'[j] = stream.wire[q + Len(read_buf') + j]
    BY <1>2, <1>4
  <2> QED
    BY <1>5, <2>1, <2>2 DEF Buffered
<1> QED
  <2>1. q \in 1..Len(stream.wire) /\ i \in DOMAIN read_buf
    BY <1>1, <1>2
  <2>2. read_buf[i] = stream.wire[q]
    BY <1>2, <2>1
  <2>3. Len(read_buf') <= FRAME_BUF_SIZE
    BY <1>1, <1>3, Constants DEF TypeOK
  <2> QED
    BY <1>3, <1>4, <1>6, <2>1, <2>2, <2>3

LEMMA FrameStartsKeeps ==
  ASSUME IInv, FrameStarts
  PROVE  IInv'
<1>0. PICK stream \in Streams : \E p \in 0..Len(stream.wire) : ReadUpTo(stream, p)
  BY DEF IInv
<1>1. PICK p \in 0..Len(stream.wire) : ReadUpTo(stream, p)
  BY <1>0
<1>2. TypeOK /\ Scanned /\ Scanning /\ pc = "scan" /\ i \in Nat \ {0} /\ i <= Len(read_buf)
        /\ Len(read_buf) \in Nat
  BY Constants DEF IInv, FrameStarts, Scanning, TypeOK
<1>3. /\ read_buf' = Behind /\ read_started' = TRUE /\ i' = 1
      /\ UNCHANGED <<pc, errno, incoming, hungup, frames, delivered, damaged>>
      /\ read_buf[i] = FRAME_START_BYTE
  BY DEF FrameStarts, AtStart
<1>q. PICK q : q = p + i
  OBVIOUS
<1>4. /\ q \in 1..Len(stream.wire)
      /\ read_buf[i] = stream.wire[q]
      /\ q + Len(read_buf') = p + Len(read_buf)
      /\ Buffered(stream.wire, q)'
      /\ read_buf' \in Seq(Byte) /\ Len(read_buf') <= FRAME_BUF_SIZE
  BY <1>1, <1>2, <1>3, <1>q, BufferMoves
<1>5. stream.wire \in Seq(Byte) /\ Len(stream.wire) \in Nat /\ p \in Nat /\ q \in Nat /\ p < q
  BY <1>2, <1>4, <1>q, Constants
<1>6. TypeOK'
  BY <1>2, <1>3, <1>4, Constants DEF TypeOK
<1>7. Scanned'
  <2>1. \A j \in DOMAIN read_buf' : ~(j < i')
    BY <1>3, <1>6 DEF TypeOK
  <2> QED
    BY <2>1 DEF Scanned
<1>8. Started(stream.wire, q)'
  BY <1>3, <1>4, <1>5 DEF Started
<1>9. Returned(stream, q)'
  BY <1>1, <1>3, <1>5, ReturnedStays
<1>10. AllReturned(stream, q)'
  <2> SUFFICES ASSUME FramesFit, ~damaged, NEW k \in DOMAIN frames
               PROVE  stream.ends[k] <= p <=> stream.ends[k] <= q
    BY <1>1, <1>3 DEF ReadUpTo, AllReturned
  <2>1. stream.ends[k] \in DOMAIN stream.wire /\ stream.ends[k] \in Nat
    BY <1>1, <1>5, EndsOf DEF ReadUpTo
  <2>2. \E a \in DOMAIN stream.wire : FrameAt(stream.wire, a, stream.ends[k])
    BY <1>1, EndsOf DEF ReadUpTo
  <2>3. stream.ends[k] # q
    BY <1>3, <1>4, <2>2 DEF FrameAt, Delimited, FRAME_START_BYTE, FRAME_END_BYTE
  <2>4. i - 1 \in Nat /\ i - 1 < i /\ i - 1 <= Len(read_buf)
    BY <1>2
  <2>5. ~(p < stream.ends[k] /\ stream.ends[k] <= p + (i - 1))
    BY <1>1, <1>2, <2>4, ScannedNoEnd
  <2> QED
    BY <1>2, <1>5, <1>q, <2>1, <2>3, <2>5
<1>11. NoneCut(stream.wire, q)'
  <2> SUFFICES ASSUME FramesFit, ~damaged,
                      NEW a \in DOMAIN stream.wire, NEW b \in DOMAIN stream.wire,
                      FrameAt(stream.wire, a, b), a <= q, q < b
               PROVE  a = q
    BY <1>3 DEF NoneCut
  <2>1. a \in Nat /\ b \in Nat
    BY <1>5
  <2>2. i - 1 \in Nat /\ i - 1 < i /\ i - 1 <= Len(read_buf)
    BY <1>2
  <2>3. ~(p < a /\ a <= p + (i - 1))
    BY <1>1, <1>2, <2>2, ScannedNoFrame
  <2>4. ~(a < q)
    <3> SUFFICES ASSUME a < q PROVE FALSE
      OBVIOUS
    <3>1. q \in (a + 1)..(b - 1)
      BY <1>5, <2>1
    <3> QED
      BY <1>3, <1>4, <3>1 DEF FrameAt, Delimited
  <2> QED
    BY <1>5, <2>1, <2>4
<1>12. NoneWaiting(stream, q)'
  BY <1>2, <1>3 DEF NoneWaiting
<1>13. ReadUpTo(stream, q)' /\ q \in 0..Len(stream.wire)
  BY <1>1, <1>3, <1>4, <1>5, <1>8, <1>9, <1>10, <1>11, <1>12 DEF ReadUpTo
<1> QED
  BY <1>6, <1>7, <1>13, Witnessed

\* The frame at hand is one that the peer sent.
LEMMA FoundWasSent ==
  ASSUME TypeOK, Scanned, NEW stream \in Streams, NEW p \in 0..Len(stream.wire),
         ReadUpTo(stream, p), Scanning, AtEnd, NEW q, q = p + i, IsFrame(Found)
  PROVE  \E k \in DOMAIN frames : stream.ends[k] = q /\ frames[k] = Found
<1>1. /\ p \in DOMAIN stream.wire /\ q \in DOMAIN stream.wire
      /\ Delimited(stream.wire, p, q) /\ Found = Decoded(stream.wire, p, q)
  BY FoundIsDecoded
<1>2. FrameAt(stream.wire, p, q)
  BY <1>1 DEF FrameAt
<1>3. PICK k \in DOMAIN stream.ends : stream.ends[k] = q
  BY <1>1, <1>2, EndsOf
<1>4. PICK a \in DOMAIN stream.wire :
        FrameAt(stream.wire, a, q) /\ stream.frames[k] = Decoded(stream.wire, a, q)
  BY <1>3, EndsOf
<1>5. a = p
  BY <1>1, <1>4, OneStart, Constants DEF FrameAt
<1> QED
  BY <1>1, <1>3, <1>4, <1>5, EndsOf DEF ReadUpTo

LEMMA FrameEndsKeeps ==
  ASSUME IInv, FrameEnds, IsFrame(Found)
  PROVE  IInv'
<1>0. PICK stream \in Streams : \E p \in 0..Len(stream.wire) : ReadUpTo(stream, p)
  BY DEF IInv
<1>1. PICK p \in 0..Len(stream.wire) : ReadUpTo(stream, p)
  BY <1>0
<1>2. TypeOK /\ Scanned /\ Scanning /\ pc = "scan" /\ i \in Nat \ {0} /\ i <= Len(read_buf)
        /\ Len(read_buf) \in Nat
  BY Constants DEF IInv, FrameEnds, Scanning, TypeOK
<1>3. /\ read_buf' = Behind /\ read_started' = FALSE /\ pc' = "idle" /\ errno' = "0"
      /\ delivered' = Append(delivered, Found)
      /\ UNCHANGED <<i, incoming, hungup, frames, damaged>>
      /\ AtEnd /\ IsFrame(Found) /\ read_buf[i] = FRAME_END_BYTE
  <2>1. damaged' = damaged
    BY Zenon DEF FrameEnds, IInv, TypeOK
  <2> QED
    BY <2>1 DEF FrameEnds, AtEnd
<1>q. PICK q : q = p + i
  OBVIOUS
<1>4. /\ q \in 1..Len(stream.wire)
      /\ read_buf[i] = stream.wire[q]
      /\ q + Len(read_buf') = p + Len(read_buf)
      /\ Buffered(stream.wire, q)'
      /\ read_buf' \in Seq(Byte) /\ Len(read_buf') <= FRAME_BUF_SIZE
  BY <1>1, <1>2, <1>3, <1>q, BufferMoves
<1>5. stream.wire \in Seq(Byte) /\ Len(stream.wire) \in Nat /\ p \in Nat /\ q \in Nat /\ p < q
  BY <1>2, <1>4, <1>q, Constants
<1>f. /\ frames = stream.frames /\ frames \in Seq(Seq(Byte))
      /\ Len(frames) \in Nat /\ DOMAIN frames = 1..Len(frames)
      /\ DOMAIN stream.ends = DOMAIN frames
  BY <1>1, Constants, EndsOf DEF ReadUpTo
<1>e. /\ \A k \in DOMAIN frames : stream.ends[k] \in Nat
      /\ \A k, l \in DOMAIN frames : k < l => stream.ends[k] < stream.ends[l]
  <2>1. \A k \in DOMAIN frames : stream.ends[k] \in DOMAIN stream.wire
    BY <1>f, EndsOf
  <2>2. \A k, l \in DOMAIN frames : k < l => stream.ends[k] < stream.ends[l]
    BY <1>f, EndsOf
  <2> QED
    BY <1>5, <2>1, <2>2
<1>k. PICK n \in DOMAIN frames : stream.ends[n] = q /\ frames[n] = Found
  BY <1>1, <1>2, <1>3, <1>q, FoundWasSent
<1>d. /\ delivered \in Seq(Seq(Byte)) /\ Len(delivered) \in Nat
      /\ delivered' \in Seq(Seq(Byte)) /\ Len(delivered') = Len(delivered) + 1
      /\ delivered'[Len(delivered) + 1] = frames[n]
      /\ \A k \in 1..Len(delivered) : delivered'[k] = delivered[k]
  BY <1>2, <1>3, <1>f, <1>k DEF TypeOK
<1>6. TypeOK'
  BY <1>2, <1>3, <1>4, <1>d, Constants DEF TypeOK
<1>7. Scanned'
  BY <1>3 DEF Scanned
<1>8. Started(stream.wire, q)'
  BY <1>3 DEF Started
<1>9. Returned(stream, q)'
  <2>1. PICK at \in [FramesDelivered -> DOMAIN frames] :
          \A k \in FramesDelivered :
            /\ delivered[k] = frames[at[k]]
            /\ stream.ends[at[k]] <= p
            /\ \A l \in FramesDelivered : l < k => at[l] < at[k]
    BY <1>1 DEF ReadUpTo, Returned
  <2>2. PICK m : m = Len(delivered) + 1
    OBVIOUS
  <2>3. /\ FramesDelivered \subseteq 1..Len(delivered)
        /\ FramesDelivered' = FramesDelivered \cup {m}
        /\ m \in Nat /\ \A k \in FramesDelivered : k \in Nat /\ k < m
    <3>1. DOMAIN delivered = 1..Len(delivered) /\ DOMAIN delivered' = 1..m /\ m \in Nat
      BY <1>d, <2>2
    <3>2. FramesDelivered \subseteq 1..Len(delivered)
      BY <3>1 DEF FramesDelivered
    <3>3. \A k \in 1..m : k \in 1..Len(delivered) \/ k = m
      BY <1>d, <2>2
    <3>4. m \in 1..m /\ 1..Len(delivered) \subseteq 1..m
      BY <1>d, <2>2
    <3>5. delivered'[m] = Found /\ IsFrame(Found)
      BY <1>3, <1>d, <1>k, <2>2
    <3>6. \A k : k \in FramesDelivered' <=> k \in FramesDelivered \cup {m}
      <4>1. \A k : k \in FramesDelivered' <=> k \in 1..m /\ IsFrame(delivered'[k])
        BY <3>1 DEF FramesDelivered, IsFrame
      <4>2. \A k : k \in FramesDelivered <=> k \in 1..Len(delivered) /\ IsFrame(delivered[k])
        BY <3>1 DEF FramesDelivered
      <4>3. \A k \in 1..Len(delivered) : delivered'[k] = delivered[k]
        BY <1>d
      <4> QED
        BY <3>3, <3>4, <3>5, <4>1, <4>2, <4>3, Zenon
    <3>7. \A k \in FramesDelivered : k \in Nat /\ k < m
      BY <1>d, <2>2, <3>2
    <3> QED
      BY <3>1, <3>2, <3>6, <3>7
  <2> DEFINE at2 == [k \in FramesDelivered \cup {m} |-> IF k = m THEN n ELSE at[k]]
  <2>4. at2 \in [FramesDelivered' -> DOMAIN frames']
    BY <1>3, <1>k, <2>1, <2>3
  <2>5. at2[m] = n /\ \A k \in FramesDelivered : at2[k] = at[k]
    BY <2>3
  <2>6. ASSUME NEW k \in FramesDelivered
        PROVE  at[k] < n /\ stream.ends[at[k]] <= q
    <3>1. at[k] \in DOMAIN frames /\ at[k] \in Nat /\ n \in Nat /\ stream.ends[at[k]] <= p
            /\ stream.ends[at[k]] \in Nat
      BY <1>e, <1>f, <2>1
    <3>2. ~(n < at[k]) /\ n # at[k]
      BY <1>5, <1>e, <1>k, <3>1
    <3> QED
      BY <1>5, <3>1, <3>2
  <2> HIDE DEF at2
  <2>7. ASSUME NEW k \in FramesDelivered \cup {m}
        PROVE  /\ delivered'[k] = frames[at2[k]]
               /\ stream.ends[at2[k]] <= q
               /\ \A l \in FramesDelivered \cup {m} : l < k => at2[l] < at2[k]
    <3>1. CASE k \in FramesDelivered
      <4>1. at2[k] = at[k] /\ delivered'[k] = delivered[k]
        BY <1>d, <2>3, <2>5, <3>1
      <4>2. \A l \in FramesDelivered \cup {m} : l < k => l \in FramesDelivered
        BY <2>3, <3>1
      <4> QED
        BY <2>1, <2>5, <2>6, <3>1, <4>1, <4>2
    <3>2. CASE k = m
      <4>1. at2[k] = n /\ stream.ends[n] <= q
        BY <1>5, <1>k, <2>5, <3>2
      <4>2. ASSUME NEW l \in FramesDelivered \cup {m}, l < k PROVE at2[l] < n
        <5>1. l \in FramesDelivered
          BY <2>3, <3>2, <4>2
        <5> QED
          BY <2>5, <2>6, <5>1
      <4> QED
        BY <1>d, <2>2, <3>2, <4>1, <4>2
    <3> QED
      BY <3>1, <3>2
  <2> QED
    BY <1>3, <2>3, <2>4, <2>7 DEF Returned
<1>10. AllReturned(stream, q)'
  <2> SUFFICES ASSUME FramesFit, ~damaged PROVE AllReturned(stream, q)'
    BY <1>3 DEF AllReturned
  <2>1. /\ Len(delivered) <= Len(frames)
        /\ \A k \in DOMAIN delivered : delivered[k] = frames[k]
        /\ \A k \in DOMAIN frames : k <= Len(delivered) <=> stream.ends[k] <= p
    BY <1>1 DEF ReadUpTo, AllReturned
  <2>2. \A k \in DOMAIN frames : stream.ends[k] \in Nat
    BY <1>e
  <2>3. \A k, l \in DOMAIN frames : k < l => stream.ends[k] < stream.ends[l]
    BY <1>e
  <2>4. \A k \in DOMAIN frames : ~(p < stream.ends[k] /\ stream.ends[k] <= p + (i - 1))
    <3>1. i - 1 \in Nat /\ i - 1 < i /\ i - 1 <= Len(read_buf)
      BY <1>2
    <3> QED
      BY <1>1, <1>2, <3>1, ScannedNoEnd
  <2>5. \A k \in DOMAIN frames : k < n => stream.ends[k] <= p
    <3> SUFFICES ASSUME NEW k \in DOMAIN frames, k < n PROVE stream.ends[k] <= p
      OBVIOUS
    <3>1. stream.ends[k] < q
      BY <1>k, <2>3
    <3> QED
      BY <1>2, <1>5, <1>q, <2>2, <2>4, <3>1
  <2>6. n = Len(delivered) + 1
    <3>1. n \in Nat /\ ~(n <= Len(delivered))
      BY <1>5, <1>f, <1>k, <2>1
    <3>2. ~(Len(delivered) + 1 < n)
      <4> SUFFICES ASSUME Len(delivered) + 1 < n PROVE FALSE
        OBVIOUS
      <4>1. Len(delivered) + 1 \in DOMAIN frames
        BY <1>d, <1>f
      <4> QED
        BY <1>d, <2>1, <2>5, <4>1
    <3> QED
      BY <1>d, <3>1, <3>2
  <2>7. Len(delivered') <= Len(frames')
    BY <1>3, <1>d, <1>f, <2>6
  <2>8. \A k \in DOMAIN delivered' : delivered'[k] = frames'[k]
    BY <1>3, <1>d, <2>1, <2>6
  <2>9. ASSUME NEW k \in DOMAIN frames
        PROVE  k <= Len(delivered') <=> stream.ends[k] <= q
    <3>1. k \in Nat
      BY <1>f
    <3>2. CASE k <= n
      <4>1. k < n => stream.ends[k] < q
        BY <1>k, <2>3
      <4>2. k = n => stream.ends[k] = q
        BY <1>k
      <4>3. stream.ends[k] \in Nat /\ n \in Nat
        BY <1>f, <2>2
      <4> QED
        BY <1>5, <1>d, <2>6, <3>1, <3>2, <4>1, <4>2, <4>3
    <3>3. CASE n < k
      BY <1>5, <1>d, <1>k, <2>2, <2>3, <2>6, <3>1, <3>3
    <3> QED
      BY <1>f, <3>1, <3>2, <3>3
  <2> QED
    BY <1>3, <2>7, <2>8, <2>9 DEF AllReturned
<1>11. NoneCut(stream.wire, q)'
  <2> SUFFICES ASSUME FramesFit, ~damaged,
                      NEW a \in DOMAIN stream.wire, NEW b \in DOMAIN stream.wire,
                      FrameAt(stream.wire, a, b), a <= q, q < b
               PROVE  FALSE
    BY <1>3 DEF NoneCut
  <2>1. a \in Nat /\ b \in Nat
    BY <1>5
  <2>2. a # q
    BY <1>3, <1>4 DEF FrameAt, Delimited, FRAME_START_BYTE, FRAME_END_BYTE
  <2>3. q \in (a + 1)..(b - 1)
    BY <1>5, <2>1, <2>2
  <2> QED
    BY <1>3, <1>4, <2>3 DEF FrameAt, Delimited
<1>12. NoneWaiting(stream, q)'
  BY <1>3 DEF NoneWaiting
<1>13. ReadUpTo(stream, q)' /\ q \in 0..Len(stream.wire)
  BY <1>1, <1>3, <1>4, <1>5, <1>8, <1>9, <1>10, <1>11, <1>12 DEF ReadUpTo
<1> QED
  BY <1>6, <1>7, <1>13, Witnessed

\* Once bytes are damaged, only the frames returned are kept track of.
LEMMA DamageKeeps ==
  ASSUME IInv, Scanning, TypeOK', Scanned',
         read_buf' = Behind, read_started' = FALSE, damaged' = TRUE,
         UNCHANGED <<incoming, frames, FramesDelivered>>,
         \A k \in FramesDelivered : delivered'[k] = delivered[k]
  PROVE  IInv'
<1>0. PICK stream \in Streams : \E p \in 0..Len(stream.wire) : ReadUpTo(stream, p)
  BY DEF IInv
<1>1. PICK p \in 0..Len(stream.wire) : ReadUpTo(stream, p)
  BY <1>0
<1>2. TypeOK /\ Scanning /\ i \in Nat \ {0} /\ i <= Len(read_buf) /\ Len(read_buf) \in Nat
  BY Constants DEF IInv, Scanning, TypeOK
<1>q. PICK q : q = p + i
  OBVIOUS
<1>4. /\ q \in 1..Len(stream.wire)
      /\ Buffered(stream.wire, q)'
      /\ read_buf' \in Seq(Byte) /\ Len(read_buf') <= FRAME_BUF_SIZE
  BY <1>1, <1>2, <1>q, BufferMoves
<1>5. Len(stream.wire) \in Nat /\ p \in Nat /\ q \in Nat /\ p < q
  BY <1>2, <1>4, <1>q, Constants
<1>6. Returned(stream, q)'
  <2>1. PICK at \in [FramesDelivered -> DOMAIN frames] :
          \A k \in FramesDelivered :
            /\ delivered[k] = frames[at[k]]
            /\ stream.ends[at[k]] <= p
            /\ \A l \in FramesDelivered : l < k => at[l] < at[k]
    BY <1>1 DEF ReadUpTo, Returned
  <2>2. ASSUME NEW k \in FramesDelivered PROVE stream.ends[at[k]] <= q
    <3>1. stream.ends[at[k]] \in Nat
      BY <1>1, EndsOf, Constants DEF ReadUpTo
    <3> QED
      BY <1>5, <2>1, <3>1
  <2> QED
    BY <2>1, <2>2 DEF Returned
<1>7. /\ Started(stream.wire, q)' /\ AllReturned(stream, q)' /\ NoneCut(stream.wire, q)'
      /\ NoneWaiting(stream, q)'
  BY DEF Started, AllReturned, NoneCut, NoneWaiting
<1>8. ReadUpTo(stream, q)' /\ q \in 0..Len(stream.wire)
  BY <1>1, <1>4, <1>5, <1>6, <1>7 DEF ReadUpTo
<1> QED
  BY <1>8, Witnessed

LEMMA EndsWithoutFrameKeeps ==
  ASSUME IInv, EndsWithoutFrame
  PROVE  IInv'
<1>1. TypeOK /\ Scanning /\ i \in Nat \ {0} /\ i <= Len(read_buf) /\ Len(read_buf) \in Nat
  BY Constants DEF IInv, EndsWithoutFrame, Scanning, TypeOK
<1>2. /\ read_buf' = Behind /\ read_started' = FALSE /\ i' = i + 1 /\ damaged' = TRUE
      /\ UNCHANGED <<pc, errno, incoming, hungup, frames, delivered>>
  BY DEF EndsWithoutFrame
<1>3. Behind \in Seq(Byte) /\ Len(Behind) <= FRAME_BUF_SIZE
  <2>1. Behind \in Seq(Byte) /\ Len(Behind) = Len(read_buf) - i
    BY <1>1, BehindMoves
  <2> QED
    BY <1>1, <2>1, Constants DEF TypeOK
<1>4. TypeOK'
  <2>1. i' \in 1..(FRAME_BUF_SIZE + 1)
    BY <1>1, <1>2, Constants DEF TypeOK
  <2> QED
    BY <1>1, <1>2, <1>3, <2>1 DEF TypeOK
<1>5. Scanned'
  BY <1>2 DEF Scanned
<1>6. FramesDelivered' = FramesDelivered
  BY <1>2 DEF FramesDelivered
<1> QED
  BY <1>1, <1>2, <1>4, <1>5, <1>6, DamageKeeps

\* A length that wraps: what is returned is no frame.
LEMMA BlockReturned ==
  ASSUME IInv, FrameEnds, ~IsFrame(Found)
  PROVE  IInv'
<1>1. /\ TypeOK /\ Scanning /\ i \in Nat \ {0} /\ i <= Len(read_buf) /\ Len(read_buf) \in Nat
      /\ read_buf \in Seq(Byte) /\ delivered \in Seq(Seq(Byte)) /\ Len(delivered) \in Nat
  BY Constants DEF IInv, FrameEnds, Scanning, TypeOK
<1>2. /\ read_buf' = Behind /\ read_started' = FALSE /\ damaged' = TRUE
      /\ pc' = "idle" /\ errno' = "0" /\ delivered' = Append(delivered, Found)
      /\ UNCHANGED <<i, incoming, hungup, frames>>
  <2>1. damaged' = TRUE
    BY Zenon DEF FrameEnds
  <2> QED
    BY <2>1 DEF FrameEnds
<1>3. Behind \in Seq(Byte) /\ Len(Behind) <= FRAME_BUF_SIZE
  <2>1. Behind \in Seq(Byte) /\ Len(Behind) = Len(read_buf) - i
    BY <1>1, BehindMoves
  <2> QED
    BY <1>1, <2>1, Constants DEF TypeOK
<1>4. Found \in Seq(Byte)
  <2>1. SubSeq(read_buf, 1, i - 1) \in Seq(Byte)
    BY <1>1
  <2> QED
    BY <2>1, UnescapedFrames DEF Found
<1> HIDE DEF Found
<1>5. /\ delivered' \in Seq(Seq(Byte)) /\ Len(delivered') = Len(delivered) + 1
      /\ delivered'[Len(delivered) + 1] = Found
      /\ \A k \in 1..Len(delivered) : delivered'[k] = delivered[k]
  BY <1>1, <1>2, <1>4
<1>6. TypeOK'
  BY <1>1, <1>2, <1>3, <1>5 DEF TypeOK
<1>7. Scanned'
  BY <1>2 DEF Scanned
<1>8. /\ FramesDelivered' = FramesDelivered
      /\ \A k \in FramesDelivered : delivered'[k] = delivered[k]
  <2>1. DOMAIN delivered = 1..Len(delivered) /\ DOMAIN delivered' = 1..(Len(delivered) + 1)
    BY <1>1, <1>5
  <2>2. \A k : k \in 1..(Len(delivered) + 1) <=>
                 k \in 1..Len(delivered) \/ k = Len(delivered) + 1
    BY <1>1
  <2>3. \A k : k \in FramesDelivered' <=> k \in DOMAIN delivered' /\ IsFrame(delivered'[k])
    BY DEF FramesDelivered, IsFrame
  <2>4. \A k : k \in FramesDelivered <=> k \in DOMAIN delivered /\ IsFrame(delivered[k])
    BY DEF FramesDelivered
  <2>5. \A k : k \in FramesDelivered' <=> k \in FramesDelivered
    BY <1>5, <2>1, <2>2, <2>3, <2>4, Zenon
  <2>6. FramesDelivered' = FramesDelivered
    BY <2>5
  <2> QED
    BY <1>5, <2>1, <2>4, <2>6
<1> QED
  BY <1>1, <1>2, <1>6, <1>7, <1>8, DamageKeeps

\* The buffer as it is stays; no frame ends in it.
LEMMA ScanEndsRoomLeft ==
  ASSUME IInv, ScanEnds, ~(Len(read_buf) >= FRAME_BUF_SIZE)
  PROVE  IInv'
<1>0. PICK stream \in Streams : \E p \in 0..Len(stream.wire) : ReadUpTo(stream, p)
  BY DEF IInv
<1>1. PICK p \in 0..Len(stream.wire) : ReadUpTo(stream, p)
  BY <1>0
<1>2. /\ pc = "scan" /\ i > Len(read_buf) /\ pc' = "refill"
      /\ UNCHANGED <<read_buf, read_started, i, errno, incoming, hungup, frames, delivered,
                     damaged>>
  BY DEF ScanEnds
<1>3. TypeOK /\ Scanned /\ Len(read_buf) \in Nat /\ i \in Nat
  BY Constants DEF IInv, TypeOK
<1>4. TypeOK' /\ Scanned'
  BY <1>2, <1>3 DEF TypeOK, Scanned
<1>5. NoneWaiting(stream, p)'
  <2> SUFFICES ASSUME FramesFit, ~damaged, NEW k \in DOMAIN frames
               PROVE  stream.ends[k] <= p \/ stream.ends[k] > p + Len(read_buf)
    BY <1>2 DEF NoneWaiting
  <2>1. ~(p < stream.ends[k] /\ stream.ends[k] <= p + Len(read_buf))
    BY <1>1, <1>2, <1>3, ScannedNoEnd
  <2>2. stream.ends[k] \in Nat
    <3>1. stream.ends[k] \in DOMAIN stream.wire
      BY <1>1, EndsOf DEF ReadUpTo
    <3> QED
      BY <3>1, Constants
  <2> QED
    BY <1>3, <2>1, <2>2
<1>6. Returned(stream, p)'
  <2>1. p \in Nat /\ p <= p
    BY Constants
  <2> QED
    BY <1>1, <1>2, <2>1, ReturnedStays
<1>7. ReadUpTo(stream, p)'
  BY <1>1, <1>2, <1>5, <1>6 DEF ReadUpTo, Buffered, Started, AllReturned, NoneCut
<1> QED
  BY <1>4, <1>7, Witnessed

\* A full buffer is cleared.  If the frames fit, none of them is cut by that.
LEMMA ScanEndsFull ==
  ASSUME IInv, ScanEnds, Len(read_buf) >= FRAME_BUF_SIZE
  PROVE  IInv'
<1>0. PICK stream \in Streams : \E p \in 0..Len(stream.wire) : ReadUpTo(stream, p)
  BY DEF IInv
<1>1. PICK p \in 0..Len(stream.wire) : ReadUpTo(stream, p)
  BY <1>0
<1>2. /\ pc = "scan" /\ i > Len(read_buf) /\ pc' = "refill"
      /\ read_buf' = <<>> /\ read_started' = FALSE
      /\ UNCHANGED <<i, errno, incoming, hungup, frames, delivered, damaged>>
  BY DEF ScanEnds
<1>3. TypeOK /\ Scanned /\ Len(read_buf) \in Nat /\ i \in Nat /\ Len(incoming) \in Nat
        /\ Len(read_buf) = FRAME_BUF_SIZE /\ FRAME_BUF_SIZE \in Nat
  BY Constants DEF IInv, TypeOK
<1>q. PICK q : q = p + Len(read_buf)
  OBVIOUS
<1>4. /\ q + Len(incoming) = Len(stream.wire)
      /\ \A j \in DOMAIN incoming : incoming[j] = stream.wire[q + j]
  BY <1>1, <1>q DEF ReadUpTo, Buffered
<1>5. Len(stream.wire) \in Nat /\ p \in Nat /\ q \in Nat /\ p <= q /\ q <= Len(stream.wire)
  BY <1>3, <1>4, <1>q, Constants
<1>6. TypeOK'
  <2>1. <<>> \in Seq(Byte) /\ Len(<<>>) <= FRAME_BUF_SIZE
    BY <1>3
  <2> QED
    BY <1>2, <1>3, <2>1 DEF TypeOK
<1>7. Scanned' /\ Started(stream.wire, q)'
  BY <1>2 DEF Scanned, Started
<1>8. Buffered(stream.wire, q)'
  <2>1. Len(read_buf') = 0 /\ DOMAIN read_buf' = {}
    BY <1>2
  <2>2. q + Len(read_buf') = q
    BY <1>5, <2>1
  <2> QED
    BY <1>2, <1>4, <1>5, <2>1, <2>2 DEF Buffered
<1>9. Returned(stream, q)'
  BY <1>1, <1>2, <1>5, ReturnedStays
<1>10. ASSUME FramesFit, ~damaged, NEW k \in DOMAIN frames
       PROVE  (stream.ends[k] <= p <=> stream.ends[k] <= q) /\ stream.ends[k] \in Nat
  <2>1. ~(p < stream.ends[k] /\ stream.ends[k] <= p + Len(read_buf))
    BY <1>1, <1>2, <1>3, <1>10, ScannedNoEnd
  <2>2. stream.ends[k] \in DOMAIN stream.wire
    BY <1>1, EndsOf DEF ReadUpTo
  <2>3. stream.ends[k] \in Nat
    BY <1>5, <2>2, Constants
  <2> QED
    BY <1>5, <1>q, <2>1, <2>3
<1>11. AllReturned(stream, q)'
  BY <1>1, <1>2, <1>10 DEF ReadUpTo, AllReturned
<1>12. NoneCut(stream.wire, q)'
  <2> SUFFICES ASSUME FramesFit, ~damaged,
                      NEW a \in DOMAIN stream.wire, NEW b \in DOMAIN stream.wire,
                      FrameAt(stream.wire, a, b), a <= q, q < b
               PROVE  FALSE
    BY <1>2 DEF NoneCut
  <2>1. a \in Nat /\ b \in Nat
    BY <1>5, Constants
  <2>2. ~(p < a /\ a <= p + Len(read_buf))
    BY <1>1, <1>2, <1>3, ScannedNoFrame
  <2>3. a <= p /\ p < b
    BY <1>5, <1>q, <2>1, <2>2
  <2>4. a = p
    BY <1>1, <2>3 DEF ReadUpTo, NoneCut
  <2>5. b - a <= FRAME_BUF_SIZE
    BY DEF FramesFit
  <2> QED
    BY <1>3, <1>5, <1>q, <2>1, <2>4, <2>5
<1>13. NoneWaiting(stream, q)'
  <2> SUFFICES ASSUME FramesFit, ~damaged, NEW k \in DOMAIN frames
               PROVE  stream.ends[k] <= q \/ stream.ends[k] > q + 0
    BY <1>2 DEF NoneWaiting
  <2> QED
    BY <1>5, <1>10
<1>14. ReadUpTo(stream, q)' /\ q \in 0..Len(stream.wire)
  BY <1>1, <1>2, <1>5, <1>7, <1>8, <1>9, <1>11, <1>12, <1>13 DEF ReadUpTo
<1> QED
  BY <1>6, <1>7, <1>14, Witnessed

\* Bytes go from the socket to the end of the buffer.
LEMMA RefillKeeps ==
  ASSUME IInv, NEW n \in 1..FRAME_BUF_SIZE, Refill(n)
  PROVE  IInv'
<1>0. PICK stream \in Streams : \E p \in 0..Len(stream.wire) : ReadUpTo(stream, p)
  BY DEF IInv
<1>1. PICK p \in 0..Len(stream.wire) : ReadUpTo(stream, p)
  BY <1>0
<1>2. /\ n <= FRAME_BUF_SIZE - Len(read_buf) /\ n <= Len(incoming)
      /\ read_buf' = read_buf \o SubSeq(incoming, 1, n)
      /\ incoming' = SubSeq(incoming, n + 1, Len(incoming))
      /\ i' = 1 /\ pc' = "scan"
      /\ UNCHANGED <<read_started, errno, hungup, frames, delivered, damaged>>
  BY DEF Refill, Room
<1>3. /\ TypeOK /\ read_buf \in Seq(Byte) /\ incoming \in Seq(Byte)
      /\ Len(read_buf) \in Nat /\ Len(incoming) \in Nat /\ n \in Nat \ {0}
      /\ FRAME_BUF_SIZE \in Nat /\ p \in Nat
  BY Constants DEF IInv, TypeOK
<1>4. /\ SubSeq(incoming, 1, n) \in Seq(Byte) /\ Len(SubSeq(incoming, 1, n)) = n
      /\ \A j \in 1..n : SubSeq(incoming, 1, n)[j] = incoming[j]
  BY <1>2, <1>3
<1>5. /\ read_buf' \in Seq(Byte) /\ Len(read_buf') = Len(read_buf) + n
      /\ \A j \in 1..Len(read_buf) : read_buf'[j] = read_buf[j]
      /\ \A j \in 1..n : read_buf'[Len(read_buf) + j] = incoming[j]
  BY <1>2, <1>3, <1>4
<1>6. /\ incoming' \in Seq(Byte) /\ Len(incoming') = Len(incoming) - n
      /\ \A j \in 1..(Len(incoming) - n) : incoming'[j] = incoming[n + j]
  <2>1. /\ incoming' \in Seq(Byte)
        /\ Len(incoming') = IF n + 1 <= Len(incoming) THEN Len(incoming) - (n + 1) + 1 ELSE 0
        /\ \A j \in 1..(Len(incoming) - (n + 1) + 1) : incoming'[j] = incoming[(n + 1) + j - 1]
    BY <1>2, <1>3, SubSeqProperties
  <2>2. Len(incoming') = Len(incoming) - n
    BY <1>2, <1>3, <2>1
  <2>3. ASSUME NEW j \in 1..(Len(incoming) - n) PROVE incoming'[j] = incoming[n + j]
    <3>1. (n + 1) + j - 1 = n + j /\ j \in 1..(Len(incoming) - (n + 1) + 1)
      BY <1>2, <1>3
    <3> QED
      BY <2>1, <3>1
  <2> QED
    BY <2>1, <2>2, <2>3
<1>7. TypeOK'
  <2>1. Len(read_buf') <= FRAME_BUF_SIZE /\ 1 \in 1..(FRAME_BUF_SIZE + 1)
    BY <1>2, <1>3, <1>5
  <2> QED
    BY <1>2, <1>3, <1>5, <1>6, <2>1 DEF TypeOK
<1>8. Scanned'
  <2>1. \A j \in DOMAIN read_buf' : ~(j < i')
    BY <1>2, <1>5
  <2> QED
    BY <2>1 DEF Scanned
<1>9. Buffered(stream.wire, p)'
  <2>1. /\ p + Len(read_buf) + Len(incoming) = Len(stream.wire)
        /\ \A j \in 1..Len(read_buf) : read_buf[j] = stream.wire[p + j]
        /\ \A j \in 1..Len(incoming) : incoming[j] = stream.wire[p + Len(read_buf) + j]
    <3>1. DOMAIN read_buf = 1..Len(read_buf) /\ DOMAIN incoming = 1..Len(incoming)
      BY <1>3
    <3> QED
      BY <1>1, <3>1 DEF ReadUpTo, Buffered
  <2>2. p + Len(read_buf') + Len(incoming') = Len(stream.wire)
    <3>1. Len(read_buf') = Len(read_buf) + n /\ Len(incoming') = Len(incoming) - n
      BY <1>5, <1>6
    <3>2. \A x, y \in Nat : p + (x + n) + (y - n) = p + x + y
      BY <1>3
    <3>3. p + (Len(read_buf) + n) + (Len(incoming) - n) = p + Len(read_buf) + Len(incoming)
      BY <1>3, <3>2
    <3> QED
      BY <2>1, <3>1, <3>3, Zenon
  <2>3. ASSUME NEW j \in DOMAIN read_buf' PROVE read_buf'[j] = stream.wire[p + j]
    <3>1. CASE j <= Len(read_buf)
      BY <1>3, <1>5, <2>1, <3>1
    <3>2. CASE j > Len(read_buf)
      <4>1. j - Len(read_buf) \in 1..n /\ j - Len(read_buf) \in 1..Len(incoming)
              /\ Len(read_buf) + (j - Len(read_buf)) = j
              /\ p + Len(read_buf) + (j - Len(read_buf)) = p + j
        BY <1>2, <1>3, <1>5, <3>2
      <4>2. read_buf'[j] = incoming[j - Len(read_buf)]
        BY <1>5, <4>1
      <4>3. incoming[j - Len(read_buf)] = stream.wire[p + j]
        BY <2>1, <4>1
      <4> QED
        BY <4>2, <4>3
    <3> QED
      BY <1>3, <1>5, <3>1, <3>2
  <2>4. ASSUME NEW j \in DOMAIN incoming'
        PROVE  incoming'[j] = stream.wire[p + Len(read_buf') + j]
    <3>1. /\ j \in 1..(Len(incoming) - n) /\ n + j \in 1..Len(incoming)
          /\ p + Len(read_buf) + (n + j) = p + Len(read_buf') + j
      BY <1>2, <1>3, <1>5, <1>6
    <3>2. incoming[n + j] = stream.wire[p + Len(read_buf) + (n + j)]
      BY <2>1, <3>1
    <3> QED
      BY <1>6, <3>1, <3>2
  <2> QED
    BY <2>2, <2>3, <2>4 DEF Buffered
<1>10. NoneWaiting(stream, p)'
  BY <1>2 DEF NoneWaiting
<1>11. Returned(stream, p)'
  <2>1. p <= p
    BY <1>3
  <2> QED
    BY <1>1, <1>2, <1>3, <2>1, ReturnedStays
<1>12. ReadUpTo(stream, p)'
  BY <1>1, <1>2, <1>9, <1>10, <1>11 DEF ReadUpTo, Started, AllReturned, NoneCut
<1> QED
  BY <1>7, <1>8, <1>12, Witnessed
-----------------------------------------------------------------------------
LEMMA NextIInv == IInv /\ [Next]_vars => IInv'
<1> SUFFICES ASSUME IInv, [Next]_vars PROVE IInv'
  OBVIOUS
<1>1. CASE Read \/ OtherByte \/ RefillsNothing \/ WritesToNull \/ HangUp \/ UNCHANGED vars
             \/ \E error \in {"EAGAIN", "EIO"} : ReturnsNothing(error)
  BY <1>1, KeepsBuffer
<1>2. CASE FrameStarts
  BY <1>2, FrameStartsKeeps
<1>3. CASE FrameEnds
  BY <1>3, FrameEndsKeeps, BlockReturned
<1>4. CASE EndsWithoutFrame
  BY <1>4, EndsWithoutFrameKeeps
<1>5. CASE ScanEnds
  BY <1>5, ScanEndsRoomLeft, ScanEndsFull
<1>6. CASE \E n \in 1..FRAME_BUF_SIZE : Refill(n)
  BY <1>6, RefillKeeps
<1> QED
  BY <1>1, <1>2, <1>3, <1>4, <1>5, <1>6 DEF Next, Scan, Refilling, Crashed

LEMMA IInvHolds == Spec => []IInv
<1>1. Init => IInv
  BY InitIInv
<1>2. IInv /\ [Next]_vars => IInv'
  BY NextIInv
<1> QED
  BY <1>1, <1>2, PTL DEF Spec

(***************************************************************************)
(* The buffer never holds more than its size, the scan stays within it,    *)
(* and what is returned are bytes.                                         *)
(***************************************************************************)
THEOREM ReaderTypeOK == Spec => []TypeOK
<1>1. IInv => TypeOK
  BY DEF IInv
<1> QED
  BY <1>1, IInvHolds, PTL

(***************************************************************************)
(* Damage may cost frames, but apart from blocks too short for a frame     *)
(* what mdr_frameconn_read_frame returns is always some of the frames the  *)
(* peer sent, each once and in their order, however long they are and      *)
(* however small the buffer is.                                            *)
(***************************************************************************)
THEOREM SentFrames == Spec => []SentFramesInOrder
<1>1. IInv => SentFramesInOrder
  BY Zenon DEF IInv, ReadUpTo, Returned, SentFramesInOrder
<1> QED
  BY <1>1, IInvHolds, PTL

(***************************************************************************)
(* If every frame fits the buffer, then until an invalid frame is met the  *)
(* calls have returned the first of the frames the peer sent, in order,    *)
(* none of them left out and none returned twice.                          *)
(***************************************************************************)
THEOREM FramesReturnedInOrder ==
  ASSUME FramesFit
  PROVE  Spec => []FramesInOrder
<1>1. IInv => FramesInOrder
  <2> SUFFICES ASSUME IInv, ~damaged PROVE IsPrefix(delivered, frames)
    BY DEF FramesInOrder
  <2>1. PICK stream \in Streams : \E p \in 0..Len(stream.wire) : ReadUpTo(stream, p)
    BY DEF IInv
  <2>2. /\ Len(delivered) <= Len(frames)
        /\ \A k \in DOMAIN delivered : delivered[k] = frames[k]
    BY <2>1 DEF ReadUpTo, AllReturned
  <2>3. frames \in Seq(Seq(Byte)) /\ delivered \in Seq(Seq(Byte))
    BY <2>1, Constants DEF ReadUpTo, IInv, TypeOK
  <2>4. SubSeq(delivered, 1, Len(delivered)) = SubSeq(frames, 1, Len(delivered))
    BY <2>2, <2>3
  <2> QED
    BY <2>2, <2>4 DEF IsPrefix
<1> QED
  BY <1>1, IInvHolds, PTL

(***************************************************************************)
(* If every frame fits the buffer and none was damaged, a call that finds  *)
(* nothing more to read has left no frame of the peer's unreturned.        *)
(***************************************************************************)
THEOREM AllFramesReturned ==
  ASSUME FramesFit
  PROVE  Spec => []NothingLeftBehind
<1>1. IInv => NothingLeftBehind
  <2> SUFFICES ASSUME IInv, pc = "idle", errno = "EAGAIN", incoming = <<>>, ~damaged
               PROVE  delivered = frames
    BY DEF NothingLeftBehind
  <2>1. PICK stream \in Streams : \E p \in 0..Len(stream.wire) : ReadUpTo(stream, p)
    BY DEF IInv
  <2>2. PICK p \in 0..Len(stream.wire) : ReadUpTo(stream, p)
    BY <2>1
  <2>3. /\ frames \in Seq(Seq(Byte)) /\ delivered \in Seq(Seq(Byte))
        /\ Len(read_buf) \in Nat /\ p \in Nat /\ Len(stream.wire) \in Nat
    BY <2>2, Constants DEF ReadUpTo, IInv, TypeOK
  <2>4. p + Len(read_buf) = Len(stream.wire)
    BY <2>2, <2>3 DEF ReadUpTo, Buffered
  <2>5. ASSUME NEW k \in DOMAIN frames PROVE stream.ends[k] <= p
    <3>1. stream.ends[k] <= p \/ stream.ends[k] > p + Len(read_buf)
      BY <2>2 DEF ReadUpTo, NoneWaiting
    <3>2. stream.ends[k] \in DOMAIN stream.wire
      BY <2>2, EndsOf DEF ReadUpTo
    <3> QED
      BY <2>3, <2>4, <3>1, <3>2
  <2>6. /\ Len(delivered) <= Len(frames)
        /\ \A k \in DOMAIN delivered : delivered[k] = frames[k]
        /\ \A k \in DOMAIN frames : k <= Len(delivered)
    BY <2>2, <2>5 DEF ReadUpTo, AllReturned
  <2>7. Len(delivered) = Len(frames)
    <3> SUFFICES ASSUME Len(delivered) < Len(frames) PROVE FALSE
      BY <2>3, <2>6
    <3>1. Len(frames) \in DOMAIN frames
      BY <2>3
    <3> QED
      BY <2>3, <2>6, <3>1
  <2> QED
    <3>1. \A k \in 1..Len(delivered) : delivered[k] = frames[k]
      BY <2>3, <2>6
    <3> QED
      BY <2>3, <2>7, <3>1, SeqEqual
<1> QED
  BY <1>1, IInvHolds, PTL
-----------------------------------------------------------------------------
(***************************************************************************)
(* What a peer sends with mdr_frameconn_write_frame is a consistent stream: *)
(* frames one after the other, with gaps between them in which frames may  *)
(* begin but none ends.                                                    *)
(***************************************************************************)
NoEnd(gap) == gap \in Seq(Byte) /\ \A j \in DOMAIN gap : gap[j] # FRAME_END_BYTE

Sends(stream, gap, f) ==
  LET wire == (stream.wire \o gap) \o OnWire(f)
  IN [wire |-> wire,
      frames |-> Append(stream.frames, f),
      ends |-> Append(stream.ends, Len(wire))]

\* Whether bytes are a frame depends on no others.
LEMMA FrameAtInPrefix ==
  ASSUME NEW short \in Seq(Byte), NEW long \in Seq(Byte), Len(short) <= Len(long),
         \A j \in 1..Len(short) : long[j] = short[j],
         NEW a \in 1..Len(short), NEW b \in 1..Len(short)
  PROVE  /\ FrameAt(long, a, b) <=> FrameAt(short, a, b)
         /\ Decoded(long, a, b) = Decoded(short, a, b)
<1>1. a \in Nat /\ b \in Nat /\ Len(short) \in Nat /\ Len(long) \in Nat
  OBVIOUS
<1>2. \A j \in (a + 1)..(b - 1) : j \in 1..Len(short)
  BY <1>1
<1>3. Delimited(long, a, b) <=> Delimited(short, a, b)
  BY <1>2 DEF Delimited
<1>4. SubSeq(long, a + 1, b - 1) = SubSeq(short, a + 1, b - 1)
  <2>1. CASE a + 1 <= b - 1
    <3>1. /\ SubSeq(long, a + 1, b - 1) \in Seq(Byte)
          /\ Len(SubSeq(long, a + 1, b - 1)) = (b - 1) - (a + 1) + 1
          /\ \A j \in 1..((b - 1) - (a + 1) + 1) :
               SubSeq(long, a + 1, b - 1)[j] = long[(a + 1) + j - 1]
      BY <1>1, <2>1
    <3>2. /\ SubSeq(short, a + 1, b - 1) \in Seq(Byte)
          /\ Len(SubSeq(short, a + 1, b - 1)) = (b - 1) - (a + 1) + 1
          /\ \A j \in 1..((b - 1) - (a + 1) + 1) :
               SubSeq(short, a + 1, b - 1)[j] = short[(a + 1) + j - 1]
      BY <1>1, <2>1
    <3>3. \A j \in 1..((b - 1) - (a + 1) + 1) : (a + 1) + j - 1 \in 1..Len(short)
      BY <1>1
    <3> QED
      BY <3>1, <3>2, <3>3, SeqEqual
  <2>2. CASE ~(a + 1 <= b - 1)
    BY <1>1, <2>2, SubSeqEmpty
  <2> QED
    BY <2>1, <2>2
<1>5. Decoded(long, a, b) = Decoded(short, a, b)
  BY <1>4, Zenon DEF Decoded
<1> QED
  BY <1>3, <1>5 DEF FrameAt

LEMMA SendsConsistent ==
  ASSUME NEW stream \in Stream, Consistent(stream), NEW gap, NoEnd(gap),
         NEW f, WholeFrame(f)
  PROVE  Sends(stream, gap, f) \in Stream /\ Consistent(Sends(stream, gap, f))
<1> DEFINE old == stream.wire
           base == old \o gap
           out == OnWire(f)
           wire == base \o out
           L == Len(base)
           N == Len(wire)
           n == Len(stream.ends)
           fs == Append(stream.frames, f)
           ends == Append(stream.ends, N)
<1>1. /\ old \in Seq(Byte) /\ gap \in Seq(Byte) /\ f \in Seq(Byte)
      /\ \A j \in 1..Len(gap) : gap[j] # FRAME_END_BYTE
      /\ stream.frames \in Seq(Seq(Byte)) /\ stream.ends \in Seq(Nat)
  BY DEF Stream, NoEnd, WholeFrame
<1>2. /\ out \in Seq(Byte) /\ Len(out) \in Nat /\ Len(out) >= 2
      /\ out[1] = FRAME_START_BYTE /\ out[Len(out)] = FRAME_END_BYTE
      /\ \A j \in 2..(Len(out) - 1) : out[j] \notin {FRAME_START_BYTE, FRAME_END_BYTE}
      /\ unescape_frame(SubSeq(out, 2, Len(out) - 1)) = f
  <2> DEFINE body == EscapedTo(f, Len(f))
  <2>1. /\ body \in Seq(Byte) /\ out \in Seq(Byte)
        /\ Len(out) = Len(body) + 2
        /\ out[1] = FRAME_START_BYTE /\ out[Len(out)] = FRAME_END_BYTE
        /\ SubSeq(out, 2, Len(out) - 1) = body
        /\ \A j \in 1..Len(body) : out[j + 1] = body[j]
    BY <1>1, OnWireBytes
  <2>2. \A j \in DOMAIN body : body[j] \notin {FRAME_START_BYTE, FRAME_END_BYTE}
    BY <1>1, <2>1, EscapingIsUndone
  <2>3. unescape_frame(SubSeq(out, 2, Len(out) - 1)) = f
    BY WholeFrameComesBack
  <2> HIDE DEF body, out
  <2>4. ASSUME NEW j \in 2..(Len(out) - 1)
        PROVE  out[j] \notin {FRAME_START_BYTE, FRAME_END_BYTE}
    <3>1. j - 1 \in 1..Len(body) /\ (j - 1) + 1 = j
      BY <2>1
    <3> QED
      BY <2>1, <2>2, <3>1
  <2>5. Len(out) \in Nat /\ Len(out) >= 2
    BY <2>1
  <2> QED
    BY <2>1, <2>3, <2>4, <2>5
<1> HIDE DEF out
<1>3. /\ base \in Seq(Byte) /\ L = Len(old) + Len(gap)
      /\ \A j \in 1..Len(old) : base[j] = old[j]
      /\ \A j \in 1..Len(gap) : base[Len(old) + j] = gap[j]
  <2>1. base \in Seq(Byte) /\ L = Len(old) + Len(gap)
    BY <1>1
  <2>2. \A j \in 1..Len(old) : base[j] = old[j]
    BY <1>1, ConcatAt
  <2>3. \A j \in 1..Len(gap) : base[Len(old) + j] = gap[j]
    BY <1>1, ConcatAt
  <2> QED
    BY <2>1, <2>2, <2>3
<1> HIDE DEF base
<1>4. /\ wire \in Seq(Byte) /\ N = L + Len(out)
      /\ \A j \in 1..L : wire[j] = base[j]
      /\ \A j \in 1..Len(out) : wire[L + j] = out[j]
  <2>1. wire \in Seq(Byte) /\ N = L + Len(out)
    <3>1. wire \in Seq(Byte)
      BY <1>2, <1>3
    <3>2. Len(wire) = Len(base) + Len(out)
      <4>1. base \in Seq(Byte) /\ out \in Seq(Byte)
        BY <1>2, <1>3
      <4> QED
        BY <4>1, ConcatAt, Zenon
    <3> QED
      BY <3>1, <3>2
  <2>2. \A j \in 1..L : wire[j] = base[j]
    BY <1>2, <1>3, ConcatAt
  <2>3. \A j \in 1..Len(out) : wire[L + j] = out[j]
    BY <1>2, <1>3, ConcatAt
  <2> QED
    BY <2>1, <2>2, <2>3
<1> HIDE DEF wire
<1>5. L \in Nat /\ N \in Nat /\ Len(old) \in Nat /\ Len(old) <= L /\ L + 2 <= N
        /\ DOMAIN wire = 1..N /\ DOMAIN old = 1..Len(old)
  <2>1. /\ L \in Nat /\ N \in Nat /\ Len(old) \in Nat /\ Len(gap) \in Nat
        /\ DOMAIN wire = 1..N /\ DOMAIN old = 1..Len(old)
    BY <1>1, <1>3, <1>4
  <2>2. Len(old) <= L
    BY <1>3, <2>1
  <2>3. L + 2 <= N
    BY <1>2, <1>4, <2>1
  <2> QED
    BY <2>1, <2>2, <2>3
<1>6. \A j \in 1..Len(old) : wire[j] = old[j]
  BY <1>3, <1>4, <1>5
<1>7. \A j \in (Len(old) + 1)..L : wire[j] # FRAME_END_BYTE
  <2> SUFFICES ASSUME NEW j \in (Len(old) + 1)..L PROVE wire[j] # FRAME_END_BYTE
    OBVIOUS
  <2>1. j - Len(old) \in 1..Len(gap) /\ Len(old) + (j - Len(old)) = j /\ j \in 1..L
    BY <1>1, <1>3, <1>5
  <2> QED
    BY <1>1, <1>3, <1>4, <2>1
<1>8. wire[L + 1] = FRAME_START_BYTE /\ wire[N] = FRAME_END_BYTE
  <2>1. 1 \in 1..Len(out) /\ Len(out) \in 1..Len(out)
    BY <1>2
  <2> QED
    BY <1>2, <1>4, <2>1
<1>9. \A j \in (L + 2)..(N - 1) : wire[j] \notin {FRAME_START_BYTE, FRAME_END_BYTE}
  <2> SUFFICES ASSUME NEW j \in (L + 2)..(N - 1)
               PROVE  wire[j] \notin {FRAME_START_BYTE, FRAME_END_BYTE}
    OBVIOUS
  <2>1. j - L \in 2..(Len(out) - 1) /\ j - L \in 1..Len(out) /\ L + (j - L) = j
    BY <1>2, <1>4, <1>5
  <2> QED
    BY <1>2, <1>4, <2>1
<1>10. Delimited(wire, L + 1, N) /\ Decoded(wire, L + 1, N) = f
  <2>1. Delimited(wire, L + 1, N)
    BY <1>5, <1>8, <1>9 DEF Delimited
  <2>2. SubSeq(wire, (L + 1) + 1, N - 1) = SubSeq(out, 2, Len(out) - 1)
    <3> DEFINE l == Len(out) - 2
    <3>1. l \in Nat /\ L + 1 \in Nat /\ (L + 1) + l = N - 1 /\ 1 + l = Len(out) - 1
      BY <1>2, <1>4, <1>5
    <3>2. (L + 1) + l <= Len(wire) /\ 1 + l <= Len(out)
      BY <1>2, <1>4, <1>5, <3>1
    <3> HIDE DEF l
    <3>3. /\ SubSeq(wire, (L + 1) + 1, (L + 1) + l) \in Seq(Byte)
          /\ Len(SubSeq(wire, (L + 1) + 1, (L + 1) + l)) = l
          /\ \A j \in 1..l : SubSeq(wire, (L + 1) + 1, (L + 1) + l)[j] = wire[(L + 1) + j]
      BY <1>4, <3>1, <3>2, SubSeqAt
    <3>4. /\ SubSeq(out, 1 + 1, 1 + l) \in Seq(Byte)
          /\ Len(SubSeq(out, 1 + 1, 1 + l)) = l
          /\ \A j \in 1..l : SubSeq(out, 1 + 1, 1 + l)[j] = out[1 + j]
      BY <1>2, <3>1, <3>2, SubSeqAt
    <3>5. ASSUME NEW j \in 1..l PROVE wire[(L + 1) + j] = out[1 + j]
      <4>1. 1 + j \in 1..Len(out) /\ L + (1 + j) = (L + 1) + j
        BY <1>2, <1>5, <3>1 DEF l
      <4> QED
        BY <1>4, <4>1
    <3>6. SubSeq(wire, (L + 1) + 1, (L + 1) + l) = SubSeq(out, 1 + 1, 1 + l)
      BY <3>3, <3>4, <3>5, SeqEqual
    <3> QED
      BY <3>1, <3>6
  <2>3. Decoded(wire, L + 1, N) = unescape_frame(SubSeq(wire, (L + 1) + 1, N - 1))
    BY DEF Decoded
  <2> QED
    BY <1>2, <2>1, <2>2, <2>3, Zenon
<1>11. FrameAt(wire, L + 1, N)
  <2>1. IsFrame(f)
    BY Zenon DEF WholeFrame, IsFrame
  <2> QED
    BY <1>10, <2>1 DEF FrameAt
<1>12. ASSUME NEW a \in 1..N, NEW b \in 1..N, FrameAt(wire, a, b)
       PROVE  b = N \/ (a \in 1..Len(old) /\ b \in 1..Len(old))
  <2>1. a < b /\ wire[a] = FRAME_START_BYTE /\ wire[b] = FRAME_END_BYTE
    BY <1>12 DEF FrameAt, Delimited
  <2>2. b # L + 1
    BY <1>8, <2>1 DEF FRAME_START_BYTE, FRAME_END_BYTE
  <2>3. b \notin (Len(old) + 1)..L /\ b \notin (L + 2)..(N - 1)
    BY <1>7, <1>9, <2>1
  <2> QED
    <3> HIDE DEF L, N, old
    <3>1. b \in Nat /\ a \in Nat /\ b <= N /\ a >= 1 /\ b >= 1
      BY <1>5
    <3>2. b <= Len(old) \/ b = N
      <4>1. ~(Len(old) + 1 <= b /\ b <= L) /\ ~(L + 2 <= b /\ b <= N - 1)
        BY <1>5, <2>3, <3>1
      <4> QED
        BY <1>5, <2>2, <3>1, <4>1
    <3> QED
      BY <1>5, <2>1, <3>1, <3>2
<1>13. /\ n \in Nat /\ DOMAIN stream.ends = 1..n
       /\ DOMAIN stream.ends = DOMAIN stream.frames
       /\ ends \in Seq(Nat) /\ fs \in Seq(Seq(Byte))
       /\ DOMAIN ends = 1..(n + 1) /\ DOMAIN fs = 1..(n + 1)
       /\ ends[n + 1] = N /\ fs[n + 1] = f
       /\ \A k \in 1..n : ends[k] = stream.ends[k] /\ fs[k] = stream.frames[k]
  <2>1. DOMAIN stream.ends = DOMAIN stream.frames
    BY Zenon DEF Consistent
  <2>2. n \in Nat /\ DOMAIN stream.ends = 1..n /\ Len(stream.frames) = n
    BY <1>1, <2>1
  <2>3. /\ ends \in Seq(Nat) /\ Len(ends) = n + 1 /\ ends[n + 1] = N
        /\ \A k \in 1..n : ends[k] = stream.ends[k]
    BY <1>1, <1>5, <2>2
  <2>4. /\ fs \in Seq(Seq(Byte)) /\ Len(fs) = n + 1 /\ fs[n + 1] = f
        /\ \A k \in 1..n : fs[k] = stream.frames[k]
    BY <1>1, <2>2, AppendProperties
  <2> HIDE DEF ends, fs
  <2> QED
    BY <2>1, <2>2, <2>3, <2>4
<1> HIDE DEF L, N, n, fs, ends
<1>14. /\ \A k, l \in 1..n : k < l => stream.ends[k] < stream.ends[l]
       /\ \A k \in 1..n :
            /\ stream.ends[k] \in 1..Len(old)
            /\ \E a \in 1..Len(old) :
                 /\ FrameAt(old, a, stream.ends[k])
                 /\ stream.frames[k] = Decoded(old, a, stream.ends[k])
       /\ \A a, b \in 1..Len(old) :
            FrameAt(old, a, b) => \E k \in 1..n : stream.ends[k] = b
  BY <1>5, <1>13, Zenon DEF Consistent
<1>15. \A k, l \in 1..(n + 1) : k < l => ends[k] < ends[l]
  <2> SUFFICES ASSUME NEW k \in 1..(n + 1), NEW l \in 1..(n + 1), k < l
               PROVE  ends[k] < ends[l]
    OBVIOUS
  <2>1. k \in 1..n
    BY <1>13
  <2>2. CASE l \in 1..n
    BY <1>13, <1>14, <2>1, <2>2
  <2>3. CASE l = n + 1
    <3>1. ends[k] = stream.ends[k] /\ stream.ends[k] \in 1..Len(old)
      BY <1>13, <1>14, <2>1
    <3>2. stream.ends[k] < N
      BY <1>5, <3>1
    <3> QED
      BY <1>13, <2>3, <3>1, <3>2
  <2> QED
    BY <1>13, <2>2, <2>3
<1>16. ASSUME NEW a \in 1..Len(old), NEW b \in 1..Len(old)
       PROVE  /\ FrameAt(wire, a, b) <=> FrameAt(old, a, b)
              /\ Decoded(wire, a, b) = Decoded(old, a, b)
  <2>1. Len(old) <= Len(wire)
    BY <1>5 DEF N
  <2> QED
    BY <1>1, <1>4, <1>6, <2>1, FrameAtInPrefix
<1>17. ASSUME NEW k \in 1..(n + 1)
       PROVE  /\ ends[k] \in 1..N
              /\ \E a \in 1..N : FrameAt(wire, a, ends[k]) /\ fs[k] = Decoded(wire, a, ends[k])
  <2>1. CASE k \in 1..n
    <3>1. PICK a \in 1..Len(old) : /\ FrameAt(old, a, stream.ends[k])
                                   /\ stream.frames[k] = Decoded(old, a, stream.ends[k])
      BY <1>14, <2>1
    <3>2. a \in 1..N /\ stream.ends[k] \in 1..Len(old) /\ stream.ends[k] \in 1..N
      BY <1>5, <1>14, <2>1
    <3> QED
      BY <1>13, <1>16, <2>1, <3>1, <3>2
  <2>2. CASE k = n + 1
    <3>1. L + 1 \in 1..N /\ N \in 1..N
      BY <1>5
    <3> QED
      BY <1>10, <1>11, <1>13, <2>2, <3>1
  <2> QED
    BY <1>13, <2>1, <2>2
<1>18. ASSUME NEW a \in 1..N, NEW b \in 1..N, FrameAt(wire, a, b)
       PROVE  \E k \in 1..(n + 1) : ends[k] = b
  <2>1. CASE b = N
    BY <1>13, <2>1
  <2>2. CASE a \in 1..Len(old) /\ b \in 1..Len(old)
    <3>1. PICK k \in 1..n : stream.ends[k] = b
      BY <1>14, <1>16, <1>18, <2>2
    <3>2. k \in 1..(n + 1)
      BY <1>13
    <3> QED
      BY <1>13, <3>1, <3>2
  <2> QED
    BY <1>12, <1>18, <2>1, <2>2
<1> DEFINE new == [wire |-> wire, frames |-> fs, ends |-> ends]
<1>19. new \in Stream
  BY <1>4, <1>13 DEF Stream
<1>20. /\ new.wire = wire /\ new.frames = fs /\ new.ends = ends
       /\ DOMAIN wire = 1..N /\ DOMAIN fs = 1..(n + 1) /\ DOMAIN ends = 1..(n + 1)
  BY <1>5, <1>13
<1> HIDE DEF new
<1>21. Consistent(new)
  BY <1>15, <1>17, <1>18, <1>20, Zenon DEF Consistent
<1>22. Sends(stream, gap, f) = new
  BY DEF Sends, new, fs, ends, N, wire, base, out
<1> QED
  BY <1>19, <1>21, <1>22

\* The bytes of the first m frames, each with the gap before it.
Piece(fs, gaps, k) == gaps[k] \o OnWire(fs[k])

SentTo(fs, gaps, m) == FlattenSeq([k \in 1..m |-> Piece(fs, gaps, k)])

LEMMA BytesAssociate ==
  \A a, b, c \in Seq(Byte) : (a \o b) \o c = a \o (b \o c)
BY ConcatAssociative

LEMMA SentToStep ==
  ASSUME NEW fs \in Seq(Seq(Byte)), NEW gaps \in Seq(Seq(Byte)), Len(fs) = Len(gaps),
         NEW r \in 0..(Len(fs) - 1)
  PROVE  /\ SentTo(fs, gaps, r) \in Seq(Byte)
         /\ SentTo(fs, gaps, r + 1)
              = (SentTo(fs, gaps, r) \o gaps[r + 1]) \o OnWire(fs[r + 1])
<1> DEFINE seqs == [k \in 1..r |-> Piece(fs, gaps, k)]
           x == Piece(fs, gaps, r + 1)
<1>1. r \in Nat /\ r + 1 \in 1..Len(fs) /\ 1..r \subseteq 1..Len(fs) /\ Len(fs) \in Nat
  OBVIOUS
<1>2. \A k \in 1..Len(fs) : fs[k] \in Seq(Byte) /\ gaps[k] \in Seq(Byte)
                              /\ OnWire(fs[k]) \in Seq(Byte)
  <2> SUFFICES ASSUME NEW k \in 1..Len(fs)
               PROVE  fs[k] \in Seq(Byte) /\ gaps[k] \in Seq(Byte) /\ OnWire(fs[k]) \in Seq(Byte)
    OBVIOUS
  <2>1. fs[k] \in Seq(Byte) /\ gaps[k] \in Seq(Byte)
    OBVIOUS
  <2> QED
    BY <2>1, OnWireBytes
<1>3. \A k \in 1..Len(fs) : Piece(fs, gaps, k) \in Seq(Byte)
  BY <1>2 DEF Piece
<1>4. seqs \in Seq(Seq(Byte)) /\ Len(seqs) = r
  BY <1>1, <1>3
<1>5. Append(seqs, x) = [k \in 1..(r + 1) |-> Piece(fs, gaps, k)]
  <2>1. Append(seqs, x) = [k \in 1..(r + 1) |-> IF k = r + 1 THEN x ELSE seqs[k]]
    BY <1>1, <1>4
  <2>2. \A k \in 1..(r + 1) : (IF k = r + 1 THEN x ELSE seqs[k]) = Piece(fs, gaps, k)
    BY <1>1
  <2> QED
    BY <2>1, <2>2
<1>6. x \in Seq(Byte)
  BY <1>3
<1> HIDE DEF seqs, x
<1>7. FlattenSeq(seqs) \in Seq(Byte) /\ FlattenSeq(Append(seqs, x)) = FlattenSeq(seqs) \o x
  BY <1>4, <1>6, FlattenAppend
<1>8. FlattenSeq(seqs) \o x = (FlattenSeq(seqs) \o gaps[r + 1]) \o OnWire(fs[r + 1])
  <2> DEFINE s == FlattenSeq(seqs)
             t == gaps[r + 1]
             u == OnWire(fs[r + 1])
  <2>1. s \in Seq(Byte) /\ t \in Seq(Byte) /\ u \in Seq(Byte)
    BY <1>2, <1>7
  <2> HIDE DEF s, t, u
  <2>3. (s \o t) \o u = s \o (t \o u)
    BY <2>1, BytesAssociate, Zenon
  <2> QED
    BY <2>3 DEF s, t, u, x, Piece
<1> QED
  BY <1>5, <1>7, <1>8 DEF SentTo, seqs

LEMMA NothingSent ==
  LET stream == [wire |-> <<>>, frames |-> <<>>, ends |-> <<>>]
  IN stream \in Stream /\ Consistent(stream)
BY DEF Stream, Consistent

(***************************************************************************)
(* Whatever whole frames a peer writes, and whatever bytes without an end  *)
(* byte it sends before each of them, frames broken off included: this is  *)
(* a stream of these frames as the theorems above are about.               *)
(***************************************************************************)
THEOREM WritesMakeAStream ==
  ASSUME NEW fs \in Seq(Seq(Byte)), NEW gaps \in Seq(Seq(Byte)), Len(fs) = Len(gaps),
         \A k \in 1..Len(fs) : WholeFrame(fs[k]) /\ NoEnd(gaps[k])
  PROVE  \E stream \in Stream :
           /\ Consistent(stream)
           /\ stream.frames = fs
           /\ stream.wire = SentTo(fs, gaps, Len(fs))
<1> DEFINE Made(m) == \E stream \in Stream :
                        /\ Consistent(stream)
                        /\ stream.frames = SubSeq(fs, 1, m)
                        /\ stream.wire = SentTo(fs, gaps, m)
           Without == {m \in 0..Len(fs) : ~Made(m)}
<1>1. Len(fs) \in Nat
  OBVIOUS
<1>2. Without = {}
  <2> SUFFICES ASSUME Without # {} PROVE FALSE
    OBVIOUS
  <2>1. Without \subseteq Nat
    OBVIOUS
  <2>2. PICK m \in Without : \A l \in Without : m <= l
    BY <2>1, LeastElement
  <2>3. m \in 0..Len(fs) /\ ~Made(m)
    BY <2>2
  <2>4. Made(0)
    <3>1. SentTo(fs, gaps, 0) = <<>>
      BY DEF SentTo, FlattenSeq
    <3>2. SubSeq(fs, 1, 0) = <<>>
      BY SubSeqEmpty
    <3> QED
      BY <3>1, <3>2, NothingSent
  <2>5. m # 0
    BY <2>3, <2>4
  <2>6. m - 1 \in 0..Len(fs) /\ ~(m <= m - 1) /\ m \in 1..Len(fs)
    BY <2>3, <2>5
  <2>7. PICK stream \in Stream :
          /\ Consistent(stream)
          /\ stream.frames = SubSeq(fs, 1, m - 1)
          /\ stream.wire = SentTo(fs, gaps, m - 1)
    BY <2>2, <2>6
  <2>8. /\ Sends(stream, gaps[m], fs[m]) \in Stream
        /\ Consistent(Sends(stream, gaps[m], fs[m]))
    BY <2>6, <2>7, SendsConsistent
  <2>9. /\ Sends(stream, gaps[m], fs[m]).wire = SentTo(fs, gaps, m)
        /\ Sends(stream, gaps[m], fs[m]).frames = Append(SubSeq(fs, 1, m - 1), fs[m])
    <3>1. m - 1 \in 0..(Len(fs) - 1) /\ (m - 1) + 1 = m
      BY <2>6
    <3>2. SentTo(fs, gaps, m) = (SentTo(fs, gaps, m - 1) \o gaps[m]) \o OnWire(fs[m])
      BY <3>1, SentToStep
    <3> QED
      BY <2>7, <3>2 DEF Sends
  <2>10. Append(SubSeq(fs, 1, m - 1), fs[m]) = SubSeq(fs, 1, m)
    <3>1. SubSeq(fs, 1, m) = SubSeq(fs, 1, m - 1) \o <<fs[m]>>
      BY <2>6, SubSeqRecursiveSecond
    <3>2. SubSeq(fs, 1, m - 1) \in Seq(Seq(Byte)) /\ fs[m] \in Seq(Byte)
      BY <2>6
    <3> QED
      BY <3>1, <3>2, AppendIsConcat
  <2> HIDE DEF Without
  <2>11. Made(m)
    BY <2>8, <2>9, <2>10
  <2> QED
    BY <2>3, <2>11
<1>3. Made(Len(fs))
  BY <1>1, <1>2
<1>4. SubSeq(fs, 1, Len(fs)) = fs
  BY SubSeqFull
<1> QED
  BY <1>3, <1>4

-----------------------------------------------------------------------------
(***************************************************************************)
(* The other end: the escape loop of FrameEscape stays inside its buffer,  *)
(* and what it makes of a frame is read as that frame, for every frame.    *)
(***************************************************************************)

\* The buffer never shrinks, and grows by at least what it is asked for.
LEMMA EnsureMakesRoom ==
  ASSUME NEW n \in {1, 2}, Len(escaped) \in Nat, allocated \in Nat, InBounds, Ensure(n)
  PROVE  allocated' \in Nat /\ Len(escaped) + n <= allocated'
<1>1. \A a \in Nat : ((a + 2) * 9) \div 8 \in Nat /\ ((a + 2) * 9) \div 8 >= a + 2
  OBVIOUS
<1>2. CASE Len(escaped) + (n - 1) >= allocated
  BY <1>1, <1>2 DEF Ensure, InBounds
<1>3. CASE ~(Len(escaped) + (n - 1) >= allocated)
  BY <1>3 DEF Ensure
<1> QED
  BY <1>2, <1>3

LEMMA BytesOfFrame ==
  ASSUME EscapeTypeOK, read < Len(frame)
  PROVE  frame[read + 1] \in Byte /\ read + 1 \in 0..Len(frame)
<1>1. frame \in Seq(Byte) /\ Len(frame) \in Nat
  BY FramesAssumption, LenProperties DEF EscapeTypeOK
<1>2. read + 1 \in 1..Len(frame)
  BY <1>1 DEF EscapeTypeOK
<1> QED
  BY <1>1, <1>2, ElementOfSeq

LEMMA InitInBounds == EscapeInit => EscapeTypeOK /\ InBounds
<1> SUFFICES ASSUME EscapeInit PROVE EscapeTypeOK /\ InBounds
  OBVIOUS
<1>1. frame \in Seq(Byte) /\ Len(frame) \in Nat
  BY FramesAssumption, LenProperties DEF EscapeInit
<1>2. \A n \in Nat : 2 + ((n + 2) * 9) \div 8 \in Nat /\ 2 + ((n + 2) * 9) \div 8 >= 1
  OBVIOUS
<1>3. escaped \in Seq(Byte) /\ Len(escaped) = 1
  BY DEF EscapeInit, Byte, FRAME_START_BYTE
<1>4. EscapeTypeOK
  BY <1>1, <1>2, <1>3 DEF EscapeInit, EscapeTypeOK
<1> QED
  BY <1>1, <1>2, <1>3, <1>4 DEF EscapeInit, InBounds

LEMMA StepInBounds ==
  ASSUME EscapeTypeOK, InBounds, [EscapeNext]_escape_vars
  PROVE  EscapeTypeOK' /\ InBounds'
<1>1. escaped \in Seq(Byte) /\ Len(escaped) \in Nat
  BY LenProperties DEF EscapeTypeOK
<1>2. CASE EscapeByte
  <2> DEFINE pair == <<FRAME_ESCAPE_BYTE, ClearMask(frame[read + 1])>>
  <2>1. pair \in Seq(Byte) /\ Len(pair) = 2
    <3>1. ClearMask(frame[read + 1]) \in Byte
      BY <1>2, MaskComesBack DEF EscapeByte
    <3>2. FRAME_ESCAPE_BYTE \in Byte
      BY DEF FRAME_ESCAPE_BYTE, Byte
    <3> QED
      BY <3>1, <3>2
  <2>2. escaped' \in Seq(Byte) /\ Len(escaped') = Len(escaped) + 2
    BY <1>1, <1>2, <2>1, ConcatProperties DEF EscapeByte
  <2>3. allocated' \in Nat /\ Len(escaped) + 2 <= allocated'
    BY <1>1, <1>2, EnsureMakesRoom DEF EscapeTypeOK, EscapeByte
  <2>4. EscapeTypeOK'
    BY <1>2, <2>2, <2>3, BytesOfFrame DEF EscapeTypeOK, EscapeByte
  <2> QED
    BY <2>2, <2>3, <2>4 DEF InBounds
<1>3. CASE CopyByte
  <2>1. escaped' \in Seq(Byte) /\ Len(escaped') = Len(escaped) + 1
    BY <1>1, <1>3, BytesOfFrame, AppendProperties DEF CopyByte
  <2>2. allocated' \in Nat /\ Len(escaped) + 1 <= allocated'
    BY <1>1, <1>3, EnsureMakesRoom DEF EscapeTypeOK, CopyByte
  <2>3. EscapeTypeOK'
    BY <1>3, <2>1, <2>2, BytesOfFrame DEF EscapeTypeOK, CopyByte
  <2> QED
    BY <2>1, <2>2, <2>3 DEF InBounds
<1>4. CASE Finish
  <2>1. escaped' \in Seq(Byte) /\ Len(escaped') = Len(escaped) + 1
    BY <1>1, <1>4, AppendProperties DEF Finish, FRAME_END_BYTE, Byte
  <2>2. allocated' \in Nat /\ Len(escaped) + 1 <= allocated'
    BY <1>1, <1>4, EnsureMakesRoom DEF EscapeTypeOK, Finish
  <2>3. EscapeTypeOK'
    BY <1>4, <2>1, <2>2 DEF EscapeTypeOK, Finish
  <2> QED
    BY <2>1, <2>2, <2>3 DEF InBounds
<1>5. ASSUME NoMemory \/ EscapeReturned \/ UNCHANGED escape_vars PROVE EscapeTypeOK' /\ InBounds'
  BY <1>5 DEF EscapeTypeOK, InBounds, NoMemory, EscapeReturned, escape_vars
<1> QED
  BY <1>2, <1>3, <1>4, <1>5 DEF EscapeNext

(***************************************************************************)
(* However long the frame and however many of its bytes are escaped, the   *)
(* guess and the growth by an eighth of what is there plus two suffice.    *)
(***************************************************************************)
THEOREM EscapesInBounds == EscapeSpec => [](EscapeTypeOK /\ InBounds)
  BY InitInBounds, StepInBounds, PTL DEF EscapeSpec

\* In particular the indices and lengths of the loop keep their types.
THEOREM EscapeTypeCorrect == EscapeSpec => []EscapeTypeOK
<1>1. EscapeTypeOK /\ InBounds => EscapeTypeOK
  OBVIOUS
<1> QED
  BY <1>1, EscapesInBounds, PTL
-----------------------------------------------------------------------------
\* The buffer holds the start byte and the bytes escaped so far.
EscapedSoFar ==
  /\ loop = "escaping" => escaped = <<FRAME_START_BYTE>> \o EscapedTo(frame, read)
  /\ loop = "done" => escaped = OnWire(frame)

LEMMA InitEscapedSoFar == EscapeInit => EscapedSoFar
<1> SUFFICES ASSUME EscapeInit PROVE EscapedSoFar
  OBVIOUS
<1>1. EscapedTo(frame, 0) = <<>>
  BY DEF EscapedTo, FlattenSeq
<1>2. <<FRAME_START_BYTE>> \o <<>> = <<FRAME_START_BYTE>>
  OBVIOUS
<1> QED
  BY <1>1, <1>2 DEF EscapeInit, EscapedSoFar

LEMMA StepEscapedSoFar ==
  ASSUME EscapeTypeOK, EscapedSoFar, [EscapeNext]_escape_vars
  PROVE  EscapedSoFar'
<1>1. /\ frame \in Seq(Byte) /\ Len(frame) \in Nat /\ read \in 0..Len(frame)
      /\ <<FRAME_START_BYTE>> \in Seq(Byte)
  BY FramesAssumption DEF EscapeTypeOK, FRAME_START_BYTE, Byte
<1>2. EscapedTo(frame, read) \in Seq(Byte)
  BY <1>1, MarksExist DEF Marked
<1>3. CASE EscapeByte \/ CopyByte
  <2>1. /\ loop = "escaping" /\ loop' = "escaping" /\ read < Len(frame) /\ read' = read + 1
        /\ frame' = frame
        /\ escaped' = escaped \o escape_byte(frame[read + 1])
    <3>1. CASE EscapeByte
      BY <3>1 DEF EscapeByte, escape_byte
    <3>2. CASE CopyByte
      <4>1. Append(escaped, frame[read + 1]) = escaped \o <<frame[read + 1]>>
        <5>1. escaped \in Seq(Byte) /\ frame[read + 1] \in Byte
          BY <3>2, BytesOfFrame DEF EscapeTypeOK, CopyByte
        <5> QED
          BY <5>1, AppendIsConcat
      <4> QED
        BY <3>2, <4>1 DEF CopyByte, escape_byte
    <3> QED
      BY <1>3, <3>1, <3>2
  <2>2. read \in 0..(Len(frame) - 1) /\ read + 1 \in 1..Len(frame)
    BY <1>1, <2>1
  <2>3. EscapedTo(frame, read + 1) = EscapedTo(frame, read) \o escape_byte(frame[read + 1])
    BY <1>1, <2>2, EscapedToStep
  <2>4. escape_byte(frame[read + 1]) \in Seq(Byte)
    BY <1>1, <2>2, EscapedBytes, ElementOfSeq
  <2>5. escaped = <<FRAME_START_BYTE>> \o EscapedTo(frame, read)
    BY <2>1 DEF EscapedSoFar
  <2>6. escaped' = <<FRAME_START_BYTE>> \o EscapedTo(frame, read + 1)
    <3> DEFINE s == <<FRAME_START_BYTE>>
               t == EscapedTo(frame, read)
               u == escape_byte(frame[read + 1])
    <3>1. s \in Seq(Byte) /\ t \in Seq(Byte) /\ u \in Seq(Byte)
      BY <1>1, <1>2, <2>4
    <3> HIDE DEF s, t, u
    <3>2. (s \o t) \o u = s \o (t \o u)
      BY <3>1, ConcatAssociative
    <3> QED
      BY <2>1, <2>3, <2>5, <3>2 DEF s, t, u
  <2>7. EscapedTo(frame', read') = EscapedTo(frame, read + 1)
    BY <2>1
  <2> QED
    BY <2>1, <2>6, <2>7 DEF EscapedSoFar
<1>4. CASE Finish
  <2>1. /\ escaped = <<FRAME_START_BYTE>> \o EscapedTo(frame, Len(frame))
        /\ escaped' = Append(escaped, FRAME_END_BYTE) /\ loop' = "done" /\ frame' = frame
    BY <1>4 DEF Finish, EscapedSoFar
  <2>2. escaped \in Seq(Byte) /\ FRAME_END_BYTE \in Byte
    BY DEF EscapeTypeOK, FRAME_END_BYTE, Byte
  <2>3. escaped' = escaped \o <<FRAME_END_BYTE>>
    BY <2>1, <2>2, AppendIsConcat
  <2>4. escaped' = OnWire(frame)
    BY <1>1, <2>1, <2>3, OnWireBytes
  <2> QED
    BY <2>1, <2>4 DEF EscapedSoFar
<1>5. CASE NoMemory \/ EscapeReturned \/ UNCHANGED escape_vars
  BY <1>5 DEF EscapedSoFar, NoMemory, EscapeReturned, escape_vars
<1> QED
  BY <1>3, <1>4, <1>5 DEF EscapeNext

(***************************************************************************)
(* What the loop of mdr_frameconn_escape_frame makes of a frame, whatever  *)
(* its bytes and however often the buffer grows, the reader unescapes to   *)
(* the same frame, and finds neither a start nor an end byte in it.        *)
(***************************************************************************)
THEOREM ReaderGetsEveryFrame == EscapeSpec => []ReaderGetsFrame
<1> DEFINE I == EscapeTypeOK /\ InBounds /\ EscapedSoFar
<1>1. EscapeInit => I
  BY InitInBounds, InitEscapedSoFar
<1>2. I /\ [EscapeNext]_escape_vars => I'
  BY StepInBounds, StepEscapedSoFar
<1>3. I => ReaderGetsFrame
  <2> SUFFICES ASSUME EscapeTypeOK, EscapedSoFar, loop = "done" PROVE ReaderGetsFrame
    BY DEF ReaderGetsFrame
  <2> DEFINE body == SubSeq(escaped, 2, Len(escaped) - 1)
  <2>1. escaped = OnWire(frame) /\ frame \in Seq(Byte)
    BY FramesAssumption DEF EscapedSoFar, EscapeTypeOK
  <2>2. /\ unescape(body) = frame
        /\ \A j \in DOMAIN body : body[j] \notin {FRAME_START_BYTE, FRAME_END_BYTE}
    BY <2>1, EscapingIsUndone
  <2> HIDE DEF body
  <2>3. ToSet(body) \cap {FRAME_START_BYTE, FRAME_END_BYTE} = {}
    BY <2>2 DEF ToSet
  <2> QED
    BY <2>1, <2>2, <2>3 DEF ReaderGetsFrame, body
<1> HIDE DEF I
<1> QED
  BY <1>1, <1>2, <1>3, PTL DEF EscapeSpec
=============================================================================
