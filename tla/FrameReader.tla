---------------------------- MODULE FrameReader -----------------------------
(***************************************************************************)
(* The reading half of a frame connection (src/frameconn.c):               *)
(* mdr_frameconn_read_frame, its scan of the read buffer in                *)
(* mdr_frameconn_next_frame, and a peer whose bytes arrive in pieces of    *)
(* any size.  One step here is one turn of a loop or one system call.      *)
(*                                                                         *)
(* Memory may run out while a frame is unescaped.  What the blocks of      *)
(* memory become (those of invalid frames are never freed) is left out.    *)
(*                                                                         *)
(* Indices count from 1.                                                   *)
(***************************************************************************)
EXTENDS FrameFormat

CONSTANTS
  Streams,         \* what the peer may send, see below
  FRAME_BUF_SIZE,
  MayHangUp        \* may the peer close the connection?

(***************************************************************************)
(* A stream is the bytes a peer sends, the frames it means by them, and    *)
(* where in the bytes each of these ends.                                  *)
(***************************************************************************)
Stream == [wire : Seq(Byte), frames : Seq(Seq(Byte)), ends : Seq(Nat)]

\* A start byte at a, an end byte at b, and neither of them in between.
Delimited(wire, a, b) ==
  /\ a < b
  /\ wire[a] = FRAME_START_BYTE
  /\ wire[b] = FRAME_END_BYTE
  /\ \A j \in (a + 1)..(b - 1) : wire[j] \notin {FRAME_START_BYTE, FRAME_END_BYTE}

Decoded(wire, a, b) == unescape_frame(SubSeq(wire, a + 1, b - 1))

\* "The minimum length a frame can be" (include/mdr/frame.h:31).
IsFrame(bytes) == Len(bytes) >= MDR_FRAME_EMPTY_LEN

FrameAt(wire, a, b) == Delimited(wire, a, b) /\ IsFrame(Decoded(wire, a, b))

\* Before, between and after the frames there may be anything but a frame.
Consistent(stream) ==
  LET wire == stream.wire IN
  /\ DOMAIN stream.ends = DOMAIN stream.frames
  /\ \A k, l \in DOMAIN stream.ends : k < l => stream.ends[k] < stream.ends[l]
  /\ \A k \in DOMAIN stream.ends :
       /\ stream.ends[k] \in DOMAIN wire
       /\ \E a \in DOMAIN wire :
            /\ FrameAt(wire, a, stream.ends[k])
            /\ stream.frames[k] = Decoded(wire, a, stream.ends[k])
  /\ \A a, b \in DOMAIN wire :
       FrameAt(wire, a, b) => \E k \in DOMAIN stream.ends : stream.ends[k] = b

ASSUME ReaderAssumption ==
  /\ \A stream \in Streams : stream \in Stream /\ Consistent(stream)
  /\ FRAME_BUF_SIZE \in Nat \ {0}
  /\ MayHangUp \in BOOLEAN

\* The buffer holds what follows the start byte, the end byte included.
FramesFit ==
  \A stream \in Streams : \A a, b \in DOMAIN stream.wire :
    FrameAt(stream.wire, a, b) => b - a <= FRAME_BUF_SIZE

VARIABLES
  read_buf,      \* the first read_buf_len bytes of the read buffer
  read_started,  \* a start byte was seen, and no end byte since
  i,             \* the index of the scan
  pc,            \* "idle", "scan" in next_frame, "refill" before read(), "crashed"
  errno,         \* why the last call returned no frame, 0 if it did
  incoming,      \* bytes in the socket, or still to arrive
  hungup,        \* the peer has closed: read() returns 0 after the last byte
  frames,        \* history: the frames the peer sends
  delivered,     \* history: what the calls have returned
  damaged        \* history: bytes between two delimiters were no frame, or lost

vars == <<read_buf, read_started, i, pc, errno, incoming, hungup, frames, delivered,
          damaged>>

TypeOK ==
  /\ read_buf \in Seq(Byte) /\ Len(read_buf) <= FRAME_BUF_SIZE
  /\ read_started \in BOOLEAN
  /\ i \in 1..(FRAME_BUF_SIZE + 1)
  /\ pc \in {"idle", "scan", "refill", "crashed"}
  /\ errno \in {"0", "EAGAIN", "EIO"}
  /\ incoming \in Seq(Byte)
  /\ hungup \in BOOLEAN
  /\ frames \in Seq(Seq(Byte))
  /\ delivered \in Seq(Seq(Byte))
  /\ damaged \in BOOLEAN

Init ==
  /\ read_buf = <<>>
  /\ read_started = FALSE
  /\ i = 1
  /\ pc = "idle"
  /\ errno = "0"
  /\ \E stream \in Streams :
       /\ incoming = stream.wire
       /\ frames = stream.frames
  /\ hungup = FALSE
  /\ delivered = <<>>
  /\ damaged = FALSE

-----------------------------------------------------------------------------
Scanning == pc = "scan" /\ i <= Len(read_buf)
AtStart == read_buf[i] = FRAME_START_BYTE
AtEnd == read_buf[i] = FRAME_END_BYTE /\ read_started

(***************************************************************************)
(* The bytes behind index i, moved to the front of the buffer.  The        *)
(* memmoves copy two bytes more than there are, from and to places behind  *)
(* read_buf_len that a later read() overwrites.  With a buffer that is     *)
(* full, or almost, these bytes are read from behind the array, and if i   *)
(* is its first index one is written there: undefined, and taken here as   *)
(* it is where a size_t has eight bytes, with padding between read_buf and *)
(* read_buf_len that takes what is written.                                *)
(***************************************************************************)
Behind == SubSeq(read_buf, i + 1, Len(read_buf))

\* Mutant: what is too short to be a frame is taken for one.
FoundOfAnyLength == unescape(SubSeq(read_buf, 1, i - 1))

\* What lies between the start byte, removed long ago, and the end byte.
Found == unescape_frame(SubSeq(read_buf, 1, i - 1))

\* mdr_frameconn_read_frame is called.
Read ==
  /\ pc = "idle"
  /\ pc' = "scan"
  /\ i' = 1
  /\ UNCHANGED <<read_buf, read_started, errno, incoming, hungup, frames, delivered,
                 damaged>>

FrameStarts ==
  /\ Scanning
  /\ AtStart
  /\ read_buf' = Behind
  /\ read_started' = TRUE
  /\ i' = 1
  /\ UNCHANGED <<pc, errno, incoming, hungup, frames, delivered, damaged>>

\* Mutant: the bytes behind the frame are dropped with it.
FrameEndsDropping ==
  /\ Scanning
  /\ AtEnd
  /\ Found # Invalid
  /\ read_buf' = <<>>
  /\ read_started' = FALSE
  /\ delivered' = Append(delivered, Found)
  /\ damaged' = (damaged \/ ~IsFrame(Found))
  /\ errno' = "0"
  /\ pc' = "idle"
  /\ UNCHANGED <<i, incoming, hungup, frames>>

\* What was found is returned, a block that is too short for a frame as well.
FrameEnds ==
  /\ Scanning
  /\ AtEnd
  /\ Found # Invalid
  /\ read_buf' = Behind
  /\ read_started' = FALSE
  /\ delivered' = Append(delivered, Found)
  /\ damaged' = (damaged \/ ~IsFrame(Found))
  /\ errno' = "0"
  /\ pc' = "idle"
  /\ UNCHANGED <<i, incoming, hungup, frames>>

(***************************************************************************)
(* No frame was found, or realloc had no memory to return it in, which     *)
(* comes to the same.  The scan goes on at the next index, in a buffer     *)
(* that has moved.                                                         *)
(***************************************************************************)
EndsWithoutFrame ==
  /\ Scanning
  /\ AtEnd
  /\ read_buf' = Behind
  /\ read_started' = FALSE
  /\ i' = i + 1
  /\ damaged' = TRUE
  /\ UNCHANGED <<pc, errno, incoming, hungup, frames, delivered>>

\* malloc has no memory to unescape into, and the bytes are written to NULL.
WritesToNull ==
  /\ Scanning
  /\ AtEnd
  /\ i > 1
  /\ pc' = "crashed"
  /\ UNCHANGED <<read_buf, read_started, i, errno, incoming, hungup, frames, delivered,
                 damaged>>

OtherByte ==
  /\ Scanning
  /\ ~AtStart
  /\ ~AtEnd
  /\ i' = i + 1
  /\ UNCHANGED <<read_buf, read_started, pc, errno, incoming, hungup, frames, delivered,
                 damaged>>

\* Mutant: a full buffer is not cleared.
ScanEndsKeepingAll ==
  /\ pc = "scan"
  /\ i > Len(read_buf)
  /\ pc' = "refill"
  /\ UNCHANGED <<read_buf, read_started, i, errno, incoming, hungup, frames, delivered,
                 damaged>>

\* Mutant: the buffer is cleared whether it is full or not.
ScanEndsClearing ==
  /\ pc = "scan"
  /\ i > Len(read_buf)
  /\ read_buf' = <<>>
  /\ read_started' = FALSE
  /\ pc' = "refill"
  /\ UNCHANGED <<i, errno, incoming, hungup, frames, delivered, damaged>>

(***************************************************************************)
(* The scan has found no frame.  A buffer that is full by now is cleared.  *)
(* mdr_frameconn_next_frame sets errno to 0 even if it met an invalid      *)
(* frame, so the caller always goes on to read from the socket.            *)
(***************************************************************************)
ScanEnds ==
  /\ pc = "scan"
  /\ i > Len(read_buf)
  /\ IF Len(read_buf) >= FRAME_BUF_SIZE
     THEN read_buf' = <<>> /\ read_started' = FALSE
     ELSE UNCHANGED <<read_buf, read_started>>
  /\ pc' = "refill"
  /\ UNCHANGED <<i, errno, incoming, hungup, frames, delivered, damaged>>

\* Mutant: read() is offered the size of the buffer.
WholeBuffer == FRAME_BUF_SIZE

Room == FRAME_BUF_SIZE - Len(read_buf)

\* read() takes n bytes, and the buffer is scanned again from its front.
Refill(n) ==
  /\ pc = "refill"
  /\ n <= Room
  /\ n <= Len(incoming)
  /\ read_buf' = read_buf \o SubSeq(incoming, 1, n)
  /\ incoming' = SubSeq(incoming, n + 1, Len(incoming))
  /\ i' = 1
  /\ pc' = "scan"
  /\ UNCHANGED <<read_started, errno, hungup, frames, delivered, damaged>>

\* read() returns 0, which is taken for a read like any other.
RefillsNothing ==
  /\ pc = "refill"
  /\ Room = 0 \/ (hungup /\ incoming = <<>>)
  /\ i' = 1
  /\ pc' = "scan"
  /\ UNCHANGED <<read_buf, read_started, errno, incoming, hungup, frames, delivered,
                 damaged>>

\* Nothing has arrived (EAGAIN), or the connection is reset.
ReturnsNothing(error) ==
  /\ pc = "refill"
  /\ Room > 0
  /\ error = "EAGAIN" => ~(hungup /\ incoming = <<>>)
  /\ errno' = error
  /\ pc' = "idle"
  /\ UNCHANGED <<read_buf, read_started, i, incoming, hungup, frames, delivered, damaged>>

HangUp ==
  /\ MayHangUp
  /\ ~hungup
  /\ hungup' = TRUE
  /\ UNCHANGED <<read_buf, read_started, i, pc, errno, incoming, frames, delivered,
                 damaged>>

\* A process that has crashed stays so.
Crashed == pc = "crashed" /\ UNCHANGED vars

Scan ==
  FrameStarts \/ FrameEnds \/ EndsWithoutFrame \/ WritesToNull \/ OtherByte \/ ScanEnds

Refilling ==
  \/ \E n \in 1..FRAME_BUF_SIZE : Refill(n)
  \/ RefillsNothing
  \/ \E error \in {"EAGAIN", "EIO"} : ReturnsNothing(error)

Next == Read \/ Scan \/ Refilling \/ HangUp \/ Crashed

Spec == Init /\ [][Next]_vars

\* A call that was made goes on.
FairSpec == Spec /\ WF_vars(Scan) /\ WF_vars(Refilling)
-----------------------------------------------------------------------------
(***************************************************************************)
(* However the bytes are cut into pieces, and whatever lies between the    *)
(* frames: until something between two delimiters is no frame, or is lost  *)
(* for want of memory, the frames returned are those the peer sent, in     *)
(* their order, none left out and none returned twice.                     *)
(***************************************************************************)
FramesInOrder == ~damaged => IsPrefix(delivered, frames)

\* What was returned and is as long as a frame is at least.
FramesDelivered == {k \in DOMAIN delivered : IsFrame(delivered[k])}

(***************************************************************************)
(* Damage may cost frames, and a length that wraps (frameconn.c:186) gets  *)
(* a block of 1 to 6 bytes returned.  But no other bytes are ever taken    *)
(* for a frame: apart from these blocks, what is returned is some of the   *)
(* frames the peer sent, each once and in their order.                     *)
(***************************************************************************)
SentFramesInOrder ==
  \E at \in [FramesDelivered -> DOMAIN frames] :
    \A k \in FramesDelivered :
      /\ delivered[k] = frames[at[k]]
      /\ \A l \in FramesDelivered : l < k => at[l] < at[k]

(***************************************************************************)
(* When there is nothing more to read, every frame the peer sent has been  *)
(* returned, if nothing was damaged: none waits in the buffer for bytes    *)
(* that may never come, and none was cut off by the clearing of a full     *)
(* buffer.                                                                 *)
(***************************************************************************)
NothingLeftBehind ==
  pc = "idle" /\ errno = "EAGAIN" /\ incoming = <<>> /\ ~damaged => delivered = frames

(***************************************************************************)
(* A call never reads into a buffer without room, which read() would take  *)
(* for the end of the file; so a call ends, if the peer does not hang up   *)
(* and the memory does not run out at malloc.                              *)
(***************************************************************************)
ReadReturns == pc # "idle" ~> (pc \in {"idle", "crashed"} \/ hungup)

(***************************************************************************)
(* A rule written in include/mdr/frameconn.h:90 which the code does not    *)
(* keep: a call that finds no frame "returns NULL and sets errno on        *)
(* error", also of a peer that has hung up.                                *)
(***************************************************************************)
HangUpReturns == pc # "idle" ~> pc \in {"idle", "crashed"}
=============================================================================
