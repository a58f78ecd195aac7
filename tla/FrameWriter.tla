---------------------------- MODULE FrameWriter -----------------------------
(***************************************************************************)
(* The writing half of a frame connection (src/frameconn.c): the write     *)
(* buffer, mdr_frameconn_flush_write and mdr_frameconn_write_frame, with a *)
(* socket that takes any part of what it is offered, or nothing.           *)
(*                                                                         *)
(* Which byte of which frame is all that matters here: byte k of the       *)
(* escaped frame f is <<f, k>>.  FrameEscape.tla has the bytes themselves. *)
(***************************************************************************)
EXTENDS Integers, Sequences, SequencesExt

CONSTANTS
  Frames,          \* what callers write
  EscapedLen,      \* the number of bytes of each frame once escaped
  FRAME_BUF_SIZE,
  MAX_WIRE,        \* bound: the socket blocks after so many bytes
  WriteAgain       \* may a frame be written more than once?

ASSUME WriterAssumption ==
  /\ EscapedLen \in [Frames -> Nat \ {0}]
  /\ FRAME_BUF_SIZE \in Nat
  /\ MAX_WIRE \in Nat
  /\ WriteAgain \in BOOLEAN

VARIABLES
  write_buf,  \* the first write_buf_len bytes of the write buffer
  wire,       \* the bytes the socket has taken
  pc,         \* "idle", "flush", "frame" before the test for room, "send"
  frame,      \* the frame of the call to write_frame that runs, or None
  written,    \* the number of its bytes the socket has taken
  result,     \* how the last call ended
  offered     \* history: the frames that were written, or tried to be

vars == <<write_buf, wire, pc, frame, written, result, offered>>

None == "none"
ASSUME NoneAssumption == None \notin Frames

WireByte == Frames \X Nat
Bytes(f) == [k \in 1..EscapedLen[f] |-> <<f, k>>]

TypeOK ==
  /\ write_buf \in Seq(WireByte) /\ Len(write_buf) <= FRAME_BUF_SIZE
  /\ wire \in Seq(WireByte)
  /\ pc \in {"idle", "flush", "frame", "send"}
  /\ frame \in Frames \cup {None}
  /\ pc \in {"frame", "send"} => frame # None
  /\ written \in Nat
  /\ pc = "send" =>
       /\ written <= EscapedLen[frame]
       /\ Len(write_buf) + EscapedLen[frame] <= FRAME_BUF_SIZE
  /\ result \in {"none", "written", "blocked", "refused", "flushed", "failed"}
  /\ offered \subseteq Frames

Init ==
  /\ write_buf = <<>>
  /\ wire = <<>>
  /\ pc = "idle"
  /\ frame = None
  /\ written = 0
  /\ result = "none"
  /\ offered = {}

-----------------------------------------------------------------------------
\* mdr_frameconn_flush_write is called: the packet connection does, if writable.
FlushWrite ==
  /\ pc = "idle"
  /\ pc' = "flush"
  /\ frame' = None
  /\ UNCHANGED <<write_buf, wire, written, result, offered>>

\* mdr_frameconn_write_frame is called, and flushes first.
WriteFrame(f) ==
  /\ pc = "idle"
  /\ WriteAgain \/ f \notin offered
  /\ pc' = "flush"
  /\ frame' = f
  /\ offered' = offered \cup {f}
  /\ UNCHANGED <<write_buf, wire, written, result>>

Take(bytes) ==
  /\ Len(wire) + Len(bytes) <= MAX_WIRE
  /\ wire' = wire \o bytes

Return(how) == pc' = "idle" /\ result' = how

(***************************************************************************)
(* write() takes n bytes.  The loop does not count them: the index stays 0 *)
(* and the whole buffer is offered again.  PacketConn.tla rests on this:   *)
(* its `backlog', once there, stays.                                       *)
(***************************************************************************)
FlushWrites(n) ==
  /\ pc = "flush"
  /\ n <= Len(write_buf)
  /\ Take(SubSeq(write_buf, 1, n))
  /\ UNCHANGED <<write_buf, pc, frame, written, result, offered>>

\* The loop ends before it began.
FlushEnds ==
  /\ pc = "flush"
  /\ write_buf = <<>>
  /\ IF frame = None
     THEN Return("flushed")
     ELSE pc' = "frame" /\ UNCHANGED result
  /\ UNCHANGED <<write_buf, wire, frame, written, offered>>

\* write() would block (EAGAIN, or EINVAL), which does not keep a frame from being sent.
FlushBlocks ==
  /\ pc = "flush"
  /\ write_buf # <<>>
  /\ IF frame = None
     THEN Return("blocked")
     ELSE pc' = "frame" /\ UNCHANGED result
  /\ UNCHANGED <<write_buf, wire, frame, written, offered>>

\* Any other error of write() ends the call, and nothing is left out of the buffer.
FlushFails ==
  /\ pc = "flush"
  /\ write_buf # <<>>
  /\ Return("failed")
  /\ UNCHANGED <<write_buf, wire, frame, written, offered>>

\* Mutant: a frame needs no more room than a frame without escapes.
HasRoomForLess(f) == FRAME_BUF_SIZE - Len(write_buf) >= EscapedLen[f] - 1

HasRoom(f) == FRAME_BUF_SIZE - Len(write_buf) >= EscapedLen[f]

\* EWOULDBLOCK: what is buffered leaves no room for all of the frame.
Refused ==
  /\ pc = "frame"
  /\ ~HasRoom(frame)
  /\ Return("refused")
  /\ UNCHANGED <<write_buf, wire, frame, written, offered>>

\* There is no memory for the escaped frame.
EscapeFails ==
  /\ pc = "frame"
  /\ Return("failed")
  /\ UNCHANGED <<write_buf, wire, frame, written, offered>>

SendStarts ==
  /\ pc = "frame"
  /\ HasRoom(frame)
  /\ written' = 0
  /\ pc' = "send"
  /\ UNCHANGED <<write_buf, wire, frame, result, offered>>

\* Mutant: each write() offers the frame from its start.
SendWritesFromStart(n) ==
  /\ pc = "send"
  /\ written + n <= EscapedLen[frame]
  /\ Take(SubSeq(Bytes(frame), 1, n))
  /\ written' = written + n
  /\ UNCHANGED <<write_buf, pc, frame, result, offered>>

SendWrites(n) ==
  /\ pc = "send"
  /\ written + n <= EscapedLen[frame]
  /\ Take(SubSeq(Bytes(frame), written + 1, written + n))
  /\ written' = written + n
  /\ UNCHANGED <<write_buf, pc, frame, result, offered>>

SendEnds ==
  /\ pc = "send"
  /\ written = EscapedLen[frame]
  /\ Return("written")
  /\ UNCHANGED <<write_buf, wire, frame, written, offered>>

\* Mutant: the whole frame is buffered.
SendBlocksKeepingAll ==
  /\ pc = "send"
  /\ written < EscapedLen[frame]
  /\ write_buf' = write_buf \o Bytes(frame)
  /\ Return("blocked")
  /\ UNCHANGED <<wire, frame, written, offered>>

(***************************************************************************)
(* write() would block: the rest of the frame is buffered, and the call    *)
(* returns -1 with EAGAIN.                                                 *)
(***************************************************************************)
SendBlocks ==
  /\ pc = "send"
  /\ written < EscapedLen[frame]
  /\ write_buf' = write_buf \o SubSeq(Bytes(frame), written + 1, EscapedLen[frame])
  /\ Return("blocked")
  /\ UNCHANGED <<wire, frame, written, offered>>

\* Any other error of write(): what was sent of the frame stays sent.
SendFails ==
  /\ pc = "send"
  /\ written < EscapedLen[frame]
  /\ Return("failed")
  /\ UNCHANGED <<write_buf, wire, frame, written, offered>>

Call == FlushWrite \/ \E f \in Frames : WriteFrame(f)

Flushing ==
  \/ \E n \in 1..FRAME_BUF_SIZE : FlushWrites(n)
  \/ FlushEnds
  \/ FlushBlocks
  \/ FlushFails

Sending ==
  \/ Refused
  \/ EscapeFails
  \/ SendStarts
  \/ \E n \in 1..FRAME_BUF_SIZE : SendWrites(n)
  \/ SendEnds
  \/ SendBlocks
  \/ SendFails

Next == Call \/ Flushing \/ Sending

Spec == Init /\ [][Next]_vars
-----------------------------------------------------------------------------
(***************************************************************************)
(* A frame that was written successfully is on the wire as a whole, with   *)
(* nothing between its bytes, however the socket has cut it up.            *)
(***************************************************************************)
SuccessSendsWhole ==
  pc = "idle" /\ result = "written" => IsSuffix(Bytes(frame), wire)

(***************************************************************************)
(* A frame the socket has blocked is lost in no part and kept in no part   *)
(* twice: its first bytes are the last on the wire, and the others are in  *)
(* the write buffer, behind the last byte of another frame if behind any.  *)
(* The call has returned -1 all the same, so a caller who writes the frame *)
(* again sends it twice.                                                   *)
(***************************************************************************)
BlockedIsKept ==
  pc = "idle" /\ result = "blocked" /\ frame # None =>
    LET before == Len(write_buf) - (EscapedLen[frame] - written)
    IN /\ IsSuffix(SubSeq(Bytes(frame), 1, written), wire)
       /\ IsSuffix(SubSeq(Bytes(frame), written + 1, EscapedLen[frame]), write_buf)
       /\ before > 0 => \E f \in Frames : write_buf[before] = <<f, EscapedLen[f]>>

(***************************************************************************)
(* With these two, the invariants above are inductive: the bytes of the    *)
(* frame that is being sent are the last on the wire, and the buffer ends  *)
(* with the end of a frame.                                                *)
(***************************************************************************)
SendingIsLast ==
  pc = "send" => IsSuffix(SubSeq(Bytes(frame), 1, written), wire)

BufferEndsFrame ==
  write_buf # <<>> => \E f \in Frames : write_buf[Len(write_buf)] = <<f, EscapedLen[f]>>

(***************************************************************************)
(* frameconn.h:83: flush_write is to "flush any buffered writes": to send  *)
(* them, and not to send them over and over.  The code does not keep this. *)
(***************************************************************************)
BytesSentOnce ==
  \A j, k \in DOMAIN wire : wire[j] = wire[k] => j = k
=============================================================================
