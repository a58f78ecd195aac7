---------------------------- MODULE FrameEscape -----------------------------
(***************************************************************************)
(* mdr_frameconn_escape_frame (src/frameconn.c): the loop that escapes a   *)
(* frame into a buffer which is allocated by a guess at the number of      *)
(* bytes to escape and enlarged when the guess was too low.                *)
(*                                                                         *)
(* The frame is its first MDR_FRAME_EMPTY_LEN + payload_length bytes.  The *)
(* sum is in 32 bits here, too, but no frame the library makes is so long  *)
(* that it wraps.                                                          *)
(*                                                                         *)
(* Its names are told apart from those of FrameReader, so that one module  *)
(* can speak of both.                                                      *)
(***************************************************************************)
EXTENDS FrameFormat

CONSTANT Frames      \* the frames that are written, as bytes

ASSUME FramesAssumption == Frames \subseteq Seq(Byte)

VARIABLES
  frame,      \* the frame being escaped
  read,       \* bytes of the frame done
  escaped,    \* the bytes in the buffer; the code's `write' is their number
  allocated,  \* the size of the buffer
  loop        \* "escaping", "done", or "nomem" when an allocation failed

escape_vars == <<frame, read, escaped, allocated, loop>>

EscapeTypeOK ==
  /\ frame \in Frames
  /\ read \in 0..Len(frame)
  /\ escaped \in Seq(Byte)
  /\ allocated \in Nat
  /\ loop \in {"escaping", "done", "nomem"}

EscapeInit ==
  /\ frame \in Frames
  /\ read = 0
  /\ escaped = <<FRAME_START_BYTE>>
  /\ allocated = 2 + ((Len(frame) + 2) * 9) \div 8
  /\ loop = "escaping"

\* Mutant: a full buffer is taken for one with room for another byte.
EnsureOneShort(n) ==
  allocated' = IF Len(escaped) + (n - 1) > allocated
               THEN ((allocated + 2) * 9) \div 8
               ELSE allocated

\* ENSURE_ESCAPED_BUFFER(n), before n bytes are written.
Ensure(n) ==
  allocated' = IF Len(escaped) + (n - 1) >= allocated
               THEN ((allocated + 2) * 9) \div 8
               ELSE allocated

\* Mutant: the byte after the escape byte keeps the masked bit.
EscapeWithoutMask ==
  /\ loop = "escaping"
  /\ read < Len(frame)
  /\ frame[read + 1] \in Escaped
  /\ Ensure(2)
  /\ escaped' = escaped \o <<FRAME_ESCAPE_BYTE, frame[read + 1]>>
  /\ read' = read + 1
  /\ UNCHANGED <<frame, loop>>

\* Mutant: the loop skips a byte, as the one that unescapes does.
EscapeByteReadTwice ==
  /\ loop = "escaping"
  /\ read < Len(frame)
  /\ frame[read + 1] \in Escaped
  /\ Ensure(2)
  /\ escaped' = escaped \o <<FRAME_ESCAPE_BYTE, ClearMask(frame[read + 1])>>
  /\ read' = read + 2
  /\ UNCHANGED <<frame, loop>>

EscapeByte ==
  /\ loop = "escaping"
  /\ read < Len(frame)
  /\ frame[read + 1] \in Escaped
  /\ Ensure(2)
  /\ escaped' = escaped \o <<FRAME_ESCAPE_BYTE, ClearMask(frame[read + 1])>>
  /\ read' = read + 1
  /\ UNCHANGED <<frame, loop>>

CopyByte ==
  /\ loop = "escaping"
  /\ read < Len(frame)
  /\ frame[read + 1] \notin Escaped
  /\ Ensure(1)
  /\ escaped' = Append(escaped, frame[read + 1])
  /\ read' = read + 1
  /\ UNCHANGED <<frame, loop>>

Finish ==
  /\ loop = "escaping"
  /\ read = Len(frame)
  /\ Ensure(1)
  /\ escaped' = Append(escaped, FRAME_END_BYTE)
  /\ loop' = "done"
  /\ UNCHANGED <<frame, read>>

\* malloc or realloc fails: NULL is returned.
NoMemory ==
  /\ loop = "escaping"
  /\ loop' = "nomem"
  /\ UNCHANGED <<frame, read, escaped, allocated>>

EscapeReturned == loop # "escaping" /\ UNCHANGED escape_vars

EscapeNext == EscapeByte \/ CopyByte \/ Finish \/ NoMemory \/ EscapeReturned

EscapeSpec == EscapeInit /\ [][EscapeNext]_escape_vars
-----------------------------------------------------------------------------
(***************************************************************************)
(* No byte is ever written behind the end of the buffer, whatever the      *)
(* guess and however many bytes are escaped: every byte written so far,    *)
(* and with it the last index written, lies within what was allocated      *)
(* before the write.                                                       *)
(***************************************************************************)
InBounds == Len(escaped) <= allocated

(***************************************************************************)
(* The reader gets the frame back, and cannot take a byte of it for the    *)
(* start or the end of a frame.                                            *)
(***************************************************************************)
ReaderGetsFrame ==
  loop = "done" =>
    LET body == SubSeq(escaped, 2, Len(escaped) - 1)
    IN /\ unescape(body) = frame
       /\ ToSet(body) \cap {FRAME_START_BYTE, FRAME_END_BYTE} = {}
       /\ escaped = OnWire(frame)
=============================================================================
