---------------------------- MODULE FrameFormat ----------------------------
(***************************************************************************)
(* Frames as bytes on the wire (src/frame.c, src/frameconn.c): a frame is  *)
(* its data type, its sequence id, the length of its payload in four bytes *)
(* in network order, the payload and a checksum; it goes out between a     *)
(* start and an end byte, with those two bytes and the escape byte escaped *)
(* in between.                                                             *)
(***************************************************************************)
EXTENDS Integers, Sequences, SequencesExt

Byte == 0..255

MDR_FRAME_EMPTY_LEN == 7

FRAME_START_BYTE == 62
FRAME_ESCAPE_BYTE == 61
FRAME_END_BYTE == 60
FRAME_ESCAPE_MASK == 16

Escaped == {FRAME_START_BYTE, FRAME_ESCAPE_BYTE, FRAME_END_BYTE}

\* The masks of C: the bit is set by `|' and cleared by `& ~'.
MaskIsSet(b) == (b \div FRAME_ESCAPE_MASK) % 2 = 1
SetMask(b) == IF MaskIsSet(b) THEN b ELSE b + FRAME_ESCAPE_MASK
ClearMask(b) == IF MaskIsSet(b) THEN b - FRAME_ESCAPE_MASK ELSE b

\* What goes out for one byte of a frame.
escape_byte(b) == IF b \in Escaped THEN <<FRAME_ESCAPE_BYTE, ClearMask(b)>> ELSE <<b>>

\* The escape byte stands for itself at the very end.
unescape(bytes) ==
  LET n == Len(bytes)
      from[i \in 1..(n + 2)] ==
        IF i > n THEN <<>>
        ELSE IF bytes[i] = FRAME_ESCAPE_BYTE /\ i < n
             THEN <<SetMask(bytes[i + 1])>> \o from[i + 2]
             ELSE <<bytes[i]>> \o from[i + 1]
  IN from[1]

\* The payload length of the frame that starts with these bytes, a uint32_t.
payload_length(bytes) ==
  ((bytes[3] * 256 + bytes[4]) * 256 + bytes[5]) * 256 + bytes[6]

\* Is the payload length so large that the length of the frame is 2^32 or more?
LengthWraps(bytes) ==
  /\ \A k \in 3..5 : bytes[k] = 255
  /\ bytes[6] + MDR_FRAME_EMPTY_LEN >= 256

(***************************************************************************)
(* MDR_FRAME_EMPTY_LEN + payload_length, an int and a uint32_t added in 32 *)
(* bits: the seven largest payload lengths give the numbers from 0 to 6.   *)
(* (TLC's integers do not reach 2^32; FrameLengthIsModular in              *)
(* FrameFormatProofs shows that this is the sum modulo 2^32.)              *)
(***************************************************************************)
frame_len(bytes) ==
  IF LengthWraps(bytes)
  THEN bytes[6] + MDR_FRAME_EMPTY_LEN - 256
  ELSE MDR_FRAME_EMPTY_LEN + payload_length(bytes)

Invalid == <<>>

(***************************************************************************)
(* mdr_frameconn_unescape_frame, while there is memory.  Bytes that follow *)
(* the checksum are cut off; the checksum itself is not compared with      *)
(* anything.  A length that wraps is never too long for the bytes at hand, *)
(* and gives a block of 1 to 6 bytes.  (With a frame_len of 0, realloc     *)
(* frees the block and returns NULL, as the C library of Linux does:       *)
(* Invalid, as the empty sequence is.)                                     *)
(***************************************************************************)
unescape_frame(escaped) ==
  LET bytes == unescape(escaped)
  IN IF \/ Len(bytes) < MDR_FRAME_EMPTY_LEN
        \/ Len(bytes) < frame_len(bytes)
     THEN Invalid
     ELSE SubSeq(bytes, 1, frame_len(bytes))

\* The sum of all bytes but the checksum itself, in a byte.
compute_checksum(bytes) ==
  LET sum[i \in 0..(Len(bytes) - 1)] ==
        IF i = 0 THEN 0 ELSE (sum[i - 1] + bytes[i]) % 256
  IN sum[Len(bytes) - 1]

\* A frame with a payload of fewer than 256 bytes and its right checksum.
FrameBytes(data_type, sequence_id, payload) ==
  LET head == <<data_type, sequence_id, 0, 0, 0, Len(payload)>> \o payload
  IN Append(head, compute_checksum(Append(head, 0)))

\* What mdr_frameconn_write_frame sends for a frame.
OnWire(bytes) ==
  <<FRAME_START_BYTE>>
    \o FlattenSeq([i \in DOMAIN bytes |-> escape_byte(bytes[i])])
    \o <<FRAME_END_BYTE>>
=============================================================================
