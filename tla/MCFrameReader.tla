--------------------------- MODULE MCFrameReader ---------------------------
(***************************************************************************)
(* Streams of up to three items: a frame with bytes to escape, an ACK,     *)
(* noise between frames, the second half of a frame whose start was        *)
(* missed, a frame that is broken off, junk that can fill a buffer,        *)
(* frames that are too short for their length, and one whose length wraps. *)
(***************************************************************************)
EXTENDS FrameReader

\* An item is what goes out in one go, and the frame it stands for, if any.
Whole(f) == [wire |-> OnWire(f), frame |-> f]
Broken(bytes) == [wire |-> bytes, frame |-> Invalid]

StreamOf(items) ==
  LET Wire(n) == FlattenSeq([k \in 1..n |-> items[k].wire])
      sent == SelectSeq([k \in DOMAIN items |-> k], LAMBDA k : items[k].frame # Invalid)
  IN [wire |-> Wire(Len(items)),
      frames |-> [k \in DOMAIN sent |-> items[sent[k]].frame],
      ends |-> [k \in DOMAIN sent |-> Len(Wire(sent[k]))]]

Ack == Whole(FrameBytes(1, 0, <<>>))
Data == Whole(FrameBytes(12, 1, <<62, 61>>))
Noise == Broken(<<7, 60, 60, 8>>)
Tail2 == Broken(<<61, 46, 60>>)
Junk == Broken([k \in 1..12 |-> 9])
CutOff == Broken(<<62, 12, 1, 0, 0>>)
Short == Broken(<<62, 12, 1, 60>>)
LongLength == Broken(<<62, 12, 1, 0, 0, 0, 9, 5, 5, 60>>)
Wraps == Broken(<<62, 12, 1, 255, 255, 255, 253, 5, 5, 60>>)

Items == {Ack, Data, Noise, Tail2, Junk, CutOff, Short, LongLength, Wraps}

MCStreams == {StreamOf(items) : items \in UNION {[1..n -> Items] : n \in 0..3}}
MCPairStreams == {StreamOf(items) : items \in UNION {[1..n -> Items] : n \in 0..2}}

\* Every frame fits the buffer, as FramesInOrder and NothingLeftBehind need it.
ASSUME FramesFit
=============================================================================
