--------------------------- MODULE MCFrameEscape ---------------------------
(***************************************************************************)
(* Payloads of up to three bytes: the three that are escaped, the same with *)
(* the mask cleared, and the borders of a byte; and long ones in which     *)
(* every byte is escaped, so that the first guess is far too low.          *)
(***************************************************************************)
EXTENDS FrameEscape

Alphabet == {0, 44, 46, 60, 61, 62, 255}

Payloads == UNION {[1..n -> Alphabet] : n \in 0..3}

MCFrames ==
  {FrameBytes(12, 1, p) : p \in Payloads}
    \cup {FrameBytes(12, 0, [i \in 1..n |-> b]) : n \in {10, 30, 60, 61, 62},
                                                  b \in {7, 61}}
=============================================================================
