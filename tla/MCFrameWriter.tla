--------------------------- MODULE MCFrameWriter ---------------------------
(* Two frames, one longer than the other. *)
EXTENDS FrameWriter

MCFrames == {"a", "b"}
MCEscapedLen == [f \in MCFrames |-> IF f = "a" THEN 3 ELSE 2]
=============================================================================
