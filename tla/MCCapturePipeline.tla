------------------------- MODULE MCCapturePipeline -------------------------
(* Values for TLC: two event sources. *)
EXTENDS CapturePipeline

CONSTANTS host, s1, s2

TwoSources == {s1, s2}
=============================================================================
