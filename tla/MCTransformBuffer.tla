------------------------- MODULE MCTransformBuffer --------------------------
(***************************************************************************)
(* TransformBuffer for TLC.  Interpolation is symbolic: a blend remembers  *)
(* its two ends and its ratio, so that no two different answers of get are *)
(* confused.                                                               *)
(***************************************************************************)
EXTENDS TransformBuffer

Blend(a, b, num, den) == <<a, b, num, den>>

MCInstants  == 0 .. 4
MCDurations == {-1, 0, 1, 2}

=============================================================================
