--------------------------- MODULE MCWaveGenerator ---------------------------
(* The generator over the frame manager: which requests the callers queue. *)
EXTENDS WaveGenerator

Shape(null, asp, min, fade, marked, hasEx) ==
    [null |-> null, asp |-> asp, min |-> min, fade |-> fade,
     marked |-> marked, hasEx |-> hasEx]

\* Phones with and without aspiration, pauses with and without an index, a
\* minimum shorter and longer than the fade, a fade of zero.
MCShapes ==
    { Shape(FALSE, FALSE, 2, 1, TRUE,  TRUE),
      Shape(FALSE, TRUE,  0, 2, FALSE, FALSE),
      Shape(TRUE,  FALSE, 1, 0, TRUE,  FALSE) }

\* Phones alone: every gap is an underrun.
MCPhones == {Shape(FALSE, FALSE, 2, 1, FALSE, FALSE)}
=============================================================================
