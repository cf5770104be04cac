---------------------------- MODULE MCAudioUnit ----------------------------
(***************************************************************************)
(* AudioUnit for TLC: two languages and two voices, one value to override  *)
(* with, stored or not at the start, one edit and two requests, before and *)
(* after it or around it.                                                  *)
(***************************************************************************)
EXTENDS AudioUnit
=============================================================================
