-------------------------- MODULE MCSpeechdModule --------------------------
(***************************************************************************)
(* SpeechdModule for TLC: two messages, two STOPs and one other command, so*)
(* that a STOP can be late for the first message and early for the second. *)
(***************************************************************************)
EXTENDS SpeechdModule
=============================================================================
