---------------------------- MODULE MCAndroidTts ----------------------------
(***************************************************************************)
(* AndroidTts for TLC: two languages, one value to override with, stored   *)
(* or not at the start, one edit, which stores it or takes it back, and    *)
(* one failed load.                                                        *)
(***************************************************************************)
EXTENDS AndroidTts
=============================================================================
