---------------------------- MODULE MCNvdaDriver ----------------------------
(***************************************************************************)
(* NvdaDriver for TLC.  An utterance of two clauses, one of one clause and *)
(* a cancel let a cancelled utterance, the cancel's own wake-up and a      *)
(* fresh utterance be in the threads at once.                              *)
(***************************************************************************)
EXTENDS NvdaDriver

MCChunks == <<2, 1>>
=============================================================================
