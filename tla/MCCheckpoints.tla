---------------------------- MODULE MCCheckpoints ---------------------------
(***************************************************************************)
(* Instances of Checkpoints for TLC.                                       *)
(***************************************************************************)
EXTENDS Checkpoints

CONSTANTS h1, h2, s1, s2, raw, corrected
=============================================================================
