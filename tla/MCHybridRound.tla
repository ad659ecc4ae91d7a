----------------------------- MODULE MCHybridRound -----------------------------
(***************************************************************************)
(* Small instances of HybridRound: one or two GPUs with a region of a few  *)
(* nonces, a CPU region of two or three batches.                           *)
(***************************************************************************)
EXTENDS HybridRound
================================================================================
