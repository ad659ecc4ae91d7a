---------------------------- MODULE MCStratumSession ----------------------------
(* An instance of StratumSession for TLC.                                  *)
EXTENDS StratumSession, TLC

CONSTANTS j1, j2, r1, r2

MCRotationOf == j1 :> r1 @@ j2 :> r2
================================================================================
