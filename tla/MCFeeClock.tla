------------------------------ MODULE MCFeeClock ------------------------------
(***************************************************************************)
(* Small instances of FeeClock: an hour of a few units.                    *)
(***************************************************************************)
EXTENDS FeeClock
================================================================================
