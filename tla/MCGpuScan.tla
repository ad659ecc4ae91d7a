------------------------------ MODULE MCGpuScan ------------------------------
(***************************************************************************)
(* A small instance of GpuScan: two GPUs, a full and a shortened scan, two *)
(* jobs.                                                                   *)
(***************************************************************************)
EXTENDS GpuScan
=============================================================================
