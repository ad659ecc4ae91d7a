----------------------------- MODULE MCWorkerPool -----------------------------
(***************************************************************************)
(* Small instances of WorkerPool.  The nonce space is 32 instead of 2^32,  *)
(* so that the second batch wraps; every third nonce, shifted by the key,  *)
(* meets the easy target and every sixth the hard one.                     *)
(***************************************************************************)
EXTENDS WorkerPool

MCSolutions == [kt \in Keys \X Targets |->
    {n \in Nonces : n % (IF kt[2] = "easy" THEN 3 ELSE 6) = (IF kt[1] = "k1" THEN 0 ELSE 1)}]

Call(k, t, s, c, stop, service, learning) ==
    [key |-> k, target |-> t, start |-> s, count |-> c, stop |-> stop,
     service |-> service, learning |-> learning]

(* A hybrid batch with stop flag and service that wraps the nonces; a tiny *)
(* batch for the same header with another target, as after set_difficulty. *)
MCRequests == {
    Call("k1", "easy", 26, 9, TRUE, TRUE, TRUE),
    Call("k1", "hard", 0, 1, TRUE, FALSE, FALSE)}

(* Three workers, uneven slices: a stoppable learning batch that wraps, an *)
(* uninterruptible tuning batch with a callback, an empty batch.           *)
MCUneven == {
    Call("k1", "easy", 30, 1, TRUE, FALSE, TRUE),
    Call("k2", "easy", 7, 1, FALSE, TRUE, FALSE),
    Call("k2", "hard", 0, 0, FALSE, FALSE, FALSE)}
=============================================================================
