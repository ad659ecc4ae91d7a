------------------------------- MODULE BatchHash -------------------------------
(***************************************************************************)
(* What the CPU worker pool promises its caller (cpu_worker_pool.h and     *)
(* docs/development/CPU_WORK_SHARING.md, SHUTDOWN_ACCOUNTING.md), without  *)
(* threads: a batch is a set of nonces; some of them get hashed, each at   *)
(* most once; all of them unless the caller's stop flag is raised; the     *)
(* answer is the hashed nonces that meet the target, and the number        *)
(* reported is the number hashed, also when the callback throws.           *)
(***************************************************************************)
EXTENDS Naturals, FiniteSets

CONSTANTS Keys, Targets, Nonces, Solutions, None

VARIABLES
    phase,      \* idle, running, settled or closed
    batch,      \* the batch being answered
    pinned,     \* the last header key and the target pinned to it
    stop,       \* the caller's stop flag
    done,       \* the nonces hashed
    reported,   \* last_hashes_done
    answer      \* how the last run ended

Batches == [key: Keys, target: Targets, nonces: SUBSET Nonces, stop: BOOLEAN]

vars == <<phase, batch, pinned, stop, done, reported, answer>>

Init ==
    /\ phase = "idle"
    /\ batch = None
    /\ pinned = [key |-> None, target |-> None]
    /\ stop = FALSE
    /\ done = {}
    /\ reported = 0
    /\ answer = [kind |-> "none", candidates |-> {}]

(* A batch begins: its target is the one pinned to its header key, and a   *)
(* new header key pins its own.                                            *)
Begin ==
    /\ phase = "idle"
    /\ batch' \in Batches
    /\ pinned.key = batch'.key => batch'.target = pinned.target
    /\ pinned' = [key |-> batch'.key, target |-> batch'.target]
    /\ stop' \in BOOLEAN
    /\ done' = {}
    /\ phase' = "running"
    /\ UNCHANGED <<reported, answer>>

HashMore ==
    /\ phase = "running"
    /\ done' \in {ns \in SUBSET batch.nonces : done \subseteq ns}
    /\ UNCHANGED <<phase, batch, pinned, stop, reported, answer>>

RaiseStop ==
    /\ phase \in {"running", "settled"}
    /\ stop' = TRUE
    /\ UNCHANGED <<phase, batch, pinned, done, reported, answer>>

(* The batch is over: complete, or stopped by its flag.                    *)
Settled == done = batch.nonces \/ (batch.stop /\ stop)

Settle ==
    /\ phase = "running"
    /\ Settled
    /\ reported' = Cardinality(done)
    /\ \/ phase' = "settled" /\ UNCHANGED answer
       \/ phase' = "idle" /\ answer' = [kind |-> "threw", candidates |-> {}]
    /\ UNCHANGED <<batch, pinned, stop, done>>

Return ==
    /\ phase = "settled"
    /\ answer' = [kind |-> "returned",
                  candidates |-> done \cap Solutions[<<batch.key, batch.target>>]]
    /\ phase' = "idle"
    /\ UNCHANGED <<batch, pinned, stop, done, reported>>

Close ==
    /\ phase = "idle"
    /\ phase' = "closed"
    /\ UNCHANGED <<batch, pinned, stop, done, reported, answer>>

Next == Begin \/ HashMore \/ RaiseStop \/ Settle \/ Return \/ Close

Spec == Init /\ [][Next]_vars
=============================================================================
