------------------------------ MODULE RotationPlan ------------------------------
(***************************************************************************)
(* How the production worker pool (src/cpu/cpu_worker_pool.cpp) chooses    *)
(* the workers and the CryptoNight widths of a round, and the measurements *)
(* it learns them from (fingerprint_runtime.h).  WorkerPool models what    *)
(* the workers of a round then do.                                         *)
(*                                                                         *)
(* With learning on, a rotation first tries the worker counts, locks one,  *)
(* then tries width policies, each proven on this machine before it is     *)
(* used, and locks one.  Of a measurement its number of samples is kept;   *)
(* which of two measured plans is faster is left open.  env.schedules holds *)
(* the schedules of the jobs of this start: CN variants, the order they come   *)
(* in, and a number; env.legacy the measurements of an earlier version.    *)
(***************************************************************************)
EXTENDS CpuAutotune

CONSTANTS
    WorkerSamples,  \* kRotationWorkerProbeSamples
    WidthSamples,   \* kRotationWidthProbeSamples
    FinalSamples,   \* kRotationWidthFinalSamples
    SaveEvery,      \* a measurement is saved when its samples are a multiple
    SampleBound     \* bound of the model: samples are counted up to here

VARIABLES
    pool,   \* the function-static WorkerPool of mine_cpu_batch, NoPool before
    store   \* the measurements in memory, None before they are loaded

Learning == ~rt.measuring /\ env.learn
-----------------------------------------------------------------------------
(* The measurements.                                                       *)

Key(fp, policy, threads) ==
    [fp |-> fp, policy |-> policy, threads |-> threads, lanes |-> pool.lanes,
     batch |-> FallbackBatch]
SamplesOf(key) == IF key \in DOMAIN store THEN store[key] ELSE 0

\* Worker counts share the measurements of schedules with the same CN
\* variants in the same order, from the first measurement of the schedule itself on.
Shared(fp) ==
    {k \in DOMAIN store : k.fp = fp
        \/ (k.fp.order = fp.order /\ \E own \in DOMAIN store : own.fp = fp)}
WorkerSamplesOf(fp, workers) ==
    LET keys == {k \in Shared(fp) : [k EXCEPT !.fp = fp] = Key(fp, <<"rotation">>, workers)}
    IN  MapThenSumSet(LAMBDA k : store[k], keys)

Readable(file) == file # None /\ file # Cut
LoadedStore ==
    IF Readable(disk.store) /\ DOMAIN disk.store # {} THEN disk.store
    ELSE IF Readable(env.legacy) THEN env.legacy ELSE <<>>
Record(keys) ==
    [k \in keys \cup DOMAIN store |->
        IF k \in keys THEN Min({SamplesOf(k) + 1, SampleBound}) ELSE store[k]]
DueForSave(keys) ==
    \E k \in keys : SamplesOf(k) < SampleBound /\ (SamplesOf(k) + 1) % SaveEvery = 0
-----------------------------------------------------------------------------
(* The choice of a plan.                                                   *)

WorkerCandidates(threads) ==
    LET physical == IF env.cores = <<>> THEN env.hw ELSE Len(env.cores)
    IN  {Max({1, Min({threads, w})}) :
        w \in {threads, threads - 1, threads \div 2} \cup {physical}}

\* The least sampled count, the largest of those, until all have enough
\* samples; then the full count or one that is clearly faster.
WorkerChoices(fp, threads) ==
    LET samples(w) == WorkerSamplesOf(fp, w)
        candidates == WorkerCandidates(threads)
        least == Min({samples(w) : w \in candidates})
    IN  IF least < WorkerSamples
        THEN {[workers |-> Max({w \in candidates : samples(w) = least}), probing |-> TRUE]}
        ELSE {[workers |-> w, probing |-> FALSE] : w \in candidates}

\* The least sampled single change (or the baseline) until all have enough
\* samples; then combinations of one change per variant that did better; then
\* the baseline or a measured policy that is clearly faster.
(* Mutant: a policy that failed its parity test is offered again. *)
MutWidthChoices(fp, workers, rejected) ==
    LET samples(w) == SamplesOf(Key(fp, <<"width", w>>, workers))
        singles == Singles(fp.cn, pool.base)
        Choice(ws, probe) == {[widths |-> w, probing |-> probe] : w \in ws}
        few == {w \in singles : samples(w) < WidthSamples}
    IN  IF few # {} THEN Choice({CHOOSE w \in few : TRUE}, TRUE) ELSE Choice(singles, FALSE)

WidthChoices(fp, workers, rejected) ==
    LET samples(w) == SamplesOf(Key(fp, <<"width", w>>, workers))
        singles == Singles(fp.cn, pool.base) \ rejected
        Choice(ws, probe) == {[widths |-> w, probing |-> probe] : w \in ws}
        few == {w \in singles : samples(w) < WidthSamples}
        Better(v) == {w[v] : w \in {s \in singles : Changed(s, pool.base) = {v}}}
        promising == UNION {[vs -> Widths] : vs \in SUBSET {v \in fp.cn : Better(v) # {}}}
        fits(p) == \A v \in DOMAIN p : p[v] \in Better(v)
        combined(p) == Combinations(pool.base, p) \ rejected
        unproven(p) == {w \in combined(p) : samples(w) < FinalSamples}
    IN  CASE singles = {} -> Choice({pool.base}, FALSE)
          [] few # {} -> Choice({w \in few : \A x \in few : samples(w) <= samples(x)}, TRUE)
          [] pool.base \notin singles -> Choice({pool.base}, FALSE)
          [] OTHER -> UNION {IF unproven(p) # {} THEN Choice(unproven(p), TRUE)
                             ELSE Choice(singles \cup combined(p), FALSE)
                             : p \in {q \in promising : fits(q)}}
-----------------------------------------------------------------------------
(* The pool.  pool.step says what run() or the destructor does next.       *)

NoPool == [step |-> "none"]

MakePool ==
    /\ pool = NoPool
    /\ LET threads == IF cfg.threads = 0 THEN env.hw ELSE cfg.threads
       IN  pool' = [threads |-> threads, lanes |-> rt.lane, base |-> rt.widths,
                    cpus |-> AffinityOrder(rt.affinity, threads), fp |-> None, workers |-> 0,
                    widths |-> None, active |-> threads, validated |-> {}, rejected |-> {},
                    step |-> "idle"]
    /\ UNCHANGED <<rt, store, disk>>

\* What is known of the rotation is forgotten when another one comes.
ForRotation(fp) ==
    IF fp = pool.fp THEN pool
    ELSE [pool EXCEPT !.fp = fp, !.workers = 0, !.widths = None, !.rejected = {}]

\* run() takes the round: the workers, and widths unless they must be chosen.
StartRound ==
    /\ pool.step = "idle" /\ ~stop
    /\ Learning => store # None
    /\ \E fp \in env.schedules :
        LET p == ForRotation(fp) IN
        \E choice \in IF ~Learning THEN {[workers |-> p.threads, probing |-> FALSE]}
                      ELSE IF p.workers # 0 THEN {[workers |-> p.workers, probing |-> FALSE]}
                      ELSE WorkerChoices(fp, p.threads) :
            LET locks == Learning /\ ~choice.probing
                q == [p EXCEPT !.active = choice.workers,
                               !.workers = IF locks THEN choice.workers ELSE @,
                               !.step = IF locks /\ p.widths = None THEN "widths" ELSE "hash"]
            IN  /\ pool' = q
                /\ rt' = [rt EXCEPT !.widths =
                            IF locks /\ p.widths # None THEN p.widths ELSE p.base]
    /\ UNCHANGED <<store, disk>>

(* Mutant: the widths in force are rejected instead of those that failed. *)
MutChooseWidths ==
    /\ pool.step = "widths"
    /\ \E choice \in WidthChoices(pool.fp, pool.active, pool.rejected) :
        IF \/ choice.widths \in pool.validated
           \/ BatchParity(env.kernels, env.combo, pool.fp.cn, choice.widths)
        THEN /\ pool' = [pool EXCEPT !.step = "hash", !.validated = @ \cup {choice.widths},
                            !.widths = IF choice.probing THEN None ELSE choice.widths]
             /\ rt' = [rt EXCEPT !.widths = choice.widths]
        ELSE pool' = [pool EXCEPT !.rejected = @ \cup {rt.widths}] /\ UNCHANGED rt
    /\ UNCHANGED <<store, disk>>

\* One turn of the loop that looks for widths with correct results.  Policies
\* proven under an earlier rotation are not tested again.
ChooseWidths ==
    /\ pool.step = "widths"
    /\ \E choice \in WidthChoices(pool.fp, pool.active, pool.rejected) :
        IF \/ choice.widths \in pool.validated
           \/ BatchParity(env.kernels, env.combo, pool.fp.cn, choice.widths)
        THEN /\ pool' = [pool EXCEPT !.step = "hash", !.validated = @ \cup {choice.widths},
                            !.widths = IF choice.probing THEN None ELSE choice.widths]
             /\ rt' = [rt EXCEPT !.widths = choice.widths]
        ELSE pool' = [pool EXCEPT !.rejected = @ \cup {choice.widths}] /\ UNCHANGED rt
    /\ UNCHANGED <<store, disk>>

\* The workers have hashed; the round is measured unless a stop was requested,
\* or the callback threw and its exception leaves run() here.
EndRound ==
    /\ pool.step = "hash"
    /\ \E thrown \in BOOLEAN :
       LET learn == Learning /\ ~stop /\ ~thrown
           keys == (IF learn /\ rt.widths = pool.base
                    THEN {Key(pool.fp, <<"rotation">>, pool.active)} ELSE {})
                   \cup (IF learn /\ pool.workers # 0
                         THEN {Key(pool.fp, <<"width", rt.widths>>, pool.active)} ELSE {})
       IN  /\ store' = IF learn THEN Record(keys) ELSE store
           /\ pool' = [pool EXCEPT !.step = IF learn /\ DueForSave(keys) THEN "save" ELSE "idle"]
    /\ UNCHANGED <<rt, disk>>

\* The first use of the measurements loads them; old ones are imported and saved.
LoadStore ==
    /\ store = None
    /\ pool.step = "flush" \/ (pool.step = "idle" /\ Learning /\ ~stop)
    /\ store' = LoadedStore
    /\ pool' = IF pool.step = "idle" /\ LoadedStore # disk.store /\ DOMAIN LoadedStore # {}
               THEN [pool EXCEPT !.step = "save"] ELSE pool
    /\ UNCHANGED <<rt, disk>>

\* save_locked: truncate and write; it fails silently.
TruncateStore ==
    /\ store # None /\ pool.step \in {"save", "flush"}
    /\ IF env.readonly THEN disk' = disk ELSE disk' = [disk EXCEPT !.store = Cut]
    /\ pool' = [pool EXCEPT !.step = IF @ = "save" THEN "write" ELSE "flushWrite"]
    /\ UNCHANGED <<rt, store>>

WriteStore ==
    /\ pool.step \in {"write", "flushWrite"}
    /\ IF env.readonly THEN disk' = disk ELSE disk' = [disk EXCEPT !.store = store]
    /\ pool' = IF pool.step = "write" THEN [pool EXCEPT !.step = "idle"] ELSE NoPool
    /\ UNCHANGED <<rt, store>>

\* The destructor runs when the process exits: the workers are joined, the
\* widths restored, and the measurements saved unless measuring.
DestroyPool ==
    /\ pool.step = "idle"
    /\ rt' = [rt EXCEPT !.widths = pool.base]
    /\ pool' = IF rt.measuring THEN NoPool ELSE [pool EXCEPT !.step = "flush"]
    /\ UNCHANGED <<store, disk>>
=============================================================================
