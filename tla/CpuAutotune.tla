------------------------------ MODULE CpuAutotune ------------------------------
(***************************************************************************)
(* production_autotune (src/cpu/cpu_autotune.cpp) with the CPU topology it *)
(* pins workers by (cpu_topology.h): the workers, batch, CryptoNight       *)
(* widths and affinity the CPU mines with, found by benchmarks or loaded   *)
(* from the cache of an earlier start.                                     *)
(*                                                                         *)
(* Benchmarks are not timed: where the code compares two rates, either     *)
(* may win, and once a stop was requested every rate is 0 and nothing      *)
(* wins.  A stop arrives between the actions.  A benchmark leaves its      *)
(* widths and no measurement mode behind, as its guard does.  A cache file *)
(* is truncated and then written, so a kill in between leaves it Cut.      *)
(***************************************************************************)
EXTENDS CnHash, FiniteSetsExt, TLC, SequencesExt

CONSTANTS
    Cut,            \* content of a file that was truncated and not yet written
    QuickBatches,   \* batches_for in every mode but full: 16 and 32
    FullBatches     \* batches_for in full mode

VARIABLES
    env,    \* the machine and the environment variables of this start
    cfg,    \* AppConfig
    disk,   \* the cache directory
    rt,     \* runtime lane width, CN widths, affinity and measurement mode
    stop,   \* g_mining_stop_requested
    tune    \* where production_autotune is, and what it returns
-----------------------------------------------------------------------------
(* CPU topology.  env.cores lists the CPUs of every core, by core id.      *)

\* The first CPU of every core, then the second of those that have one, ...:
\* a slot is the rank of a CPU in its core, and the core.
Slots(cores) == UNION {(1 .. Len(cores[c])) \X {c} : c \in DOMAIN cores}
Before(a, b) == a[1] < b[1] \/ (a[1] = b[1] /\ a[2] < b[2])
SlotOrder(cores) ==
    CHOOSE order \in [1 .. Cardinality(Slots(cores)) -> Slots(cores)] :
        \A i, j \in DOMAIN order : i < j => Before(order[i], order[j])
PhysicalFirstOrder(cores) ==
    LET order == SlotOrder(cores) IN [i \in DOMAIN order |-> cores[order[i][2]][order[i][1]]]

\* The CPU of each worker that is pinned, in worker order.
(* Mutant: one CPU for every core, workers beyond them wrap around. *)
MutAffinityOrder(affinity, workers) ==
    IF affinity # "physical" THEN <<>>
    ELSE [i \in 1 .. workers |-> env.cores[1 + ((i - 1) % Len(env.cores))][1]]

AffinityOrder(affinity, workers) ==
    LET order == PhysicalFirstOrder(env.cores)
    IN  IF affinity = "physical" THEN SubSeq(order, 1, Min({workers, Len(order)})) ELSE <<>>
-----------------------------------------------------------------------------
(* Plans and the cache.                                                    *)

Ceiling == IF cfg.threads = 0 THEN env.hw ELSE Min({cfg.threads, env.hw})
FallbackBatch == IF cfg.batch = 0 THEN 16 ELSE cfg.batch
Untuned == [threads |-> Ceiling, lanes |-> 1, batch |-> FallbackBatch,
            widths |-> Scalar, affinity |-> "unpinned"]

BatchesFor ==
    (IF cfg.mode = "full" THEN FullBatches ELSE QuickBatches)
        \cup ({FallbackBatch} \cap (1 .. 128))
WorkersFor ==
    IF cfg.mode = "full" THEN 1 .. Ceiling
    ELSE {Ceiling, Max({1, Ceiling \div 2})} \cup ({Ceiling - 1} \ {0})
Plans == WorkersFor \X BatchesFor

WidthParity(widths) ==
    \A r \in Representative : BatchParity(env.kernels, env.combo, r, widths)

\* Caches of this mode for this or a higher ceiling whose plan fits and whose
\* widths still hash right on this machine and build.
Compatible ==
    {c \in Ceiling .. env.hw :
        /\ ~env.retune
        /\ <<c, cfg.mode>> \in DOMAIN disk.policy
        /\ disk.policy[<<c, cfg.mode>>] # Cut
        /\ disk.policy[<<c, cfg.mode>>].threads <= Ceiling
        /\ WidthParity(disk.policy[<<c, cfg.mode>>].widths)}
-----------------------------------------------------------------------------
(* The search.                                                             *)

IdleTune == [step |-> "idle", left |-> {}, best |-> None, variant |-> 0, queue |-> <<>>,
             cached |-> FALSE, interrupted |-> FALSE]

\* A benchmark of these widths: what it leaves in the runtime settings, and
\* whether its rate may beat another.
Measured(affinity, widths) ==
    IF stop THEN [rt EXCEPT !.affinity = affinity]
    ELSE [rt EXCEPT !.affinity = affinity, !.widths = widths, !.measuring = FALSE]
MayWin == IF stop THEN {FALSE} ELSE BOOLEAN

Interrupt == tune' = [tune EXCEPT !.step = "returned", !.interrupted = TRUE] /\ UNCHANGED rt

TuningOff == cfg.mode = "off" \/ env.disable

\* The call: no tuning, a cached policy (any of them may be the fastest), or
\* a search.  A policy found under another ceiling is saved under this one.
BeginTuning ==
    \/ /\ TuningOff
       /\ tune' = [IdleTune EXCEPT !.step = "returned", !.best = Untuned]
       /\ rt' = [rt EXCEPT !.affinity = "unpinned"]
    \/ /\ ~TuningOff /\ Compatible = {}
       /\ tune' = [IdleTune EXCEPT !.step = "plans", !.left = Plans, !.best = Untuned]
       /\ rt' = [rt EXCEPT !.affinity = "unpinned"]
    \/ /\ ~TuningOff
       /\ \E c \in Compatible :
            LET found == disk.policy[<<c, cfg.mode>>]
            IN  /\ tune' = [IdleTune EXCEPT !.best = found, !.cached = TRUE,
                            !.step = IF c = Ceiling THEN "returned" ELSE "save"]
                /\ rt' = [rt EXCEPT !.widths = found.widths, !.affinity = found.affinity]

TestPlan ==
    /\ tune.step = "plans" /\ tune.left # {}
    /\ IF stop THEN Interrupt
       ELSE \E p \in tune.left, wins \in MayWin :
            /\ tune' = [tune EXCEPT !.left = @ \ {p},
                        !.best = IF wins THEN [@ EXCEPT !.threads = p[1], !.batch = p[2]] ELSE @]
            /\ rt' = Measured("unpinned", Scalar)

\* The strongest plans again; a stop from here to the widths only spoils rates.
ConfirmPlans ==
    /\ tune.step = "plans" /\ tune.left = {}
    /\ IF stop THEN Interrupt
       ELSE \E p \in Plans :
            /\ tune' = [tune EXCEPT !.step = "variants",
                        !.best = [@ EXCEPT !.threads = p[1], !.batch = p[2]]]
            /\ rt' = Measured("unpinned", Scalar)

NextVariant(t) ==
    IF t.queue = <<>> THEN [t EXCEPT !.step = "variants", !.variant = @ + 1] ELSE t

\* The wider kernels that agree on their own and are clearly faster there,
\* in any order: the faster is tried first.
ProbeVariant ==
    /\ tune.step = "variants" /\ tune.variant < VariantCount
    /\ IF stop THEN Interrupt
       ELSE /\ \E q \in {<<>>, <<2>>, <<4>>, <<2, 4>>, <<4, 2>>} :
                 /\ \A i \in DOMAIN q : StageParity(env.kernels, tune.variant, q[i])
                 /\ tune' = NextVariant([tune EXCEPT !.step = "widths", !.queue = q])
            /\ UNCHANGED rt

\* A wider kernel in the whole hash: promoted if faster and right there too.
ConfirmWidth ==
    /\ tune.step = "widths"
    /\ LET candidate == WithWidth(tune.best.widths, tune.variant, Head(tune.queue))
       IN  \E wins \in MayWin :
            /\ tune' = NextVariant(
                 IF wins /\ WidthParity(candidate)
                 THEN [tune EXCEPT !.best.widths = candidate, !.queue = <<>>]
                 ELSE [tune EXCEPT !.queue = Tail(@)])
            /\ rt' = Measured("unpinned", candidate)

ChooseAffinity ==
    /\ tune.step = "variants" /\ tune.variant = VariantCount
    /\ \E pinned \in MayWin :
        LET affinity == IF pinned /\ env.cores # <<>> /\ tune.best.threads <= env.hw
                        THEN "physical" ELSE "unpinned"
        IN  /\ tune' = [tune EXCEPT !.step = "validate", !.best.affinity = affinity,
                        !.best.lanes = MaxWidth(tune.best.widths)]
            /\ rt' = [Measured(affinity, tune.best.widths) EXCEPT !.widths = tune.best.widths]

FinalValidation ==
    /\ tune.step = "validate"
    /\ LET ok == WidthParity(tune.best.widths)
           final == IF ok THEN tune.best
                    ELSE [tune.best EXCEPT !.widths = Scalar, !.lanes = 1, !.affinity = "unpinned"]
       IN  /\ tune' = [tune EXCEPT !.step = "save", !.best = final]
           /\ rt' = [Measured(final.affinity, final.widths) EXCEPT !.widths = final.widths]

\* save_cache: the file is truncated, or cannot be opened, ...
TruncatePolicy ==
    /\ tune.step = "save"
    /\ IF env.readonly
       THEN tune' = [tune EXCEPT !.step = "returned"] /\ UNCHANGED disk
       ELSE /\ tune' = [tune EXCEPT !.step = "write"]
            /\ disk' = [disk EXCEPT !.policy = [key \in DOMAIN @ \cup {<<Ceiling, cfg.mode>>} |->
                            IF key = <<Ceiling, cfg.mode>> THEN Cut ELSE disk.policy[key]]]
    /\ UNCHANGED rt

\* ... and the policy is written, a few bytes that reach it in one piece.
WritePolicy ==
    /\ tune.step = "write"
    /\ tune' = [tune EXCEPT !.step = "returned"]
    /\ disk' = [disk EXCEPT !.policy[<<Ceiling, cfg.mode>>] = tune.best]
    /\ UNCHANGED rt

TuneStep ==
    /\ \/ (TestPlan \/ ConfirmPlans \/ ProbeVariant \/ ConfirmWidth
            \/ ChooseAffinity \/ FinalValidation) /\ UNCHANGED disk
       \/ TruncatePolicy \/ WritePolicy
    /\ UNCHANGED <<env, cfg, stop>>
=============================================================================
