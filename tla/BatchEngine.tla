------------------------------ MODULE BatchEngine ------------------------------
(***************************************************************************)
(* The host side of a GPU's batch engine (src/cuda/cuda_backend.cu and the *)
(* fragments it includes; fast_lite_growth.h): how many nonces a scan of   *)
(* the loaded job takes, and which launch geometry the CryptoNight loop    *)
(* uses for that many.                                                     *)
(*                                                                         *)
(* The live tuning state belongs to a batch: activating another batch      *)
(* saves it in a slot and restores or resets it.  A scan launches with the *)
(* live state, samples a geometry while a retune is on, and selects one    *)
(* after enough samples.  One CryptoNight variant, used by every rotation, *)
(* stands for the six.  The operators here are the methods of the class;   *)
(* LatencyBatch holds the client that calls them.                          *)
(***************************************************************************)
EXTENDS Integers, FiniteSets, FiniteSetsExt

CONSTANTS
    Rotations,      \* kinds of job: which CryptoNight variants it uses
    Page,           \* bytes of the largest scratchpad of the rotation
    Preferred,      \* variant_batches of the variants it uses
    ClassBatch,     \* class_batches of its scratchpad class
    FastLite,       \* the rotations that use both Fast and Lite
    Capacity,       \* batch_capacity: nonces the buffers were allocated for
    Budget,         \* scratchpad_budget_bytes
    Align,          \* batch_quantum, and the 128 of the growth
    Caps,           \* stale_batch_cap of an upload, 0 for none
    MinTuned,       \* stale_batch_cap_min_tuned
    Samples,        \* geometry candidates times passes
    SlotCount,      \* kGpuVariantRuntimeBatchSlots, 8 in the code
    None

ASSUME BatchEngineAssumption ==
    /\ Page \in [Rotations -> Nat \ {0}]
    /\ \A r \in Rotations : Preferred[r] \subseteq Nat /\ ClassBatch[r] \in Nat
    /\ FastLite \subseteq Rotations
    /\ {Capacity, Budget, Align, Samples, SlotCount} \subseteq Nat \ {0}
    /\ Caps \subseteq Nat /\ 0 \in Caps /\ MinTuned \in Nat
    /\ None \notin Rotations

VARIABLES
    retune,     \* a geometry retune was asked for
    experiment, \* an experimental kernel was asked for, and what its parity test said
    job,        \* host_job: its rotation, None before the first upload
    cap,        \* stale_batch_cap
    size,       \* batch_size
    grown,      \* fast_lite_grown_job
    active,     \* g_gpu_variant_runtime_active_count
    live,       \* selector and geometry state of the active batch
    slots,      \* what activating other batches saved
    files       \* geometry cache: batches whose timings chose a batch's geometry

engineVars == <<retune, experiment, job, cap, size, grown, active, live, slots, files>>
-----------------------------------------------------------------------------
(* Batch of a job.                                                         *)

\* (value / quantum) * quantum, applied from one quantum up.
RoundTo(n, q) == IF n >= q THEN (n \div q) * q ELSE n

(* Mutant: the byte budget is left out. *)
MutSafe(r) == Max({1, Capacity})

\* memory_safe_batch: what capacity and scratchpad bytes allow.
Safe(r) == Max({1, Min({Capacity, Budget \div Page[r]})})

\* The least preferred batch of the variants, or the batch of the class, or
\* when the class has none a batch derived from memory.
Tuned(r) ==
    IF Preferred[r] # {} /\ Preferred[r] \subseteq 1..Capacity
    THEN {Min(Preferred[r])}
    ELSE IF ClassBatch[r] \in 1..Capacity THEN {ClassBatch[r]} ELSE 1..Capacity

\* upload_job's adaptive_batch, for a tuned batch t and a stale cap c.
AdaptiveBatch(r, t, c) ==
    LET safe == Min({t, Safe(r)})
        capped == Max({1, RoundTo(Min({c, Safe(r)}), Align)})
    IN RoundTo(IF c > 0 /\ safe >= MinTuned THEN Min({safe, capped}) ELSE safe, Align)

\* fast_lite_growth_target: a quarter more, within the limit, aligned.
GrowthTarget(base, limit) ==
    IF base = 0 \/ limit <= base THEN base
    ELSE Max({base, (Min({base + base \div 4, limit}) \div Align) * Align})
-----------------------------------------------------------------------------
(* Tuning state of a batch.                                                *)

\* A default-constructed selector ("loop") and geometry.  at holds the
\* batches that the samples of the geometry were taken with.
Fresh == [loop |-> "new", init |-> FALSE, selected |-> FALSE, count |-> 0,
          samples |-> 0, at |-> {}]

NoSlot == [count |-> 0, state |-> Fresh]

\* gpu_variant_runtime_writable_slot: the slot of the batch, a free one, or
\* a fixed one to replace.
WritableSlot(n) ==
    LET own  == {i \in DOMAIN slots : slots[i].count = n}
        free == {i \in DOMAIN slots : slots[i].count = 0}
    IN IF own # {} THEN Min(own) ELSE IF free # {} THEN Min(free) ELSE n % SlotCount

(* Mutant: the state of the batch that is left is not saved. *)
MutSaved == slots

\* gpu_variant_runtime_save_active
Saved == IF active = 0 THEN slots
         ELSE [slots EXCEPT ![WritableSlot(active)] = [count |-> active, state |-> live]]

\* gpu_variant_activate_runtime_batch: the slots and the live state after it.
SlotsFor(n) == IF active = n THEN slots ELSE Saved

LiveFor(n) ==
    LET own == {i \in DOMAIN slots : SlotsFor(n)[i].count = n}
    IN IF active = n THEN live
       ELSE IF own = {} THEN Fresh ELSE SlotsFor(n)[Min(own)].state

Activate(n) == active' = n /\ slots' = SlotsFor(n) /\ live' = LiveFor(n)

\* What a cache file says the geometry of a batch was timed on, if it is read.
CachedAt(n) == IF retune THEN {} ELSE files[n]

\* A geometry that has just been selected is saved for its batch.
SaveGeometry(g, s) ==
    files' = IF s.selected /\ ~g.selected THEN [files EXCEPT ![s.count] = s.at] ELSE files

\* initialize_cn_production_geometry with the cache it loads: selected at
\* once from the file of this batch, or at the baseline, unless retuning.
Initialized(n) ==
    [Fresh EXCEPT !.loop = "chosen", !.init = TRUE, !.count = n,
        !.selected = ~retune, !.at = CachedAt(n)]

(* Mutant: the choice comes one sample late. *)
MutSampled(t, n) == [t EXCEPT !.samples = @ + 1, !.at = @ \cup {n},
                              !.selected = t.samples = Samples]

\* record_cn_production_geometry_sample: with the last pass of the last
\* candidate the best is selected and saved for the batch of the geometry.
Sampled(t, n) == [t EXCEPT !.samples = @ + 1, !.at = @ \cup {n},
                           !.selected = t.samples + 1 = Samples]

(* Mutant: the batch that runs is sampled whatever is being tuned. *)
MutSampling(t, n) == ~t.selected

\* A batch other than the one being tuned runs at the baseline, unsampled.
Sampling(t, n) == ~t.selected /\ t.count = n

\* An experimental kernel is tested for parity at its first launch.
Experiment ==
    experiment' \in IF experiment = "untested" THEN {"pass", "fail"} ELSE {experiment}

\* initialize_cn_production_selector: a new selector is chosen at once, from
\* its cache, a parity that failed or by default; a retune may have it timed.
SelectorStates(t) ==
    IF t.loop # "new" THEN {t.loop} ELSE IF retune THEN {"timed", "chosen"} ELSE {"chosen"}

\* launch_cn_loop_block_tuned from tuning state t: an experiment that passed
\* replaces selectors and geometry; else the kernel selector comes first,
\* for as many launches as its timing takes, then the geometry.
LaunchLoop(n, t) ==
    /\ Experiment
    /\ LET g == IF t.init THEN t ELSE Initialized(n)
           s == IF Sampling(g, n) THEN Sampled(g, n) ELSE g
       IN \/ experiment' = "pass" /\ live' = t /\ UNCHANGED files
          \/ /\ experiment' # "pass" /\ "timed" \in SelectorStates(t)
             /\ \E loop \in {"timed", "chosen"} : live' = [t EXCEPT !.loop = loop]
             /\ UNCHANGED files
          \/ /\ experiment' # "pass" /\ "chosen" \in SelectorStates(t)
             /\ live' = s
             /\ SaveGeometry(g, s)

\* launch_split_cryptonight_variant_phase_backend: with everything selected
\* the staggered scheduler may take the launch, and nothing is tuned.
LaunchPhases(n, t) ==
    \/ t.loop = "chosen" /\ t.selected /\ live' = t /\ UNCHANGED <<experiment, files>>
    \/ LaunchLoop(n, t)
-----------------------------------------------------------------------------
(* Methods.                                                                *)

EngineInit ==
    /\ retune \in BOOLEAN
    /\ experiment \in {"off", "untested"}
    /\ job = None /\ cap = 0 /\ size = Capacity /\ grown = FALSE
    /\ active = 0 /\ live = Fresh
    /\ slots = [i \in 0..SlotCount - 1 |-> NoSlot]
    /\ files = [n \in 1..Capacity |-> {}]

\* upload_job, after set_stale_batch_cap, of a job whose batch comes to n;
\* the caller may set another batch right away.
EngineUpload(r, c, n) ==
    /\ job' = r /\ cap' = c /\ grown' = FALSE
    /\ Activate(n)
    /\ UNCHANGED <<retune, experiment, files>>

\* try_grow_fast_lite_batch: the batch it leaves the engine with.
GrownBatch(base) ==
    LET limit  == Min({Capacity, Budget \div Page[job]})
        target == GrowthTarget(base, limit)
    IN IF job \notin FastLite \/ size # base THEN size
       ELSE IF cap > 0 /\ target >= MinTuned THEN GrowthTarget(base, Min({limit, cap}))
       ELSE target

EngineGrow(base) ==
    IF GrownBatch(base) <= base \/ job \notin FastLite
    THEN UNCHANGED <<size, grown, active, live, slots>>
    ELSE /\ size' = GrownBatch(base) /\ grown' = TRUE
         /\ Activate(GrownBatch(base))

\* scan, after set_active_batch_size(n): of a grown job the tuning state
\* follows the batch of the scan.
EngineScan(n) ==
    /\ n \in 1..Capacity /\ job # None
    /\ size' = n
    /\ IF grown THEN active' = n /\ slots' = SlotsFor(n) /\ LaunchPhases(n, LiveFor(n))
       ELSE UNCHANGED <<active, slots>> /\ LaunchPhases(n, live)
    /\ UNCHANGED <<retune, job, cap, grown>>
=============================================================================
