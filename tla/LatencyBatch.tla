------------------------------ MODULE LatencyBatch ------------------------------
(***************************************************************************)
(* How the client sizes the batches of one GPU (src/stratum/stratum.cpp:   *)
(* upload_gpu_job, seed_gpu_batch_from_live_memory, launch_next_scan,      *)
(* adapt_gpu_batch_after_scan, the live batch cache).                      *)
(*                                                                         *)
(* A job starts from the batch of the engine, or with the latency target   *)
(* on from what a cache or the memory of its rotation says.  Scans close   *)
(* to the end of a job, and one at its start, run short and count for      *)
(* nothing.  Every other scan moves the batch toward the target; when the  *)
(* latency is right the next larger batch is probed, and kept only if its  *)
(* throughput beats the one measured on the batch it was probed from.      *)
(* With the target off, a Fast/Lite job may grow once instead.             *)
(*                                                                         *)
(* Latency is in percent of the target.  Of a throughput average only the  *)
(* batches it was measured on are kept, 0 for a value that was reset to    *)
(* zero; which of two throughputs is larger is chosen freely.              *)
(***************************************************************************)
EXTENDS BatchEngine

CONSTANTS
    Quantum,        \* kBatchQuantum, 256 in the code
    MinBatch,       \* kAbsoluteMinimum and kTransitionMinBatch, 1024
    OpeningBatch,   \* kOpeningCachedBatch, 3584
    Latencies,      \* scan_ms in percent of the target
    Stable,         \* good scans before a probe, 3
    MarginalWins,   \* kMarginalWinsRequired, 3
    LostCooldown,   \* good scans skipped after a lost probe, 4
    WonCooldown,    \* after a kept or repeated one, 2
    Confirmed,      \* clean scans that confirm a saved batch, 4
    Reopen,         \* kReopenBaselineSamples, 6
    CleanScans,     \* scans before a growth, 3
    CnFamily,       \* CryptoNight family of a rotation, the cn_mask of its jobs
    Seeds           \* family batches an earlier process may have saved, 0 for none

ASSUME LatencyBatchAssumption ==
    /\ {Quantum, MinBatch, OpeningBatch, Stable, MarginalWins, LostCooldown, WonCooldown,
        Confirmed, Reopen, CleanScans} \subseteq Nat \ {0}
    /\ Latencies \subseteq Nat \ {0} /\ Seeds \subseteq Nat
    /\ DOMAIN CnFamily = Rotations
    /\ Confirmed > 2 /\ Reopen >= Confirmed /\ OpeningBatch <= Capacity

Sizes == 0..Capacity
Families == {CnFamily[r] : r \in Rotations}

\* The shape of a scan that is dispatched.
Flight == [count : 1..Capacity, learned : 1..Capacity, short : BOOLEAN]

\* RotationLatencyMemory.  kept, exact, unsure: persisted_batch, whether its
\* fingerprint is this rotation's, persisted_provisional.
Memory == [samples : 0..2, batch : Sizes, clean : 0..Reopen, over : SUBSET Sizes,
           probe : Sizes, from : Sizes, against : SUBSET Sizes,
           cooldown : 0..Max({LostCooldown, WonCooldown}), stable : 0..Stable - 1,
           marginal : Sizes, wins : 0..MarginalWins - 1, rejected : Sizes,
           proven : Sizes, overruns : 0..2,
           kept : Sizes, exact : BOOLEAN, unsure : BOOLEAN]

ASSUME FlightAssumption == None \notin Flight

VARIABLES
    latency,    \* gpu_latency_target_ms() > 0
    due,        \* a job has arrived that is not uploaded
    base,       \* latency_base_batch
    opening,    \* opening_scan_shape_pending
    growth,     \* fast_lite_growth: clean scans, and whether it was tried
    flight,     \* the scan dispatched and not yet taken
    memory,     \* rotation_latency_memory
    cache,      \* live batch cache: entry of a rotation
    family      \* live batch cache: entry of a CryptoNight family

clientVars == <<latency, due, base, opening, growth, flight, memory, cache, family>>
vars == <<engineVars, clientVars>>
-----------------------------------------------------------------------------
Clamp(n, low, high) == Max({low, Min({n, high})})
Down(n) == (n \div Quantum) * Quantum

\* FastLiteGrowthState of a job that has just come.
NoGrowth == [clean |-> 0, tried |-> FALSE]

\* gpu_latency_floor_for_base, without an override
Floor(b) == Min({b, Max({MinBatch, Down(b \div 4)})})

\* The batches that a prediction from ms_per_hash_ewma may ask for.
Desired(b) == {Clamp(Down(n), Floor(b), b) : n \in 0..b}

NoMemory == [samples |-> 0, batch |-> 0, clean |-> 0, over |-> {0},
             probe |-> 0, from |-> 0, against |-> {0}, cooldown |-> 0, stable |-> 0,
             marginal |-> 0, wins |-> 0, rejected |-> 0, proven |-> 0, overruns |-> 0,
             kept |-> 0, exact |-> FALSE, unsure |-> FALSE]

NoEntry == [batch |-> 0, unsure |-> FALSE, rejected |-> 0]

\* The batch the worker has learned: a short scan is in flight instead of it.
Learned == IF flight # None /\ flight.short THEN flight.learned ELSE size

WithoutProbe(m) == [m EXCEPT !.probe = 0, !.from = 0, !.against = {0}, !.stable = 0]
-----------------------------------------------------------------------------
(* Live batch cache.                                                       *)

\* save_live_batch_cache writes the whole entry, and for a confirmed batch
\* blends it into that of the family.
SaveBatch(r, n, unsure) ==
    /\ cache' = [cache EXCEPT ![r] = [batch |-> n, unsure |-> unsure, rejected |-> 0]]
    /\ family' = IF unsure THEN family
                 ELSE [family EXCEPT ![CnFamily[r]] =
                        IF @ >= Quantum THEN Max({Quantum, Down((3 * @ + n) \div 4)}) ELSE n]

\* save_live_probe_rejection changes an entry that exists.
SaveRejection(r, n) ==
    /\ cache' = [cache EXCEPT ![r].rejected = IF cache[r].batch = 0 THEN @ ELSE n]
    /\ UNCHANGED family

NoSave == UNCHANGED <<cache, family>>

\* seed_gpu_batch_from_live_memory, with load_live_batch_cache: the batch an
\* upload of rotation r ends with, when the engine's own is b.
Seed(r, b) ==
    LET m     == WithoutProbe(memory[r])
        exact == cache[r].batch # 0
        entry == IF exact THEN cache[r].batch ELSE family[CnFamily[r]]
    IN IF ~latency THEN size' = b /\ UNCHANGED memory
       ELSE IF entry \in Floor(b)..b /\ entry % Quantum = 0
       THEN /\ size' = entry
            /\ memory' = [memory EXCEPT ![r] =
                 [m EXCEPT !.kept = entry, !.exact = exact,
                           !.unsure = exact /\ cache[r].unsure,
                           !.rejected = IF exact THEN cache[r].rejected ELSE @]]
       ELSE /\ memory' = [memory EXCEPT ![r] = m]
            /\ \E n \in IF m.samples < 2 THEN {b} ELSE Desired(b) :
                 LET d == IF m.proven \in Floor(b)..b THEN Max({n, m.proven}) ELSE n
                 IN size' = IF m.samples >= 2 /\ b - d >= Quantum THEN d ELSE b
-----------------------------------------------------------------------------
(* Jobs and scans.                                                         *)

\* A mining.notify, read at any time.
JobArrives ==
    /\ ~due /\ due' = TRUE
    /\ UNCHANGED <<engineVars, latency, base, opening, growth, flight, memory, cache, family>>

\* upload_gpu_job: the scan in flight is drained; the hedge falls to one GPU
\* in turn, as does the stale cap.
Upload(r, c, t) ==
    /\ due /\ due' = FALSE
    /\ flight' = None
    /\ LET b == AdaptiveBatch(r, t, c)
       IN /\ EngineUpload(r, c, b)
          /\ base' = b
          /\ Seed(r, b)
    /\ opening' \in BOOLEAN
    /\ growth' = NoGrowth
    /\ UNCHANGED <<latency, cache, family>>

\* transition_batch_for_worker: less than the learned batch once the time
\* left is short, and the lifetime of jobs and the speed are known.
Transition(n) == {n} \cup {m \in MinBatch..n : m = MinBatch \/ m % Quantum = 0}

\* launch_next_scan and dispatch_gpu_scan, and the scan of the engine
Launch(n) ==
    /\ ~due /\ job # None /\ flight = None
    /\ n \in Transition(size)
    /\ LET hedge == opening /\ size > OpeningBatch
           count == IF hedge THEN Min({n, OpeningBatch}) ELSE n
       IN /\ flight' = [count |-> count, learned |-> size, short |-> count < size]
          /\ EngineScan(count)
    /\ opening' = FALSE
    /\ UNCHANGED <<latency, due, base, growth, memory, cache, family>>

\* take_gpu_scan_result gives the engine its learned batch back.
Take == flight # None /\ flight' = None

Clean == flight # None /\ ~due /\ ~flight.short

\* The memory and the batch after a scan that counted, and what was saved.
LearnedFrom(m, n) ==
    /\ Take
    /\ memory' = [memory EXCEPT ![job] = m] /\ size' = n
    /\ UNCHANGED <<retune, experiment, job, cap, grown, active, live, slots, files,
                   latency, due, base, opening, growth>>

\* A stale or short result, or any without a latency target, leaves the
\* memory alone; without one a job may grow (FastLiteGrowthState::ready).
Unused(old) ==
    /\ Take /\ ~(latency /\ Clean)
    /\ LET ready == /\ ~latency /\ Clean /\ ~growth.tried
                    /\ job \in FastLite /\ size = base /\ flight.count = base
           clean == Min({growth.clean + 1, CleanScans})
       IN IF ~ready THEN size' = Learned /\ UNCHANGED <<growth, grown, active, live, slots>>
          ELSE IF clean < CleanScans \/ ~old
          THEN /\ growth' = [growth EXCEPT !.clean = clean]
               /\ UNCHANGED <<size, grown, active, live, slots>>
          ELSE /\ growth' = [clean |-> clean, tried |-> TRUE]
               /\ EngineGrow(base)
    /\ UNCHANGED <<retune, experiment, job, cap, files,
                   latency, due, base, opening, memory, cache, family>>
-----------------------------------------------------------------------------
(* What a clean scan of n nonces teaches.                                  *)

(* Mutant: a baseline that was reset is averaged with, not started anew. *)
MutObserved(m, n) ==
    LET s == [m EXCEPT !.samples = Min({@ + 1, 2})]
    IN IF m.probe = n THEN s
       ELSE IF m.batch # n THEN [s EXCEPT !.batch = n, !.over = {n}, !.clean = 1]
       ELSE [s EXCEPT !.over = @ \cup {n}, !.clean = Min({@ + 1, Reopen})]

\* The baseline belongs to one batch and starts anew after a reset.
Observed(m, n) ==
    LET s == [m EXCEPT !.samples = Min({@ + 1, 2})]
    IN IF m.probe = n THEN s
       ELSE IF m.batch # n \/ m.clean = 0
       THEN [s EXCEPT !.batch = n, !.over = {n}, !.clean = 1]
       ELSE [s EXCEPT !.over = @ \cup {n}, !.clean = Min({@ + 1, Reopen})]

\* The first scan of a recalled batch is not held against it.
RecalledSlow(m, n, ms) == m.kept = n /\ m.samples = 0 /\ ms > 120

\* A probe is kept on a clear gain, or on a small one as often as required;
\* a lost one is remembered, and its baseline measured anew.
ProbeResult(ms, gain) ==
    /\ latency /\ Clean
    /\ LET n == flight.count
           m == memory[job]
           o == Observed(m, n)
           good     == ms <= IF gain = "clear" THEN 115 ELSE 110
           marginal == gain = "small" /\ good
           wins     == IF m.marginal = n THEN m.wins + 1 ELSE 1
           keep     == (gain = "clear" /\ good) \/ (marginal /\ wins >= MarginalWins)
           back     == Clamp(m.from, Floor(base), base)
           p        == WithoutProbe(o)
       IN /\ m.probe = n /\ ~RecalledSlow(m, n, ms)
          /\ \/ /\ keep
                /\ LearnedFrom([p EXCEPT
                     !.cooldown = WonCooldown, !.proven = n, !.overruns = 0,
                     !.marginal = 0, !.wins = 0, !.kept = n, !.exact = TRUE, !.unsure = TRUE,
                     !.rejected = IF n >= @ THEN 0 ELSE @,
                     !.batch = n, !.over = {n}, !.clean = 1], n)
                /\ SaveBatch(job, n, TRUE)
             \/ /\ ~keep /\ marginal
                /\ LearnedFrom([p EXCEPT
                     !.cooldown = WonCooldown, !.marginal = n, !.wins = wins,
                     !.batch = back, !.over = m.against, !.clean = Max({@, 2})], back)
                /\ NoSave
             \/ /\ ~keep /\ ~marginal
                /\ LearnedFrom([p EXCEPT
                     !.cooldown = LostCooldown, !.marginal = 0, !.wins = 0, !.rejected = n,
                     !.batch = back, !.over = {0}, !.clean = 0], back)
                /\ SaveRejection(job, n)

\* A scan of another batch than the probed one ends the probe.
Settled(m, n) == IF m.probe # 0 THEN WithoutProbe(Observed(m, n)) ELSE Observed(m, n)

\* The first scan of a batch nothing vouches for is cut at once when it is
\* far too slow; otherwise nothing is decided on one sample.
FirstScan(ms) ==
    /\ latency /\ Clean
    /\ LET n == flight.count
           m == memory[job]
           o == Settled(m, n)
           trusted == m.kept = n /\ ~m.unsure /\ m.exact
           cut == Clamp(Down((n * Clamp(9500 \div ms, 50, 90)) \div 100), Floor(base), base)
       IN \/ RecalledSlow(m, n, ms) /\ LearnedFrom(m, n)
          \/ /\ ~RecalledSlow(m, n, ms) /\ m.probe # n /\ o.samples = 1
             /\ LearnedFrom(o, IF ~trusted /\ ms > 120 /\ cut + Quantum <= n THEN cut ELSE n)
    /\ NoSave

\* A batch below the engine's that meets the target is saved, provisionally
\* from the second clean scan and confirmed later.
SaveStable(m, n, ms) ==
    LET candidate == m.batch = n /\ n < base /\ ms <= 110
        unsaved   == m.kept # n \/ ~m.exact
    IN IF candidate /\ m.clean \in 2..Confirmed - 1 /\ unsaved
       THEN [save |-> TRUE, unsure |-> TRUE]
       ELSE IF candidate /\ m.clean >= Confirmed /\ (unsaved \/ m.unsure)
       THEN [save |-> TRUE, unsure |-> FALSE]
       ELSE [save |-> FALSE, unsure |-> m.unsure]

\* A larger batch is probed after enough good scans, unless it lost before
\* and the baseline has not moved since.
Hold(m, n, ms, moved) ==
    LET next == Min({base, n + Quantum})
        shut == m.rejected # 0 /\ next >= m.rejected /\ ~(m.clean >= Reopen /\ moved)
        calm == [m EXCEPT !.stable = 0]
    IN IF ms \notin 82..102 \/ n + Quantum > base THEN calm
       ELSE IF m.cooldown # 0 THEN [calm EXCEPT !.cooldown = @ - 1]
       ELSE IF m.stable + 1 < Stable THEN [m EXCEPT !.stable = @ + 1]
       ELSE IF shut \/ m.batch # n \/ m.clean < 2 THEN calm
       ELSE [calm EXCEPT !.probe = next, !.from = n, !.against = m.over]

\* Toward the target by a quarter at most.
Resized(n) ==
    {Clamp(IF d < n THEN Max({d, Floor(base), Down((n * 3) \div 4)})
           ELSE IF d > n THEN Min({d, base, Down((n * 5) \div 4)}) ELSE n, Floor(base), base) :
        d \in Desired(base)}

SteadyScan(ms, moved) ==
    /\ latency /\ Clean
    /\ LET n == flight.count
           m == memory[job]
           o == Settled(m, n)
           saved == SaveStable(o, n, ms)
           proven == o.proven # 0 /\ o.proven = n
           over == ms > IF proven THEN 110 ELSE 108
           overruns == IF ~over THEN 0 ELSE IF proven THEN Min({o.overruns + 1, 2})
                       ELSE o.overruns
           slow == over /\ (~proven \/ overruns >= 2)
           k == [o EXCEPT !.overruns = overruns,
                          !.kept = IF saved.save THEN n ELSE @,
                          !.exact = saved.save \/ @, !.unsure = saved.unsure]
           h == Hold(k, n, ms, moved)
       IN /\ m.probe # n /\ o.samples >= 2 /\ ~RecalledSlow(m, n, ms)
          /\ IF saved.save THEN SaveBatch(job, n, saved.unsure) ELSE NoSave
          /\ IF ~slow /\ ms >= 82
             THEN LearnedFrom(h, IF h.probe # 0 THEN h.probe ELSE n)
             ELSE \E d \in Resized(n) :
                    LET to == IF d >= n + Quantum \/ d + Quantum <= n THEN d ELSE n
                    IN LearnedFrom([k EXCEPT !.stable = 0,
                         !.proven = IF to # n /\ to < @ THEN 0 ELSE @,
                         !.overruns = IF to # n /\ to < k.proven THEN 0 ELSE @], to)

\* The process ends and another begins; a write of the cache that it cut
\* short leaves a file that does not parse.
Restart ==
    /\ job' = None /\ cap' = 0 /\ size' = Capacity /\ grown' = FALSE
    /\ active' = 0 /\ live' = Fresh /\ slots' = [i \in DOMAIN slots |-> NoSlot]
    /\ experiment' \in {"off", "untested"}
    /\ due' = FALSE /\ base' = 0 /\ opening' = FALSE
    /\ growth' = NoGrowth
    /\ flight' = None /\ memory' = [r \in Rotations |-> NoMemory]
    /\ \/ UNCHANGED <<cache, family>>
       \/ cache' = [r \in Rotations |-> NoEntry] /\ family' = [f \in Families |-> 0]
    /\ UNCHANGED <<retune, latency, files>>

Init ==
    /\ EngineInit
    /\ latency \in BOOLEAN /\ due = FALSE /\ base = 0 /\ opening = FALSE
    /\ growth = NoGrowth
    /\ flight = None /\ memory = [r \in Rotations |-> NoMemory]
    /\ cache = [r \in Rotations |-> NoEntry]
    /\ \E n \in Seeds : family = [f \in Families |-> n]

Next ==
    \/ JobArrives
    \/ \E r \in Rotations, c \in Caps : \E t \in Tuned(r) : Upload(r, c, t)
    \/ \E n \in 1..Capacity : Launch(n)
    \/ \E old \in BOOLEAN : Unused(old)
    \/ \E ms \in Latencies :
        \/ \E gain \in {"none", "small", "clear"} : ProbeResult(ms, gain)
        \/ FirstScan(ms)
        \/ \E moved \in BOOLEAN : SteadyScan(ms, moved)
    \/ Restart

Spec == Init /\ [][Next]_vars
-----------------------------------------------------------------------------
(* Properties.                                                             *)

TuneStates == [loop : {"new", "timed", "chosen"}, init : BOOLEAN, selected : BOOLEAN,
               count : Sizes, samples : 0..Samples, at : SUBSET (1..Capacity)]

\* Types, and that a counter never passes the limit it is compared with.
TypeOK ==
    /\ {retune, grown, latency, due, opening} \subseteq BOOLEAN
    /\ experiment \in {"off", "untested", "pass", "fail"}
    /\ job \in Rotations \cup {None} /\ cap \in Caps
    /\ size \in 1..Capacity /\ active \in Sizes /\ base \in Sizes
    /\ live \in TuneStates
    /\ slots \in [0..SlotCount - 1 -> [count : Sizes, state : TuneStates]]
    /\ files \in [1..Capacity -> SUBSET (1..Capacity)]
    /\ growth \in [clean : 0..CleanScans, tried : BOOLEAN]
    /\ flight \in Flight \cup {None}
    /\ memory \in [Rotations -> Memory]
    /\ cache \in [Rotations -> [batch : Sizes, unsure : BOOLEAN, rejected : Sizes]]
    /\ family \in [Families -> Nat]

\* Whatever the caches, the probes, the growth and the hedges set, a scan
\* never needs more scratchpad bytes than the engine allocated, though
\* set_active_batch_size checks the capacity only; a learned batch stays
\* between the floor and the batch of the job, a grown one within a quarter.
BatchInBounds ==
    job # None =>
        /\ size = 1 \/ size * Page[job] <= Budget
        /\ base # 0 /\ 4 * Learned <= (IF grown THEN 5 ELSE 4) * base
        /\ latency => Learned >= Floor(base)

\* A probe that is still to be judged is the batch the worker is about to
\* run, and is judged against a throughput measured on the batch it came
\* from and on no other, whatever resets, interruptions and recalls the
\* baseline went through.
FairComparison ==
    \A r \in Rotations : LET m == memory[r] IN
        /\ m.clean > 0 => m.over = {m.batch}
        /\ m.probe # 0 => /\ m.against = {m.from} /\ m.from < m.probe
                          /\ job = r => Learned = m.probe

\* A geometry is chosen, and saved for later runs, from timings of the very
\* batch it is for, though shorter scans come between.
TunedOnItsBatch ==
    /\ live.samples > 0 => live.at = {live.count}
    /\ \A n \in 1..Capacity : files[n] \subseteq {n}

TuningOf(n) == IF active = n THEN live
               ELSE LET own == {i \in DOMAIN slots : slots[i].count = n}
                    IN IF own = {} THEN Fresh ELSE slots[Min(own)].state

\* Moving between batches loses no tuning progress of any of them, as long
\* as there are slots enough, and reopens no choice.
ProgressKept ==
    [][active' # 0 => \A n \in 1..Capacity :
        /\ TuningOf(n)'.samples >= TuningOf(n).samples
        /\ TuningOf(n).selected => TuningOf(n)'.selected]_vars
=============================================================================
