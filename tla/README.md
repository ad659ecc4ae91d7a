# Yerbas-Miner: a verification project in TLA+

Yerbas-Miner is a GhostRider miner in C++ for CPUs and CUDA GPUs. It talks
Stratum to one pool (and, for a few minutes per hour, to the developer's pool),
turns a job into block headers, divides nonces between CPU worker threads and
GPU scan threads, and submits the nonces whose hash meets the share target.
This directory models the part of it that decides *which* nonces are hashed for
*which* job, by *which* thread, and what is then sent to the pool: the threads,
their handshakes, the job and session life cycle, and the adaptive policies.

Paths below are relative to the repository.

## 1. Inventory

| Part | State | Operations | Hard behaviour |
|---|---|---|---|
| **CPU worker pool** `src/cpu/cpu_worker_pool.cpp` (`WorkerPool::Impl`) | published plan, generation, reports, shared cursor, workers' stacks | `run` (with or without callback), worker loop, destructor | plan fields and results accessed outside the mutex, refilled chunks, cancellation, throwing callback, wakeups |
| **Rotation plan** (same file, `choose_rotation_workers`, `choose_rotation_widths`, plan locks) | samples per fingerprint and policy, locked plans, rejected policies | choose, record, lock, reset on a new fingerprint | probing order, ties, locks that survive what they were measured for |
| **Fingerprint store** `src/cpu/fingerprint_runtime.h` | samples and EWMA per key, unsaved count | load, record, look up, save, flush | measurements shared between schedules, interrupted saves |
| **Stratum client** `src/stratum/stratum.{h,cpp}` (`Client`) | session flags, job, target, nonce cursor, extranonce2 counter, pending shares | run, run_session, handle_message, submit_share | messages handled in the middle of a mining round, reconnects, stale work, share ids |
| **Developer-fee clock** (`Client::dev_fee_active`) | cycle, mined time | tick | accounting over reconnects |
| **GPU scan threads** (`start_gpu_worker`, `dispatch_gpu_scan`, `take_gpu_scan_result`, `drain_gpu_scans`, `stop_gpu_workers`) | one slot per GPU: work_pending, busy, result_ready, stop | dispatch, scan, take, drain, stop | handshake over one condition variable, results that outlive their job |
| **Hybrid round** (`mine_hybrid_round`, `mine_cpu_batch`, `mine_gpu_batch`, `upload_gpu_job`) | pending GPU tasks, regions, job generation | launch, consume, service, submit | a job change while both engines work, region and nonce wraps |
| **GPU batch latency controller** (`adapt_gpu_batch_after_scan`, `transition_batch_for_worker`, `seed_gpu_batch_from_live_memory`) | batch, floor, base, probes, streaks per GPU and batch family | adapt after a scan, seed, restore, persist | shrink/grow loops, probes interrupted by a job change |
| **Fast/Lite growth** `src/stratum/fast_lite_growth.h` | streaks, per-job state | qualify, grow | limits, overflow |
| **GPU batch engine, host side** `src/cuda/cuda_backend.cu`, `src/cuda/generated/cuda_backend_part3.inc`, `part4.inc`, `gpu_variant_runtime.inc` | active batch, launch geometry and its samples, slots per batch, geometry cache | upload, set batch, grow, scan, activate | memory bound of a rotation, tuning state that must follow the batch |
| **GPU cache budget** `src/cuda/gpu_cache_limits.h` | batches per variant | adapt | cache fraction boundaries |
| **Rotation telemetry** `src/stratum/rotation_telemetry.h` | active and completed rotation | activate, finalize, count | attribution of work to a rotation |
| **CPU autotune** `src/cpu/cpu_autotune.cpp`, `cpu_topology.h` | candidates, runtime settings, cache per ceiling | measure, promote, pin, validate, save | interruption half-way, a cache of another build or ceiling |
| **Combination benchmark** `src/cpu/cpu_combo_benchmark.h`, `cpu_combo_policy.h` | baseline, proven changes, guard | discover, test, combine, restore | calls the production tuner, changes runtime settings |
| **Dashboard and session log** `src/console*.h` | lines, refresh thread | mirror, refresh, stop | a thread that redraws while others print |
| **Start-up and shutdown** `src/main.cpp`, `src/miner.cpp`, `src/first_run.h`, `src/config.cpp` | stop flag, exit code | run, handle_signal | order of teardown |
| **Hash kernels** `src/ghostrider`, `src/cpu/cn_*.c`, `src/crypto`, `src/cuda` | none between calls | hash, scan | which kernel hashes which lane, refusals and fallback; the arithmetic is tested, not modelled |

### What makes each part correct

**CPU worker pool.** One caller thread (the Stratum thread) publishes a batch in
plain fields under `mutex`, bumps `generation` and notifies; `threads` workers
copy a part of the plan under the mutex and read the rest (`share_batch`,
`work_limit`, `batch_start`) after releasing it; they refill chunks from the
relaxed atomic `next_work` or hash a fixed slice; the last one to check in wakes
the caller, which reads counts and candidates without the mutex. Correct means:
no such access races with a writer; every nonce of a batch is hashed once, or at
most once when it is stopped; the answer is the candidates among the hashed
nonces, the number reported is the number hashed, also when the service callback
throws; only a complete batch teaches the rotation policy; `run` returns and the
destructor joins.

**GPU scan hand-off.** Each GPU has a host thread and a slot (`GpuScanState`);
the Stratum thread dispatches, polls, takes, drains, configures the engine and
stops. One condition variable per slot carries both directions. The engine is
not synchronised at all. Correct means: the engine is configured only while its
thread does not scan; a result carries the generation, nonces and hash count of
its own ticket; the one scheduler never waits for something only it can do; a
shortened scan does not change the learned batch; drains and the destructor end.

**Hybrid round.** The Stratum thread alternates between socket, GPU results and
CPU batches; `pump_socket_messages` may replace job, header and extranonce2 in
the middle of each, from the pool's callback as well. Correct means: what is
submitted was hashed for the job and extranonce2 the message names; nothing of
an old job is submitted, nothing of the current one discarded without a reason;
the CPU and the GPUs hash disjoint nonces and none twice; hashes are counted
only if computed; after a failure or a stop nothing new starts; rounds end.

**Developer-fee clock.** Looked at between rounds, at the head of a session and
by the dashboard. Correct means: one window per hour, a bounded cost for the
user, each round mined for the side the clock is on, and a way back.

**Stratum session.** Flags and job set by messages in any order, share ids across
reconnects, a target that waits for the next job. Correct means: shares are
built from the extranonce1, target and job of this session, and each share is
counted once.

**GPU batch policies.** A per-family controller that shrinks after slow scans,
probes upwards, rolls back, and recalls batches from a cache; an engine that
clamps to its capacity and to the scratchpad budget. Correct means: batch and
required memory stay within the capacity whatever the sequence of probes, job
changes and cache records; a probe is settled once, by its own result.

**Rotation plan, fingerprint store, autotune, combination benchmark.** Policies
that choose among ways of computing the same hash. Correct means: what mines is
within the machine's ceiling and passed its parity test on *this* machine, over
caches, rotations, rejections and interruptions; no stop or kill leaves a
half-written choice in effect; looking for a choice ends.

**Dashboard, session log, start-up and shutdown.** Correct means: the log holds
whole lines, the two screens do not draw over each other or on the user's shell,
and a stop ends the process with everything it changed given back.

## 2. Plan

The order is that of what would hurt most: wrong hashes and shares first, then
sessions, then policies, then the process around them.

| # | Module | About | Composes, abstract specification | State |
|---|---|---|---|---|
| 1 | `WorkerPool` | CPU pool | `BatchHash` | checked, safety and refinement proved |
| 2 | `GpuScan` | scan hand-off | `ScanSlots` | checked, safety and refinement proved |
| 3 | `HybridRound` | round and session loop | the promises of 1 and 2 | checked, safety proved |
| 4 | `FeeClock` | fee clock and the sessions it switches | | checked, safety proved |
| 5 | `StratumSession` | messages, share ids, targets, reconnects, rotation telemetry | | checked, safety proved |
| 6 | `LatencyBatch` | batch controller of the client | extends `BatchEngine` (engine, growth, geometry) | checked, safety proved |
| 7 | `MinerProcess` | the process from `main` to exit, over several starts | `CnHash`, `CpuAutotune`, `RotationPlan`, `ComboBenchmark`, `SessionConsole` | checked, safety proved |

Every invariant a run checks is a theorem. What a theorem could still add is the
worth of the answers of the two policies TLC explores one instance of: that
`WidthChoices` and `WorkerChoices` end with a plan that was measured often enough.
All modules are written to be proved about: no
RECURSIVE operator, constants with named assumptions, one action per step of the
code.

## 3. The modules

Numbers in parentheses are lines of the source file the section names.

### 3.1 WorkerPool, BatchHash (`src/src/cpu/cpu_worker_pool.cpp`)

A critical section is one action; each unlocked access is a step of its own.

| Code | Model |
|---|---|
| `run`, first critical section (545-661) | `Begin`; `PlanFor`, `PinnedTarget`, `SliceSize`, `SliceOffset`, `SharesWork` |
| `work_ready.notify_all` (662) | `NotifyWorkers` |
| wait, `wait_for` 10 ms, callback (665-679) | `Await`, `Timeout`, `Service`, `CallerWakesSpuriously` |
| sum, publish, rethrow (682-685) | `Account`, one worker's count per step |
| learning (688-751) | `Learn` |
| merge (753-756) | `Merge`, one worker's result per step |
| destructor (418-432) | `Destroy`, `NotifyStop`, `Join` |
| worker: wait and copy (458-474), `participating` (475) | `WaitForWork`, `WorkerWakesSpuriously`, `Snapshot` |
| refill (477-484), hashing (485-521), check in (523-530) | `Check`, `Claim`, `Refill`, `Hash`, `Report` |
| SIGINT handler (`miner.cpp:26`) | `RequestStop` |

Data: a header is a key, a hash is membership in `Solutions[key, target]`, nonces
are numbers modulo `NonceSpace`. `ActiveChoices` leaves open how many workers the
rotation plan lets work. `hashed` is a history variable. `BatchHash` is the same
batch as a set: nonces are hashed, the batch settles when all are or its stop
flag is up, and the answer follows from the set. `Abstract` in `WorkerPool` gives
the mapping; the number of hashes is mapped to `last_completed_hashes`.

### 3.2 GpuScan, ScanSlots (`src/src/stratum/stratum.cpp`)

| Code | Model |
|---|---|
| `start_gpu_worker`, host thread (1272-1301) | `WaitForWork`, `BeginScan`, `Publish`, `NotifyResult`, `WakesSpuriously` |
| `dispatch_gpu_scan` (1320-1351) | `RoundLaunch`, `Dispatch`, `DispatchNotify` |
| `gpu_scan_ready`, `take_gpu_scan_result` (1354-1412) | `Poll`, `Take`, `TakeNotify`, `Restore` |
| the round after a take (2762-2791) | `Adapt` |
| `drain_gpu_scans` (2219-2288) | `CallDrain`, `Drain`, `DrainNotify` |
| `upload_gpu_job` (2335-2409) | `Upload`, one GPU per step, any may throw |
| `stop_gpu_workers` (1305-1318) | `CallStop`, `RaiseStop`, `StopNotify`, `Join` |
| `mining.notify`, loss of the session | `Notify`, `LoseJob` |

An engine is its job and its batch size; `BeginScan` reads both into `scanning`,
`Publish` delivers that copy, so a configuration in between would show. Candidates
are left out here. `ScanSlots` has one action per life-cycle step of a scan.

### 3.3 HybridRound (`src/src/stratum/stratum.cpp`)

A step goes from one read of the socket, or one GPU, to the next. A scan slot is
that of `ScanSlots`, a CPU batch is what `BatchHash` promises.

| Code | Model |
|---|---|
| `run_session` loop (812-886), exceptions (793) | `Reset`, `SessionPumped`, `SessionEnds`, `FeeSwitch`, `Throw`, `Fail` |
| `pump_socket_messages` (889-912) at the places `PumpAt` | `Notify`, `BadNotify`, `PumpThrows`, `SocketFails` |
| `upload_gpu_job` (2335-2409), `drain_gpu_scans` | `Upload`, `Drain` |
| `mine_hybrid_round`, first launches (2679-2753) | `BeginRound` |
| `consume_ready` (2757-2810) | `LookAtGpus`, `SkipGpu`, `TakeError`, `Consume`, `CandidatePumped`, `GpuSubmit`, `ConsumeReturns` |
| `mine_cpu_batch` (1174-1258) and its callback (1208-1215) | `CpuStart`, `Service`, `BatchReturns`, `CpuCandidatePumped`, `CpuSubmit`, `AfterCpuPumped` |
| host threads, pool workers, signal | `FinishScan`, `HashOne`, `RequestStop` |

Simplifications: the generation stands for the job id (both change with each
notify); "authorized, has a target, job valid" is the one flag `valid`; sizes of
batches are free choices. `balance` (computed minus counted GPU hashes),
`covered`, `wrapped` and `dead` are history. Two exceptions are written into the
properties because the code has them: once the CPU has wrapped its region it
takes the next extranonce2 without a new upload, so GPU shares keep the uploaded
one; and a CPU batch that ends exactly at 2^32 leaves `nonce_` at 0, which is
taken for a cursor below the region, so the region is hashed again under the same
header. A GPU that has used up its region starts it again likewise.

### 3.4 FeeClock (`src/src/stratum/stratum.h`, `stratum.cpp`)

| Code | Model |
|---|---|
| `Client::dev_fee_active` (stratum.h 139-182) | `Tick` = `TickIdle`, `TickActivates`, `TickRuns`, `TickCompletes` |
| head of a session and of its loop (812-861) | `Start`, `Connect`, `Head` |
| read, mine, report (863-884, 4536) | `Pumped`, `Mined`, `Report` |
| reconnect wait (795-802) | `Reconnect` |
| messages and failures | `BecomeReady`, `BadNotify`, `Lose` |
| time | `Pass`, `Elapse` |

Time has no end but finitely many states: the second of the hour, and the age in
hours (capped at 2) of the window and of the last completed one.

### 3.5 StratumSession (`src/src/stratum/stratum.cpp`, `rotation_telemetry.h`)

| Code | Model |
|---|---|
| `run`, `run_session` (779-886) | `StartSession`, `Reset`, `Connect`, `Head`, `LoopEnds`, `Reconnect`, `RunEnds` |
| `handle_message` (914-1104) | `Pump`: `AnswerSubscribe`, `AnswerAuthorize`, `AnswerShare`, `SetTarget`, `Notify`, `BadNotify` |
| `activate_pending_target` (1106-1114), `update_rotation_epoch` (1116-1146) | `ActivatePendingTarget`, `UpdateRotationEpoch`, `Activate` |
| a round, abstracted (1148-1172) | `BeginRound`, `HashRound`, `CheckCandidate` |
| `submit_share` (2848-2896) | `SubmitShare`, `Id` |

What `run_session` resets and what it leaves are apart in the variables, since
the properties are about what crosses a reconnect. `told`, `meant`, `owed`, `lost`
and `assigned` are the pool's side; `hashed` and `badWork` are history.

### 3.6 LatencyBatch over BatchEngine

`BatchEngine` (`src/src/cuda/cuda_backend.cu`, `generated/cuda_backend_part3.inc`,
`part4.inc`, `gpu_variant_runtime.inc`) holds the methods as operators,
`LatencyBatch` (`src/src/stratum/stratum.cpp`, `fast_lite_growth.h`) the client
that calls them.

| Code | Model |
|---|---|
| `BatchEngine::upload_job` (part3 308-457) | `Safe`, `Tuned`, `AdaptiveBatch`, `EngineUpload` |
| `scan` (part3 460-545), `launch_cn_loop_block_tuned` (717-772) | `EngineScan`, `LaunchPhases`, `LaunchLoop`, `Initialized`, `Sampling`, `Sampled`, `Experiment` |
| `initialize_cn_production_selector` (`cn_blocksize_tuner.inc` 245-496) | `SelectorStates` |
| `gpu_variant_activate_runtime_batch` and slots (16-182) | `Activate`, `WritableSlot`, `Saved`, `SlotsFor`, `LiveFor` |
| `try_grow_fast_lite_batch` (part4 94-129), `fast_lite_growth_target` | `GrownBatch`, `EngineGrow`, `GrowthTarget` |
| `upload_gpu_job` (2335-2409), `seed_gpu_batch_from_live_memory` (2105-2217) | `Upload`, `Seed` |
| `transition_batch_for_worker` (2411-2536), the launch (2558-2600) | `Transition`, `Launch` |
| `adapt_gpu_batch_after_scan` (1453-2103) | `Unused`, `ProbeResult`, `FirstScan`, `SteadyScan`, `Observed`, `SaveStable`, `Hold`, `Resized` |
| live batch cache (506-698) | `Families`, `SaveBatch`, `SaveRejection`, `Restart` |

Latency is in percent of the target. Of a throughput average only the set of
batches it was measured on is kept, which is what `FairComparison` is about;
which of two rates is larger is a free choice. Likewise `at` of a geometry is the
set of batches it was timed on (`TunedOnItsBatch`). One CryptoNight variant stands
for six, one loop launch per scan for its many, one experimental kernel for four.
The override of the minimum batch (`YERBAS_GPU_LATENCY_MIN_BATCH`) is not set. The
cache has an entry per rotation and a seed per CryptoNight family (`CnFamily`, the
cn mask), which rotations share. A kernel selector (`loop`) is chosen at its
initialisation, in the launch that then starts the geometry, or, under a retune,
timed over later launches, the last of which leaves the geometry to the next. A
restart may find the cache cut off by a kill; a write that fails, and leaves the
file behind the cache in memory, is not modelled.

### 3.7 MinerProcess and its parts

| Module | Code | Model |
|---|---|---|
| `CnHash` | `ghostrider.cpp` 332-509, `cpu_combo_policy.h`, candidates of `cpu_worker_pool.cpp` | `KernelOf`, `BatchAccepted`, `GroupRight`, `BatchParity`, `StageParity`, `Select`, `Singles`, `Combinations` |
| `CpuAutotune` | `cpu_autotune.cpp`, `cpu_topology.h` | `BeginTuning`, `TestPlan`, `ConfirmPlans`, `ProbeVariant`, `ConfirmWidth`, `ChooseAffinity`, `FinalValidation`, `TruncatePolicy`, `WritePolicy` |
| `RotationPlan` | `cpu_worker_pool.cpp` 158-416, 541-710, `fingerprint_runtime.h` | `MakePool`, `StartRound`, `ChooseWidths`, `EndRound`, `LoadStore`, `TruncateStore`, `WriteStore`, `DestroyPool` |
| `ComboBenchmark` | `cpu_combo_benchmark.h` | `StartBench`, `BenchCombination`, `EndBench` |
| `SessionConsole` | `console_file_log.h` | `WritePiece`, `Flush`, `OpenDashboard`, `Refresher`, `DrawMiningFrame`, `HaltRefresher`, `CloseDashboard`, `CloseLog` |
| `MinerProcess` | `main.cpp`, `miner.cpp`, `config.cpp`, `first_run.h` | `Configure`, `FirstRun`, `Prompt`, `Display`, `BenchTune`..`BenchStep`, `RunMiner`, `MinerTune`, `TuningDone`, `Devices`, `MiningOver`, `LeaveScreen`, `CloseStreams`, `ProcessEnds`, `RequestStop`, `Kill`, `Start` |

A kernel of a variant and width is right, wrong or refuses; rotations are sets of
variants, and that a parity test on real nonces sees a wrong kernel is assumed
(`Representative` covers every variant). Benchmarks may end with any winner; after
a stop nothing wins. A file is written in two steps with `Cut` in between. A
process may be killed anywhere and is followed by one of the starts its
environment names, on the same disk and terminal: with other settings, another
build, or a read-only disk. Mining (3.1 to 3.6) is reduced to rounds of the
pool, frames and lines; the GPU calibration to a profile it leaves and to lines.
A round ends measured, or unmeasured after a stop or an exception of its callback.
The build is the POSIX one. On Windows, `pause_before_exit` (`miner.cpp:62-66`)
and `pause_on_windows_error` (`main.cpp:211`) make a fatal
error and the exits 3 and 4 of `Miner::run` wait for Enter; there `EndsCleanly` holds once somebody has pressed it.

## 4. Runs

| Run | cfg | Question |
|---|---|---|
| `pool_refill` | `MCWorkerPool.cfg` | Two workers, refilled chunks that wrap the nonces, two batches, stop and throw at every point: races, exact answers, learning |
| `pool_uneven` | `MCWorkerPoolUneven.cfg` | Three workers, uneven slices, idle workers: the inductive invariant, `BatchHash`, returning and joining |
| `gpu_scan` | `MCGpuScan.cfg` | Two GPUs, two jobs, full and shortened scans: the inductive invariant, the quiet engine, `ScanSlots`, drains and joins |
| `hybrid_round` | `MCHybridRound.cfg` | One GPU, odd regions and batches: regions, counters, fresh nonces, stopping |
| `hybrid_round_two` | `MCHybridRoundTwo.cfg` | Two GPUs: what is submitted, staleness, silence after a failure, the end of a round |
| `fee_clock` | `MCFeeClock.cfg` | Cost and frequency of windows, their end and their return |
| `stratum_session` | `MCStratumSession.cfg` | Two sessions, messages in any order: shares accounted for, the session's own target and extranonce, exact rotation counts |
| `gpu_batch` | `MCLatencyBatch.cfg` | One GPU, three rotations of two families: memory and floor, fair probes, geometry timed on its own batch, no progress lost |
| `process` | `MCMinerProcess.cfg` | Thirteen kinds of start and those that follow them, stops and kills: usable settings, right hashes, whole lines, screens, what an end gives back, choosing that ends |
| `hybrid_old_job_work` | `MCHybridRoundDrained.cfg` | violated: finding 1 |
| `fee_clock_returns` | `MCFeeClockReturns.cfg` | violated: finding 2 |
| `fee_clock_credit` | `MCFeeClockCredit.cfg` | violated: finding 3 |

**Bounds and why they suffice.** `MaxRuns = 2`: what can go wrong between batches
goes wrong between two neighbours, since `Begin` resets everything else. Two
workers are enough for an overlap, three for a remainder (with two of three
active) and an idle worker. The batch of 18 nonces with 4 lanes has a full, a
short and a refused chunk, crosses the end of the 32 nonces, and reaches the
refill threshold of 8 per worker. `MaxJobs = 2`, `MaxGenerations = 2`: a result
is compared for equality with the current job only, so "old" and "current" are
all there is. Two GPUs show every order of two results; the proofs cover any
number. `GpuSpace = 3` with sizes 1 and 2, `NonceSpace = 8` with batches of 2
after 3: neither region is divided by its batches. Three extranonce2 values keep
the wrapped field from hiding a missing increment. `Period = 7`, window at 2, of
3 units, rounds of up to 2: a window can start late, last into the next hour and
the one after; `MaxLost = 2` bounds how often a window loses its session. The
liveness runs use the same bounds; a bound on jobs means that the pool sends
finitely many, which the round's end does not rely on within one round.

`stratum_session`: two sessions, since only what the first leaves can disturb
the second; `IdCycle = 2` with three shares uses an id again while the share of
an earlier session is still filed under it; `MayShare` says that a pool answers a
share before a million more. `gpu_batch`: a capacity of 7 with a quantum of 3 has
a floor, a base, a step up that fits and one that does not; the light rotation may
grow from 6 to 7, the heavy one has scratchpads of 4 of 8 units and may not keep
the batch that was tuned for it; latencies of 70, 95, 109 and 125 percent lie on the two
sides of each limit of the controller (82, 108, 110), the bands in between (a
proven batch between 108 and 110, a probe between 110 and 115) are left to the
proofs, which cover every latency; a third rotation of the light one's family
recalls the seed it left, up to its first scan that teaches; the counters (2 good scans,
2 marginal wins, 3 clean scans) keep their order and meet every reset. Retuning
and the latency controller are explored apart, the constraint `MCApart` says how,
and the view forgets which slot holds which batch. `process`: three variants are
enough for combinations of two and of three; two samples (`SampleBound`) separate
"not measured", "measured" and "enough"; two pieces are the fewest that make an
unfinished line; each environment explores one part with the others at rest.

**Deadlock** is checked except in `HybridRound`, which stops for good when the
session ended after a stop request (`at = "stopped"`), and in `MinerProcess`,
where a process may have ended and none may follow.

**Fairness.** `WorkerPool`: weak fairness of the caller's steps within `run` and
within the destructor, and of each worker; the caller need not call, the callback
need not cancel, and nobody need wake spuriously. The 10 ms timeout of `wait_for`
is a step of the caller and fires; a caller that waits without one (no callback,
or one that has thrown) depends on the notification of the last worker alone. `GpuScan`: weak fairness of a call the scheduler has begun and of each
host thread, which says that a scan returns; when it calls is its own affair.
`HybridRound`: weak fairness of the thread, of the CPU pool (its own module shows
that `run` returns) and of each GPU's scan; messages, failures, stop requests and
fee switches are never forced. `FeeClock`: time passes (weak); the thread's steps
strongly, because a message may toggle `ready` and thereby disable and enable one
of them, while in the code the read of the socket returns whatever it read.
`MinerProcess`: weak fairness of the main thread, the refresh thread and the
threads that print; nobody has to start, stop or kill the process. `EndsCleanly`
then says that a stop ends everything, from the tuning, the loop that looks for
widths, a save or a screen. `StratumSession` and `LatencyBatch` state safety only.

## 5. Proofs

Eight modules hold the theorems. They are proved for all values of the constants
that meet the named assumptions of the module they are about:

| Proofs | About | Assumptions | Theorems |
|---|---|---|---|
| `WorkerPoolProofs` | `WorkerPool` | `PoolAssumption` | types, rendezvous, no race, current batch only |
| `WorkerPoolRefinement` | `WorkerPool`, `BatchHash` | the same | exact answers, learning from whole batches, implements `BatchHash` |
| `GpuScanProofs` | `GpuScan`, `ScanSlots` | `GpuScanAssumption` | types, the four safety invariants, implements `ScanSlots` |
| `HybridRoundProofs` | `HybridRound` | `HybridRoundAssumption` | types, five invariants, two action properties |
| `FeeClockProofs` | `FeeClock` | `FeeClockAssumption` | types, cost and frequency of windows |
| `StratumSessionProofs` | `StratumSession` | `StratumSessionAssumption` | types, shares, the session's own data, rotation counts |
| `LatencyBatchProofs` | `LatencyBatch`, `BatchEngine` | `BatchEngineAssumption`, `LatencyBatchAssumption`, `FlightAssumption` | types, memory and floor, fair probes, geometry, progress |
| `MinerProcessProofs` | `MinerProcess` and its parts | `CnHashAssumption`, `MinerProcessAssumption`, `StartsAssumption` | whole lines, the hand-over of the screen, what a process gives back, usable settings, right hashes, a choice of widths that advances |

The assumptions say that sizes and limits are positive numbers, that a floor is
not above its ceiling, that tables are functions on what they are indexed by, and
that `None` is none of the records it stands beside (a null pointer or an empty
`optional` in the code). TLC evaluates each of them in the runs of its module. Each
inductive invariant below was checked by TLC on the instances of section 4 before
its proof.

*WorkerPool.* `Handover`, the absence of races, is not inductive: it says that
nobody is inside when the caller goes on, and the reason is the counter.
`Rendezvous` says that `completed` is the cardinality of the workers that have
checked in, that nobody is ahead of `generation`, that between batches everybody
has checked in, and that whoever is inside carries the published plan. Then
`completed = Threads` means all of them (`AllCheckedIn`, from the cardinality of a
subset). `TypeOK` and `Rendezvous` are proved together as `Synchronised`
(`NextType`, `NextRendezvous`); `CurrentBatchOnlyHolds` and `HandoverHolds` follow.

*GpuScan.* `EngineQuiet`, `ResultMatches`, `LearnedBatchKept` and
`SchedulerNeverStuck` rest on `Consistent`: `SlotConsistent` (the flags say where
the host thread is and the engine is as the ticket says from launch to delivery),
`CallConsistent` (what the scheduler knows at each line of a call: the slots it
has drained are idle, a dispatch is on an idle slot with the current job loaded)
and `LearnConsistent` (where the learned batch is: in the ticket, in the taken
result, or in the engine). Typing needs it too, as a step reads a ticket that
might be `None`; so `IInv == TypeOK /\ Consistent` is one invariant, proved one
conjunct and one family of actions at a time. `Implements` maps every step to a
step of `ScanSlots` or a stutter.

*WorkerPool implements BatchHash.* Who is where says nothing about which nonces
are hashed. The argument is that the nonces of a batch are divided at every moment
among those hashed, those a worker has in hand (`InHand`: a slice not begun, the
rest of a chunk) and those nobody has claimed (`Stock`). A step moves nonces from
one part to the next, and only a raised stop flag lets a worker drop its part
(`Covered`); no nonce is in two parts (`Disjoint`). `Sliced` says that the slices of
a plan partition the batch, which takes the arithmetic of `SliceOffset` with a
remainder, modulo `NonceSpace`; `Stage`, `Tally`, `Exhausted` and `Totals` tie each
worker's place, count and candidates, and the caller's sums, to `hashed`. When all
have checked in both moving parts are empty, so the batch is hashed or was stopped,
and the sum of the counts is a cardinality. `ExactAnswer`, `LearntFromWholeBatch`
and, step by step, `Implements` follow.

*HybridRound.* A message may replace the job between any two lines, so most
invariants are conditional on the job not having changed. `Control` says what the
thread holds where (round, candidates, CPU batch); `Loading` that the header, the
cursors and the scans of every GPU are of the current job while the upload's flag
is set, and `RoundOwn`, `HeldOwn`, `BatchOwn` that a round, the candidates taken and
a CPU batch either are of the current job or will be found out before anything is
sent: `RoundNotices` names the places. The extranonce2 is the current one unless the
CPU has wrapped. `CursorAhead` keeps the CPU's cursor past what it has used up,
`FailureHeld` says that only a running batch is waited for after a failure.
`CountedWasComputed` is inductive only with what the service in the middle of a
batch relies on: a scan in flight has the size of its engine (`ScansSized`), and a
task that waits for a scan remembers that size (`TasksSized`), so what is taken is
what is counted. It compares the balance with the number of hashes of the finished
scans nobody has taken, given as the set of pairs of a GPU and a hash whose
cardinality it is; a sum over the GPUs would be a fold, and every step about it
an induction.

*FeeClock.* `OncePerHour` is inductive with the types. `ChargeBounded` is not: at a
look at the clock the charge may run ahead of what is credited by what has been
mined since the last one. `Ledger` says that a window has been charged at most the
time credited, the iteration before the clock started, one iteration for each lost
session and what is pending. The counters of the model are capped (`MaxCharged`);
`ChargeUncapped` shows that the cap is never reached, so that the bound is about
the charge and not about the cap.

*StratumSession.* `SessionStaged` says what has been answered at each point of a
session, `TargetQueued` and `ExtranonceOwn` where the pool's last target and
extranonce are; `OwnSession` follows, over what a reconnect leaves behind.
`SharesFiled` counts: the shares sent are those answered, open and lost, and an
open one is at most one cycle of ids old and filed under its own id, so no later
share can have taken its place. `RotationOwn` says which rotation the
telemetry counts for.

*LatencyBatch.* `Bounds` relates the learned batch, the batch that runs and the batch
of the job, with the scratchpad budget divided by the page of the rotation;
`Growing` says that only a job without a latency target grows, once, and `InFlight`
that a scan runs the learned batch or a part. `Probing` says where a pending
probe's comparison was measured, `Geometry` that a tuning state, wherever it is
kept, has timings of its own batch only. They are proved together, one function of
the controller at a time; the rounding of batches is in lemmas about multiples and
minima. `ProgressKept` is not true for all constants: once every slot is
taken, the next batch evicts one. `ProgressCorrect` proves it for the behaviours in which the batch
that is left always finds its own slot or a free one. `SlotsSuffice` proves it, with
a pigeonhole argument, where at most `SlotCount` batches are ever active, which is
the condition the comment on the eight slots relies on.

*MinerProcess, the console.* `WholeLines` is about the log; its reasons are in the
buffers. `Buffered` says that what a thread has not flushed is the end of what it
has printed of its line and that outside the tuning and the mining nobody is inside
one; `LogEnd` that the log ends with a line, or with a part of the main thread's
that it goes on with while nobody else prints. `ScreenState` ties the flags of the
dashboard to the refresh thread for `ScreenHandover`. The rest of the process enters
through the places at which it opens, closes and prints. `GivesBack` is the safety
half of `EndsCleanly`: it says nothing of whether the process ends, but of every
end. `GInv` says that the alternate screen, the echo and the muted streams are as
they were found whenever the dashboard is not open, and that it is not at an end;
that nothing of a line is left unwritten then is `Buffered`, which is why `GInv` is
proved on top of `IInv`.

*MinerProcess, the tuning.* `UsableTuning` looks at a pool that mines; `TInv` follows
its settings back to the disk. `Stored` says of every policy file, whichever start
wrote it, that it is `Cut` or has widths for all variants and lanes as wide as the
widest; that it may still be too many workers for this ceiling, or wrong on this
build, is what `BeginTuning` has to find out. `Searching` keeps the search's best
plan within the ceiling, its widths well formed, and from the last validation on
proven; `Settled` carries them over the devices with the overrides, `Ready` to the
first round, and `Equipped` keeps them in the pool, which no round, save or rejected
policy changes. `Allowed` is the ceiling of the settings of this start, since
`TuningDone` replaces the one in `cfg`. `Spread` is an argument of its own: the
order of the CPUs is a listing of the slots (`Slots`, rank and core) sorted by rank,
so an injection whose prefix of any length holds every core's first slot before a
second slot of any (`SlotFacts`, `OrderFacts`, `SpreadPrefix`); that such a listing
exists is `Sortable`, by a smallest counterexample. The starts are a constant,
`Starts`, closed under "may follow": `StartsAssumption` says that each has a
positive number of CPUs, settings `load_config` accepts (`Settings`), a topology
that lists no CPU twice (`Topology`) and schedules of known rotations. Every file
is one an earlier start has written.

*MinerProcess, the digests.* A round may run a kernel for a variant that no parity
test of this rotation ran. `HInv` says why it is right all the same: a policy the
pool has validated, whenever and for whichever rotation, changed only variants of the
rotation it was tested under (`Tested`, `ChoiceOfRotation`: the single changes and the
combinations); the others are the base's, and those were tested under
representative headers, which between them have every variant (`WiderKernels`,
`TestedKernels`). A lane of a group then runs the scalar kernel, which is right or
not used, or the one of its width (`KernelCases`, `RoundRight`). The two exceptions of
`RightHashes` are where this breaks: a pair kernel under a width of four is nobody's
width, and a rule of the experimental file makes a parity test run other widths
than those it is about, `Unruled` rules that out. The earlier form of the
invariant excluded only a rule for the rotation of the round; it held in the run
and the proof showed that it does not hold in general.

*MinerProcess, the choice of widths.* The loop at `cpu_worker_pool.cpp:604` runs
under the pool's mutex, and nothing counts its turns. `ChoosingAdvances` is why it
ends: a turn that does not end it rejects a policy that was not rejected. The base
passes the parity test of every rotation, since `TInv` keeps it proven on this
machine (`BaseParity`), so the turn that tries it is the last; every other policy
the loop tries is one it has not rejected (`ChoiceKinds`, `RejectsNew`). Its two conditions, reusable
contexts that pass their own test and no rule for the base, are those of the
observation in section 6: the proof needs exactly them. From here to
termination is the finiteness of `WidthPolicies` and fairness, which TLC checks in
`EndsCleanly`.

**Only model-checked**, and why:

- Liveness (`RunReturns`, `DestructorJoins`, `DrainReturns`, `StopJoins`,
  `RoundReturns`, `ServedFeeEnds`, `FeeComesBack`, `EndsCleanly`): the prover does not
  reason about ENABLED and hence not about fairness.
- The answers of `WidthChoices`, `WorkerChoices` and `Selectable` beyond what is
  proved of them (which variants they change, which policies they have tested).

## 6. Findings

1. `docs/development/HYBRID_COMPLETION_SERVICE.md:7` says that work completed on
   an old job remains in the compute counters. The drain of `upload_gpu_job`
   (and of the fee switch) discards the result of a scan that ran to its end
   between two rounds; its hashes are in no counter (`hybrid_old_job_work`).
2. The comment at `stratum.cpp:84-86` says the miner returns to the user's pool
   after one minute. It returns after one *credited* minute: if the developer's
   pool cannot be reached or sends no job, it never does (`fee_clock_returns`).
3. The comment at `stratum.h:136-138` says the clock advances only while the fee
   session is authorized and has a valid job. It credits all the time since its
   last look if the session is ready at this one (`fee_clock_credit`).

### Smaller observations

Met while modelling, and written into the models as the code has them:

- `save_live_batch_cache` (`stratum.cpp:603-667`) drops the recorded rejection of a
  probe, while the comment beside the controller keeps it "until a new probe
  actually wins".
- `gpu_variant_runtime.inc:3-10` says that switching rotations never reuses a
  selection measured at another count. A hedge or a short scan initialises the
  geometry for its own count inside the slot that is active; the guard of the sampler
  (`cuda_backend.cu:743`) is what keeps `TunedOnItsBatch` true. "Eight slots are
  sufficient" does not count the short scans of a grown job; the eviction index
  `count % 8` is 0 for every multiple of 256. `ProgressKept` holds with as many
  slots as there are batches in use (`SlotsSuffice`).
- `main.cpp:237-239` says that complete lines are mirrored atomically. Standard
  error is unit-buffered, so each insertion is a chunk of its own; the tuner and the
  GPU calibration flush unfinished lines. `WholeLines` is about standard output, and
  the main thread's flushes come while nobody else prints.
- `stratum.cpp:4621-4624` says the two renderers cannot fight. A refresher that is
  past its check still writes one tuning frame (`ScreenHandover` allows one).
- `main.cpp:300` and `cpu_combo_benchmark.h:442, 495` say that the benchmark never
  writes a production policy. Its call of `production_autotune` saves one when
  there is none for this ceiling.
- A tuning that is interrupted after the last variant check
  (`cpu_autotune.cpp:513`) is saved with its affinity and throughput unmeasured and
  counts as validated at the next start. A truncated policy file counts as a profile
  for `first_run.h`. The guard of the tuner leaves measuring off, although `main`
  turned it on, so the destructor of the pool saves with learning off.
- Groups of two or three lanes under a width of four, and candidates of four in a
  pool of two lanes, run the pair kernel, which that plan's parity test did not run
  (`README.md:112`: "wider execution is not selected unless it proves safe"). Rules
  of the experimental policy file are not tested at load, and where one replaces a
  policy, the parity test of that policy runs the rule's widths
  (`ghostrider.cpp:445`). `RightHashes` leaves all of it out by name.
- With learning on and reusable contexts that fail their parity test
  (`ghostrider.cpp:343`), or with a rule whose kernel refuses, no width plan ever
  passes and the loop at `cpu_worker_pool.cpp:604` does not end. The environments
  of `process` leave this pair out, and so `EndsCleanly` says nothing about it.
- A schedule that has never been measured shares no worker measurements until its
  own first record (`fingerprint_runtime.h:117-127`). A killed dashboard leaves the
  keyboard echo off, and the next start saves and restores that state.
- `--help` calls `std::exit` inside `load_config` (`config.cpp:126`): `main()` is not
  unwound, so neither `SessionFileLog` nor `StreamBufferRestore` gives the streams
  back. Nothing of a line is buffered then, and no dashboard is open (`Configure`).
- The answer to `mining.subscribe` is not waited for: until it comes a session
  hashes with the extranonce of the one before.

## 7. Hazards and what is not modelled

`PROJECT.json` lists the hazards, each with the properties that cover it; a note
says where a property stops. Left out of that list: an exception that leaves
`run_session` leaves its socket open; telemetry drops rotations that counted no
hashes; a transition shapes a batch for a job that is already overdue.

The configurations without a GPU pipeline, in which `run_session` calls
`mine_cpu_batch` alone, run a subset of the steps of `HybridRound` and have no
mode of their own.

Not modelled, and why:

- The CUDA kernels, the CryptoNight and hash primitives: arithmetic without state
  between calls, compared with reference vectors by the repository's tests. The
  model says which of them runs and whether it agrees, not what it computes.
- The GPU calibration, fast start, policies and kernel selectors
  (`src/src/cuda/generated/*.inc` but those in 3.6) and `gpu_cache_limits.h`: they
  choose by measured time among kernels with the same results.
- `report_stats` (`stratum.cpp` 2897-4729), `console.h` and the dashboard headers:
  rendering, whose two effects are modelled (the look at the fee clock in
  `FeeClock`, the first mining frame in `SessionConsole`). The stream filters of
  `console.h` and `console_quiet.h` are never installed, `--perf-log` writes a header only.
- The averages of `record_gpu_scan_telemetry` (1412-1450) and of the stage profiler,
  and `recommended()` of `fingerprint_runtime.h`: nothing the program does reads them.
- The syntax of options, files and messages: a malformed one is one choice.
- Vendored and compatibility code.

The memory model is sequentially consistent: the relaxed cursor is only used
through `fetch_add`, and everything else crosses threads through a mutex or a
join, which is what `Handover` and `EngineQuiet` are about; the two flags of the
refresh thread are relaxed atomics, and each is looked at by itself.
