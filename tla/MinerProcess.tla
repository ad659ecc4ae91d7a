------------------------------ MODULE MinerProcess ------------------------------
(***************************************************************************)
(* The miner's process from main() to its exit (src/main.cpp, miner.cpp,   *)
(* config.cpp, first_run.h), composed of the CPU tuning, the combination   *)
(* benchmark, the rotation plan of the worker pool and the console.        *)
(*                                                                         *)
(* "at" is where the main thread is.  A start may follow another with      *)
(* other settings or another build; the cache directory and the state of   *)
(* the terminal remain.  The process may be killed anywhere, and a signal  *)
(* kills it until Miner::run has installed its handlers.  Mining itself    *)
(* (StratumSession, HybridRound) is rounds of the pool, frames and lines.  *)
(* The build is the POSIX one: on Windows, a fatal error and Miner::run's   *)
(* exits 3 and 4 first wait for Enter (pause_before_exit).                 *)
(***************************************************************************)
EXTENDS RotationPlan, ComboBenchmark, SessionConsole

CONSTANTS
    Starts,         \* machine, settings and command line of every start; those
                    \* that may follow one are in its field "then"
    Environments,   \* what the first start may be
    Main            \* the main thread, one of Writers

ASSUME MinerProcessAssumption ==
    /\ Main \in Writers /\ Pieces \in Nat \ {0}
    /\ {WorkerSamples, WidthSamples, FinalSamples, SaveEvery, SampleBound} \subseteq Nat \ {0}

\* What config.cpp accepts.
Settings ==
    [cpu : BOOLEAN, threads : Nat, batch : Nat \ {0}, mode : {"off", "simple", "default", "full"},
     autotune : BOOLEAN, gpu : BOOLEAN, gpuTune : {"off", "auto", "full"},
     gpuAutotune : BOOLEAN, lanes : {1}, console : {"auto", "tui", "plain"}, debug : BOOLEAN]

\* What the system lists: every core has a CPU, no CPU is listed twice.
Topology(cores, hw) ==
    /\ cores \in Seq(Seq(0 .. hw - 1)) /\ \A c \in DOMAIN cores : cores[c] # <<>>
    /\ \A c, d \in DOMAIN cores : \A i \in DOMAIN cores[c], j \in DOMAIN cores[d] :
        cores[c][i] = cores[d][j] => c = d /\ i = j

KnownStart(e) ==
    /\ DOMAIN e = {"hw", "kernels", "cores", "combo", "retune", "disable", "learn", "readonly",
                   "bench", "discovered", "input", "interactive", "terminal", "log", "lines",
                   "workers", "affinity", "gpuCalibrate", "cuda", "devices", "pipeline", "cfg",
                   "schedules", "legacy", "then"}
    /\ e.hw \in Nat \ {0} /\ e.cfg \in Settings /\ e.kernels \in Kernels
    /\ Topology(e.cores, e.hw)
    /\ \A fp \in e.schedules : fp.cn \in Rotations
    /\ e.then \subseteq Starts

ASSUME StartsAssumption == Environments \subseteq Starts /\ \A e \in Starts : KnownStart(e)

VARIABLES
    at,     \* where the main thread is, "off" between two processes
    code,   \* exit code
    killed  \* the last process was killed

processVars == <<at, code, killed>>
tuningVars == <<env, cfg, disk, rt, stop, tune>>
poolVars == <<pool, store>>
vars == <<tuningVars, poolVars, bench, con, processVars>>

RuntimeInit == [lane |-> 1, widths |-> Scalar, affinity |-> "unpinned", measuring |-> FALSE]

Init ==
    /\ env = [then |-> Environments] /\ cfg = None
    /\ disk = [policy |-> <<>>, store |-> None, declined |-> FALSE, gpuProfile |-> FALSE]
    /\ rt = RuntimeInit /\ stop = FALSE /\ tune = IdleTune
    /\ pool = NoPool /\ store = None /\ bench = IdleBench
    /\ con = FreshConsole(FALSE, TRUE, FALSE)
    /\ at = "off" /\ code = 0 /\ killed = FALSE

Start ==
    /\ at = "off"
    /\ env' \in env.then /\ cfg' = env'.cfg
    /\ rt' = RuntimeInit /\ stop' = FALSE /\ tune' = IdleTune
    /\ pool' = NoPool /\ store' = None /\ bench' = IdleBench
    /\ con' = FreshConsole(con.alt, con.echo, env'.log)
    /\ at' = "configure" /\ code' = 0 /\ killed' = FALSE
    /\ UNCHANGED disk

\* Leave for the exit with a code.
Leave(c) == at' = "closing" /\ code' = c
Go(where) == at' = where /\ code' = code
-----------------------------------------------------------------------------
(* main() up to Miner::run.                                                *)

\* Help calls std::exit, which unwinds nothing of main() and destroys static
\* objects only; a bad option or file is fatal; a pool is required.
Configure ==
    /\ at = "configure"
    /\ CASE env.input = "help" -> at' = "statics" /\ code' = 0
         [] env.input = "bad" -> Leave(1)
         [] env.input = "no pool" -> Leave(2)
         [] OTHER -> Go("firstRun")
    /\ UNCHANGED <<tuningVars, poolVars, bench, con>>

HasCpuProfile == ~cfg.cpu \/ DOMAIN disk.policy # {}
HasGpuProfile == ~cfg.gpu \/ cfg.gpuTune = "off" \/ disk.gpuProfile
SafeConfig == IF HasCpuProfile THEN cfg ELSE [cfg EXCEPT !.mode = "off"]

\* Nothing is asked of a user who chose, declined before, or is not there.
FirstRun ==
    /\ at = "firstRun"
    /\ IF cfg.autotune \/ cfg.gpuAutotune \/ cfg.gpuTune = "full"
          \/ (HasCpuProfile /\ HasGpuProfile)
       THEN Go("display") /\ UNCHANGED cfg
       ELSE IF disk.declined \/ ~env.interactive
            THEN Go("display") /\ cfg' = SafeConfig
            ELSE Go("prompt") /\ UNCHANGED cfg
    /\ UNCHANGED <<env, disk, rt, stop, tune, poolVars, bench, con>>

\* The answer, or yes after thirty seconds.
Prompt ==
    /\ at = "prompt"
    /\ \/ /\ disk' = [disk EXCEPT !.declined = FALSE]
          /\ LET tuneCpu == cfg.cpu /\ ~HasCpuProfile
             IN  cfg' = [cfg EXCEPT !.autotune = tuneCpu,
                            !.mode = IF tuneCpu THEN "default" ELSE @,
                            !.gpuAutotune = cfg.gpu /\ cfg.gpuTune = "auto" /\ ~HasGpuProfile]
       \/ /\ disk' = [disk EXCEPT !.declined = ~env.readonly]
          /\ cfg' = [SafeConfig EXCEPT !.gpuAutotune = FALSE]
    /\ Go("display")
    /\ UNCHANGED <<env, rt, stop, tune, poolVars, bench, con>>

UseDashboard ==
    /\ env.terminal /\ con.mirror
    /\ cfg.console = "tui" \/ (cfg.console = "auto" /\ ~cfg.debug)

Display ==
    /\ at = "display"
    /\ rt' = [rt EXCEPT !.measuring = ~env.learn]
    /\ IF env.bench THEN Go("bench") ELSE Go("run")
    /\ IF UseDashboard /\ ~env.bench THEN OpenDashboard ELSE UNCHANGED con
    /\ UNCHANGED <<env, cfg, disk, stop, tune, poolVars, bench>>

\* The benchmark's own call of the tuning; the result decides whether it runs.
BenchTune ==
    /\ at = "bench"
    /\ IF cfg.cpu THEN BeginTuning /\ Go("benchTuning")
       ELSE Leave(2) /\ UNCHANGED <<rt, tune>>
    /\ UNCHANGED <<env, cfg, disk, stop, poolVars, bench, con>>

BenchBegin ==
    /\ at = "benchTuning" /\ tune.step = "returned"
    /\ IF BenchRefused = 0 THEN StartBench /\ Go("benchmarking")
       ELSE Leave(BenchRefused) /\ UNCHANGED <<rt, bench>>
    /\ UNCHANGED <<env, cfg, disk, stop, tune, poolVars, con>>

BenchStep ==
    /\ at = "benchmarking"
    /\ \/ BenchCombination /\ Go(at)
       \/ EndBench /\ Leave(IF AllFound THEN 0 ELSE 4)
    /\ UNCHANGED <<env, cfg, disk, stop, tune, poolVars, con>>
-----------------------------------------------------------------------------
(* Miner::run.                                                             *)

\* The flags are cleared and the handlers installed.
RunMiner ==
    /\ at = "run"
    /\ stop' = FALSE
    /\ env' = [env EXCEPT !.retune = @ \/ cfg.autotune]
    /\ IF cfg.cpu /\ cfg.mode # "off"
       THEN Go("beginTuning") /\ cfg' = [cfg EXCEPT !.lanes = 1]
       ELSE /\ Go("devices")
            /\ cfg' = [cfg EXCEPT !.lanes = 1,
                        !.threads = IF cfg.cpu /\ @ = 0 THEN env.hw ELSE @]
    /\ UNCHANGED <<disk, rt, tune, poolVars, bench, con>>

MinerTune ==
    /\ at = "beginTuning"
    /\ BeginTuning /\ Go("tuning")
    /\ UNCHANGED <<env, cfg, disk, stop, poolVars, bench, con>>

Tuning ==
    /\ at \in {"tuning", "benchTuning"}
    /\ TuneStep
    /\ UNCHANGED <<poolVars, bench, con, processVars>>

TuningDone ==
    /\ at = "tuning" /\ tune.step = "returned" /\ EndsLine(con.count[Main])
    /\ IF tune.interrupted \/ stop THEN Leave(130) /\ UNCHANGED cfg
       ELSE /\ Go("devices")
            /\ cfg' = [cfg EXCEPT !.threads = tune.best.threads, !.lanes = tune.best.lanes,
                                  !.batch = tune.best.batch]
    /\ UNCHANGED <<env, disk, rt, stop, tune, poolVars, bench, con>>

\* Overrides of the tuned workers and affinity; ones out of range are ignored.
OverriddenThreads == IF env.workers \in 1 .. env.hw THEN env.workers ELSE cfg.threads
OverriddenAffinity ==
    IF env.affinity \in {"unpinned", "physical"} THEN env.affinity ELSE rt.affinity

\* A calibration asked for leaves a profile when there is a device.
Calibrates == env.gpuCalibrate \/ cfg.gpuTune = "full" \/ cfg.gpuAutotune

\* The overrides, the lane width, then the devices.
Devices ==
    /\ at = "devices"
    /\ cfg' = [cfg EXCEPT !.threads = OverriddenThreads]
    /\ rt' = [rt EXCEPT !.lane = cfg.lanes, !.affinity = OverriddenAffinity]
    /\ LET found == env.cuda /\ cfg.gpu /\ env.devices > 0
       IN  /\ env' = [env EXCEPT !.gpuCalibrate = Calibrates]
           /\ disk' = [disk EXCEPT !.gpuProfile = @ \/ (found /\ Calibrates /\ ~env.readonly)]
           /\ CASE stop -> Leave(130)
                [] ~stop /\ ~cfg.cpu /\ ~found /\ (cfg.gpu \/ ~env.cuda) -> Leave(3)
                [] ~stop /\ ~cfg.cpu /\ found /\ ~env.pipeline -> Leave(4)
                [] OTHER -> Go("mining")
    /\ UNCHANGED <<stop, tune, poolVars, bench, con>>
-----------------------------------------------------------------------------
(* Mining and the exit.                                                    *)

PoolStep ==
    /\ \/ at = "mining" /\ cfg.cpu /\ ~stop /\ (MakePool \/ StartRound)
       \/ at = "mining" /\ (ChooseWidths \/ EndRound)
       \/ at \in {"mining", "statics"} /\ (LoadStore \/ TruncateStore \/ WriteStore)
       \/ at = "statics" /\ DestroyPool
    /\ UNCHANGED <<env, cfg, stop, tune, bench, con, processVars>>

MiningFrame ==
    /\ at = "mining" /\ con.active /\ ~stop
    /\ DrawMiningFrame
    /\ UNCHANGED <<tuningVars, poolVars, bench, processVars>>

\* The main thread prints while it tunes, where it also flushes unfinished
\* lines, and while it mines; GPU threads print while they mine.
MayPrint(w) ==
    /\ \/ at = "mining" /\ (~stop \/ ~EndsLine(con.count[w]))
       \/ at = "tuning" /\ w = Main
    /\ con.count[w] < Pieces * env.lines \/ ~EndsLine(con.count[w])
PrintPiece(w) ==
    /\ MayPrint(w) /\ WritePiece(w)
    /\ UNCHANGED <<tuningVars, poolVars, bench, processVars>>
FlushUnfinished ==
    /\ at = "tuning" /\ con.pending[Main] # <<>>
    /\ con' = Flush(Main)
    /\ UNCHANGED <<tuningVars, poolVars, bench, processVars>>

\* Client::run returns 0 once the round is over and the GPU threads are joined.
MiningOver ==
    /\ at = "mining" /\ stop /\ pool.step \in {"none", "idle"}
    /\ \A w \in Writers : EndsLine(con.count[w])
    /\ Leave(0)
    /\ UNCHANGED <<tuningVars, poolVars, bench, con>>

\* dashboard.reset(): the thread is told and joined, the screen given back.
LeaveScreen ==
    /\ at = "closing"
    /\ \/ con.active /\ ~con.halt /\ HaltRefresher /\ Go(at)
       \/ con.active /\ con.halt /\ CloseDashboard /\ Go("exit")
       \/ ~con.active /\ Go("exit") /\ UNCHANGED con
    /\ UNCHANGED <<tuningVars, poolVars, bench>>

\* main() returns: the log is closed, then static objects are destroyed.
CloseStreams ==
    /\ at = "exit"
    /\ CloseLog(Main) /\ Go("statics")
    /\ UNCHANGED <<tuningVars, poolVars, bench>>

\* The memory of the process is gone; disk and terminal stay as they are.
Gone ==
    /\ cfg' = None /\ rt' = RuntimeInit /\ stop' = FALSE
    /\ tune' = IdleTune /\ pool' = NoPool /\ store' = None /\ bench' = IdleBench
    /\ at' = "off"
    /\ UNCHANGED <<env, disk, code>>

ProcessEnds ==
    /\ at = "statics" /\ pool = NoPool
    /\ Gone
    /\ UNCHANGED <<con, killed>>

RequestStop ==
    /\ at \notin {"off", "configure", "firstRun", "prompt", "display", "run",
                  "bench", "benchTuning", "benchmarking"}
    /\ ~stop /\ stop' = TRUE
    /\ UNCHANGED <<env, cfg, disk, rt, tune, poolVars, bench, con, processVars>>

\* The process is gone; a write it had begun stays unfinished.
Kill ==
    /\ at # "off" /\ Gone /\ killed' = TRUE
    /\ con' = FreshConsole(con.alt, con.echo, FALSE)

RefreshThread == Refresher /\ UNCHANGED <<tuningVars, poolVars, bench, processVars>>

MainStep ==
    \/ (Configure \/ FirstRun \/ Prompt \/ Display \/ BenchTune \/ BenchBegin \/ BenchStep
        \/ RunMiner \/ MinerTune \/ TuningDone \/ Devices \/ MiningOver \/ LeaveScreen
        \/ CloseStreams) /\ UNCHANGED killed
    \/ ProcessEnds
    \/ Tuning \/ PoolStep \/ MiningFrame \/ PrintPiece(Main) \/ FlushUnfinished
GpuPrint == \E w \in Writers \ {Main} : PrintPiece(w)

Next == Start \/ MainStep \/ RefreshThread \/ GpuPrint \/ RequestStop \/ Kill

\* The threads of the process are scheduled; nobody has to start or stop it.
Spec == Init /\ [][Next]_vars
             /\ WF_vars(MainStep) /\ WF_vars(RefreshThread) /\ WF_vars(GpuPrint)
-----------------------------------------------------------------------------
Spread(cpus) ==
    LET CoreOf(i) == CHOOSE c \in DOMAIN env.cores : cpus[i] \in Range(env.cores[c])
    IN  \A i, j \in DOMAIN cpus : i < j =>
            /\ cpus[i] # cpus[j]
            /\ CoreOf(i) = CoreOf(j) =>
                \A c \in DOMAIN env.cores : \E k \in 1 .. j : CoreOf(k) = c

(* UsableTuning: whatever was measured, loaded from an earlier start or    *)
(* another ceiling, cut off or refused, a CPU that mines has lanes as wide *)
(* as its widest kernel, base widths this machine hashes right with, and   *)
(* pinned workers on CPUs of their own, every core before a second on any; *)
(* with tuned settings it has no more workers than it was allowed.         *)
UsableTuning ==
    pool # NoPool /\ at = "mining" =>
        /\ tune.step = "returned" /\ env.workers \notin 1 .. env.hw =>
            pool.threads \in 1 .. (IF env.cfg.threads = 0 THEN env.hw
                                   ELSE Min({env.cfg.threads, env.hw}))
        /\ pool.lanes = MaxWidth(pool.base)
        /\ pool.base = Scalar \/ WidthParity(pool.base)
        /\ Spread(pool.cpus)

\* No rule of the experimental policy file is for this policy.
Unruled(w) == \A r \in Rotations : Select(env.combo, r, w) = w

(* RightHashes: the digests of every group of a production round are right *)
(* on this machine, also after a cache from another build, a rotation      *)
(* change, a rejected or a learned policy, and so are those of the policy  *)
(* the combination benchmark reports, unless it is the cached one.  Left   *)
(* out: groups of two or three under a width of four, which run a kernel   *)
(* no parity test of the pool used, and rules of the experimental policy   *)
(* file: they are not tested for the rotation they apply to, and there     *)
(* they hide the widths they replace from the tests of a policy.           *)
RightHashes ==
    /\ pool # NoPool /\ pool.step = "hash" /\ at = "mining"
        /\ Unruled(pool.base) /\ Unruled(rt.widths) =>
        \A group \in 1 .. pool.lanes :
            \/ GroupRight(env.kernels, env.combo, pool.fp.cn, rt.widths, group)
            \/ group \in {2, 3} /\ \E v \in pool.fp.cn : rt.widths[v] = 4
    /\ bench.result # None /\ bench.result.widths # tune.best.widths =>
        GroupRight(env.kernels, env.combo, bench.result.rotation, bench.result.widths, 4)

(* ChoosingAdvances: where the reusable contexts are right and no rule     *)
(* replaces the base, a turn of the loop that looks for widths ends it or  *)
(* rejects a policy it had not rejected, never the base, so that the loop  *)
(* ends: there are finitely many.                                          *)
ChoosingAdvances ==
    [][/\ at = "mining" /\ pool.step = "widths" /\ pool'.step = "widths" /\ pool' # pool
       /\ OptimizedReady(env.kernels) /\ Unruled(pool.base)
       => \E w \in WidthPolicies \ pool.rejected : w # pool.base /\ w \in pool'.rejected]_vars

Restored ==
    /\ con.alt => con.found.alt
    /\ con.echo = con.found.echo /\ ~con.muted /\ con.thread = "none"
    /\ \A w \in Writers : con.pending[w] = <<>>

(* GivesBack: however a process ends, refused, after a benchmark or by a   *)
(* stop, it leaves the screen and the keyboard echo as it found them, no   *)
(* thread and nothing of a line unwritten, unless it is killed.            *)
GivesBack == at = "off" /\ ~killed => Restored

(* EndsCleanly: a stop requested while tuning, mining, choosing widths or  *)
(* saving ends the process, and so that it has given all of that back.  On *)
(* Windows, Devices' exits 3 and 4 would first wait for Enter.             *)
EndsCleanly == stop ~> (at = "off" /\ (killed \/ Restored))
=============================================================================
