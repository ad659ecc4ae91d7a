---------------------------- MODULE MCMinerProcess ----------------------------
(***************************************************************************)
(* A small instance of MinerProcess: three CN variants, schedules of two,  *)
(* machines of one to three CPUs, and a set of starts that differ in what  *)
(* they are asked to do, so that each explores one part of the process and *)
(* every pair of them follows one another on the same disk.                *)
(***************************************************************************)
EXTENDS MinerProcess

CONSTANT Gpu

MCRotations == {{0, 1}, {0, 2}, {1, 2}}
MCRepresentative == {{0, 1}, {1, 2}}
MCWriters == {Main, Gpu}
MCQuickBatches == {16}
MCFullBatches == {8}
\* Kernels: width four is wrong or refuses nearly everywhere; a second build
\* gets width two of variant 0 wrong; on a third not even the reusable
\* contexts are right, and one has no wider kernels.
Built == [wrong |-> {<<1, 4>>}, fails |-> {<<0, 4>>, <<2, 4>>}]
Rebuilt == [Built EXCEPT !.wrong = @ \cup {<<0, 2>>}]
Unready == [Built EXCEPT !.wrong = @ \cup {<<2, 1>>}]
Narrow == [wrong |-> {}, fails |-> Variants \X {2, 4}]

\* A rule of the experimental policy file for one rotation.
Rule == [wellFormed |-> TRUE, workers |-> 2, batch |-> 16, baseline |-> Scalar,
         rules |-> <<[mask |-> {0, 1}, widths |-> WithWidth(Scalar, 1, 2)]>>]

Cpu == [cpu |-> TRUE, threads |-> 0, batch |-> 16, mode |-> "default", autotune |-> FALSE,
        gpu |-> FALSE, gpuTune |-> "auto", gpuAutotune |-> FALSE, lanes |-> 1,
        console |-> "plain", debug |-> FALSE]

\* Schedules: two of the same variants in the same order, and one that shares variant 1.
One == [cn |-> {0, 1}, order |-> <<0, 1>>, n |-> 1]
Same == [cn |-> {0, 1}, order |-> <<0, 1>>, n |-> 2]
Other == [cn |-> {1, 2}, order |-> <<2, 1>>, n |-> 3]

\* Measurements of an earlier version: another policy's, of no use here.
Old == [fp |-> One, policy |-> <<"standard">>, threads |-> 1, lanes |-> 1, batch |-> 16] :> 1

\* A CPU miner on two cores, one of which runs two threads, without learning.
Plain == [hw |-> 3, kernels |-> Built, cores |-> <<<<0, 2>>, <<1>>>>, combo |-> None,
          retune |-> FALSE, disable |-> FALSE, learn |-> FALSE, readonly |-> FALSE,
          bench |-> FALSE, discovered |-> Rotations, input |-> "ok",
          interactive |-> FALSE, terminal |-> TRUE, log |-> TRUE, lines |-> 0,
          workers |-> 0, affinity |-> "none", gpuCalibrate |-> FALSE, cuda |-> TRUE,
          devices |-> 1, pipeline |-> TRUE, cfg |-> Cpu,
          schedules |-> {One}, legacy |-> None, then |-> {}]
Single == [Plain EXCEPT !.hw = 1, !.cores = <<<<0>>>>, !.kernels = Narrow]

\* A first tuning, then its cache: on another build and under a smaller ceiling
\* with a rule in the policy file; the benchmark of combinations; another
\* search on a disk that cannot be written.
OtherBuild == [Plain EXCEPT !.kernels = Rebuilt]
Fewer == [Plain EXCEPT !.cfg.threads = 2, !.combo = Rule, !.affinity = "physical"]
Bench == [Plain EXCEPT !.bench = TRUE]
Again == [Single EXCEPT !.cfg.mode = "full", !.retune = TRUE, !.readonly = TRUE]
Tunes == [Plain EXCEPT !.cfg.autotune = TRUE, !.cfg.gpuAutotune = TRUE,
          !.then = {OtherBuild, Fewer, Bench, Again, [Bench EXCEPT !.discovered = {}]}]

\* Learning: widths for schedules that share a variant, from measurements of
\* an earlier version; workers for schedules of the same variants; both.
Learns == [Plain EXCEPT !.hw = 2, !.kernels = Rebuilt, !.cores = <<>>, !.learn = TRUE,
           !.legacy = Old, !.cfg.mode = "off"]
LearnsWidths == [Learns EXCEPT !.hw = 1, !.schedules = {One, Other},
                 !.kernels.fails = @ \cup {<<2, 2>>}]
LearnsWorkers == [Learns EXCEPT !.schedules = {One, Same}, !.kernels = Narrow]

\* The dashboard while tuning and mining, with a GPU thread that prints.
Screen == [Single EXCEPT !.lines = 1, !.cfg.console = "tui", !.cfg.gpu = TRUE,
           !.cfg.autotune = TRUE, !.cfg.gpuAutotune = TRUE]

\* Starts that are refused, ask the user, or find no device to mine with.
NoCpu == [Single EXCEPT !.cfg.cpu = FALSE, !.cfg.gpu = TRUE]
Odd == {[Single EXCEPT !.input = i] : i \in {"help", "bad", "no pool"}}
       \cup {[NoCpu EXCEPT !.devices = 0], [NoCpu EXCEPT !.pipeline = FALSE],
             [NoCpu EXCEPT !.gpuCalibrate = TRUE], [NoCpu EXCEPT !.bench = TRUE],
             [Single EXCEPT !.interactive = TRUE, !.workers = 1, !.kernels = Unready,
                            !.then = {Single}]}
MCEnvironments ==
    Odd \cup {Tunes, Learns, LearnsWidths, LearnsWorkers,
              [Screen EXCEPT !.then = {[Screen EXCEPT !.cfg.autotune = FALSE, !.cfg.gpuAutotune = FALSE]}]}
MCStarts == UNION {e.then \cup {e} : e \in MCEnvironments}
=============================================================================
