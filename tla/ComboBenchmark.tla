---------------------------- MODULE ComboBenchmark ----------------------------
(***************************************************************************)
(* The offline benchmark of CryptoNight combinations                       *)
(* (src/cpu/cpu_combo_benchmark.h): for every rotation it looks for a      *)
(* width policy that beats the cached production policy, with the same     *)
(* abstraction of rates as CpuAutotune.                                    *)
(***************************************************************************)
EXTENDS CpuAutotune

VARIABLE
    bench   \* rotations still to test, settings to restore, last result

IdleBench == [left |-> {}, saved |-> None, result |-> None]

\* What the call returns before it changes anything, or 0.
BenchRefused ==
    CASE tune.interrupted -> 130
      [] ~tune.cached -> 3
      [] OTHER -> 0

\* The guard remembers the runtime settings, which the policy then replaces.
\* Nothing is tested unless headers are found for every rotation.
AllFound == env.discovered = Rotations
StartBench ==
    /\ bench' = [left |-> IF AllFound THEN Rotations ELSE {}, result |-> None,
                 saved |-> [widths |-> rt.widths, measuring |-> rt.measuring]]
    /\ rt' = [lane |-> tune.best.lanes, widths |-> tune.best.widths,
              affinity |-> tune.best.affinity, measuring |-> TRUE]

(* Mutant: a policy the kernels do not refuse counts as right. *)
MutBenchProven(rotation, policies) ==
    {w \in policies : BatchAccepted(env.kernels, env.combo, rotation, w, 4)}

BenchProven(rotation, policies) ==
    {w \in policies : BatchParity(env.kernels, env.combo, rotation, w)}

\* The policies a rotation may end with: the baseline; and, if the baseline
\* itself is right there, the proven single changes and the proven
\* combinations of single changes that did better.
Selectable(rotation, base) ==
    LET singles == BenchProven(rotation, Singles(rotation, base))
        Better(v) == {w[v] : w \in {s \in singles : Changed(s, base) = {v}}}
        winners == {v \in rotation : Better(v) # {}}
        promising == {p \in UNION {[vs -> Widths] : vs \in SUBSET winners} :
                        \A v \in DOMAIN p : p[v] \in Better(v)}
        combined == UNION {Combinations(base, p) : p \in promising}
    IN  {base} \cup IF base \in singles
                    THEN singles \cup BenchProven(rotation, combined) ELSE {}

\* One rotation; every benchmark leaves its widths in the runtime settings.
BenchCombination ==
    \E r \in bench.left : \E w \in Selectable(r, tune.best.widths) :
        /\ bench' = [bench EXCEPT !.left = @ \ {r}, !.result = [rotation |-> r, widths |-> w]]
        /\ rt' = [rt EXCEPT !.widths = w]

EndBench ==
    /\ bench.left = {}
    /\ rt' = [rt EXCEPT !.widths = bench.saved.widths, !.measuring = bench.saved.measuring]
    /\ UNCHANGED bench
=============================================================================
