-------------------------------- MODULE CnHash --------------------------------
(***************************************************************************)
(* Which kernel computes a CryptoNight stage of a GhostRider hash, and     *)
(* whether the digests of a group of nonces come out right                 *)
(* (src/ghostrider/ghostrider.cpp, src/cpu/cpu_combo_policy.h).            *)
(*                                                                         *)
(* A rotation is the set of CryptoNight variants its schedule uses; the    *)
(* core stages have one implementation and are left out.  The machine and  *)
(* the build decide what the 1-, 2- and 4-way kernels of a variant do:     *)
(* k.fails holds those that return 0, k.wrong those with other digests     *)
(* than the reference.  A width policy is a width for every variant.       *)
(***************************************************************************)
EXTENDS Integers, FiniteSets, Sequences

CONSTANTS
    VariantCount,   \* CryptoNight variants, 6 in the code
    Rotations,      \* the sets of variants a schedule can use, 3 of 6 in the code
    Representative, \* rotations of the headers that parity tests hash
    None

Variants == 0 .. VariantCount - 1
Widths == {1, 2, 4}
WidthPolicies == [Variants -> Widths]
Scalar == [v \in Variants |-> 1]

ASSUME CnHashAssumption ==
    /\ VariantCount \in Nat \ {0}
    /\ Rotations \subseteq SUBSET Variants
    /\ Representative \subseteq Rotations
    /\ UNION Representative = UNION Rotations

\* The set of kernels of one machine: the pairs of a variant and a width.
Kernels == [wrong : SUBSET (Variants \X Widths), fails : SUBSET (Variants \X {2, 4})]
-----------------------------------------------------------------------------
MaxWidth(w) == CHOOSE m \in {w[v] : v \in Variants} : \A v \in Variants : w[v] <= m
Changed(w, base) == {v \in Variants : w[v] # base[v]}
WithWidth(w, v, width) == [w EXCEPT ![v] = width]

\* The baseline and every policy that changes one variant of the rotation.
Singles(rotation, base) == {WithWidth(base, v, n) : v \in rotation, n \in Widths} \cup {base}

\* Combinations of the changes in "promising": every pair, and all of them
\* when there are three or more.
Merge(base, promising, chosen) ==
    [v \in Variants |-> IF v \in chosen THEN promising[v] ELSE base[v]]
Combinations(base, promising) ==
    {Merge(base, promising, chosen) : chosen \in
        {c \in SUBSET DOMAIN promising :
            Cardinality(c) = 2 \/ (c = DOMAIN promising /\ Cardinality(c) >= 3)}}

\* The experimental policy file: rules that replace the widths of a rotation,
\* for one baseline.  Reading stops at the first malformed entry.
PolicyValid(p) ==
    p # None /\ p.wellFormed /\ p.workers > 0 /\ p.batch > 0 /\ p.rules # <<>>

Select(p, rotation, base) ==
    LET hits == {i \in DOMAIN p.rules : p.rules[i].mask = rotation}
    IN  IF PolicyValid(p) /\ p.baseline = base /\ hits # {}
        THEN p.rules[CHOOSE i \in hits : \A j \in hits : i <= j].widths
        ELSE base
-----------------------------------------------------------------------------
\* The reusable contexts are used only if all of them match the reference.
OptimizedReady(k) == \A v \in Variants : <<v, 1>> \notin k.wrong

\* The kernel that hashes lane l, from 0, of a group of count.
KernelOf(width, l, count) ==
    CASE width = 4 /\ count = 4 -> 4
      [] width >= 2 /\ ~(width = 4 /\ count = 4) /\ l < 2 * (count \div 2) -> 2
      [] OTHER -> 1

KernelsOf(p, rotation, widths, count) ==
    LET effective == Select(p, rotation, widths)
    IN  {<<v, KernelOf(effective[v], l, count)>> : v \in rotation, l \in 0 .. count - 1}

\* hash_optimized_batch returns true.
BatchAccepted(k, p, rotation, widths, count) ==
    OptimizedReady(k) /\ KernelsOf(p, rotation, widths, count) \cap k.fails = {}

\* Four lanes hashed as a batch agree with the same nonces hashed one by one.
BatchParity(k, p, rotation, widths) ==
    /\ BatchAccepted(k, p, rotation, widths, 4)
    /\ KernelsOf(p, rotation, widths, 4) \cap k.wrong = {}

\* What a worker stores for a group of count nonces: the batch's digests, or
\* single hashes where the group is one nonce or the batch was refused.  A
\* single hash is right: it is the reference unless the contexts match it.
GroupRight(k, p, rotation, widths, count) ==
    \/ count = 1
    \/ ~BatchAccepted(k, p, rotation, widths, count)
    \/ KernelsOf(p, rotation, widths, count) \cap k.wrong = {}

\* The 2- or 4-way kernel of a variant agrees with the reusable context on
\* its own inputs.
StageParity(k, v, width) ==
    <<v, width>> \notin k.fails /\ (<<v, width>> \in k.wrong <=> <<v, 1>> \in k.wrong)
=============================================================================
