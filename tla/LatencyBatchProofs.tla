--------------------------- MODULE LatencyBatchProofs ---------------------------
(***************************************************************************)
(* Proofs about LatencyBatch and the engine it extends, for every set of   *)
(* rotations, page sizes, memory budget, capacity, quantum and limit of    *)
(* the controller that meets the assumptions.                              *)
(***************************************************************************)
EXTENDS LatencyBatch, FiniteSetTheorems, WellFoundedInduction, TLAPS

(* A tuning state has only timings of its own batch, and an open choice    *)
(* waits for more of them.                                                 *)
Tuning(t) ==
    /\ t.at \subseteq {t.count}
    /\ t.samples > 0 => t.at = {t.count}
    /\ ~t.selected => t.samples < Samples

Geometry ==
    /\ Tuning(live)
    /\ \A i \in 0..SlotCount - 1 : Tuning(slots[i].state)
    /\ \A n \in 1..Capacity : files[n] \subseteq {n}

(* What memory allows for the job that is loaded.                          *)
Fits(n) == n = 1 \/ n <= Budget \div Page[job]

(* The scan in flight runs the learned batch or a part of it.              *)
InFlight ==
    flight # None =>
        /\ job # None /\ size = flight.count
        /\ flight.count <= flight.learned
        /\ flight.short <=> flight.count < flight.learned

(* The batches of a job: its own, the one learned and the one running.     *)
Bounds ==
    job # None =>
        /\ base \in 1..Capacity /\ Fits(base)
        /\ Learned \in 1..Capacity /\ Fits(Learned) /\ size <= Learned
        /\ 4 * Learned <= (IF grown THEN 5 ELSE 4) * base
        /\ latency => Learned >= Floor(base)

(* Only a job without a latency target grows, and once.                    *)
Growing == grown => ~latency /\ growth.tried

(* A pending probe, and what it will be compared with.                     *)
Probing(r) ==
    LET m == memory[r]
    IN  /\ m.clean > 0 => m.over = {m.batch}
        /\ m.probe # 0 =>
            /\ latency /\ m.against = {m.from} /\ m.from < m.probe
            /\ job = r => Learned = m.probe /\ m.from \in Floor(base)..base

IInv ==
    /\ TypeOK /\ Geometry /\ InFlight /\ Bounds /\ Growing
    /\ \A r \in Rotations : Probing(r)
--------------------------------------------------------------------------------

(* Least and greatest elements                                             *)

LEMMA LeastExists ==
    ASSUME NEW S \in SUBSET Nat, S # {}
    PROVE  \E x \in S : \A y \in S : x =< y
  <1>1. IsWellFoundedOn(OpToRel(<, Nat), Nat)
    BY NatLessThanWellFounded
  <1>2. PICK x \in S : \A y \in S : ~ (<<y, x>> \in OpToRel(<, Nat))
    BY <1>1, WFMin
  <1>3. \A y \in S : ~ (y < x)
    BY <1>2 DEF OpToRel
  <1> QED  BY <1>3

LEMMA MinFacts ==
    ASSUME NEW S \in SUBSET Nat, S # {}
    PROVE  Min(S) \in S
  BY LeastExists DEF Min

LEMMA MinPair ==
    ASSUME NEW a \in Int, NEW b \in Int
    PROVE  Min({a, b}) = IF a <= b THEN a ELSE b
  BY DEF Min

LEMMA MaxPair ==
    ASSUME NEW a \in Int, NEW b \in Int
    PROVE  Max({a, b}) = IF a >= b THEN a ELSE b
  BY DEF Max

LEMMA MinThree ==
    ASSUME NEW a \in Int, NEW b \in Int, NEW c \in Int
    PROVE  /\ Min({a, b, c}) \in {a, b, c}
           /\ Min({a, b, c}) <= a /\ Min({a, b, c}) <= b /\ Min({a, b, c}) <= c
  <1>1. \E x \in {a, b, c} : \A y \in {a, b, c} : x =< y
    <2>1. CASE a <= b /\ a <= c
      BY <2>1
    <2>2. CASE b <= a /\ b <= c
      BY <2>2
    <2>3. CASE c <= a /\ c <= b
      BY <2>3
    <2> QED  BY <2>1, <2>2, <2>3
  <1> QED  BY <1>1 DEF Min

LEMMA MaxThree ==
    ASSUME NEW a \in Int, NEW b \in Int, NEW c \in Int
    PROVE  /\ Max({a, b, c}) \in {a, b, c}
           /\ Max({a, b, c}) >= a /\ Max({a, b, c}) >= b /\ Max({a, b, c}) >= c
  <1>1. \E x \in {a, b, c} : \A y \in {a, b, c} : x >= y
    <2>1. CASE a >= b /\ a >= c
      BY <2>1
    <2>2. CASE b >= a /\ b >= c
      BY <2>2
    <2>3. CASE c >= a /\ c >= b
      BY <2>3
    <2> QED  BY <2>1, <2>2, <2>3
  <1> QED  BY <1>1 DEF Max
--------------------------------------------------------------------------------
(* Batch sizes                                                             *)

(* The constants that are numbers.                                         *)
LEMMA Numbers ==
    /\ Capacity \in Nat \ {0} /\ Budget \in Nat \ {0} /\ Align \in Nat \ {0}
    /\ Samples \in Nat \ {0} /\ SlotCount \in Nat \ {0} /\ MinTuned \in Nat
    /\ Quantum \in Nat \ {0} /\ MinBatch \in Nat \ {0} /\ OpeningBatch \in Nat \ {0}
    /\ Stable \in Nat \ {0} /\ MarginalWins \in Nat \ {0} /\ LostCooldown \in Nat
    /\ WonCooldown \in Nat /\ Confirmed \in Nat /\ Reopen \in Nat /\ CleanScans \in Nat \ {0}
    /\ Confirmed > 2 /\ Reopen >= Confirmed /\ OpeningBatch <= Capacity
  BY BatchEngineAssumption, LatencyBatchAssumption

LEMMA Multiples ==
    ASSUME NEW n \in Nat, NEW q \in Nat \ {0}
    PROVE  /\ (n \div q) * q \in Nat /\ (n \div q) * q <= n
           /\ n >= q => (n \div q) * q >= q
  <1>1. n \div q \in Nat /\ (n \div q) * q <= n
    OBVIOUS
  <1>2. (n \div q) * q \in Nat
    BY <1>1
  <1>3. ASSUME n >= q PROVE (n \div q) * q >= q
    <2>1. n \div q >= 1
      BY <1>3
    <2>2. (n \div q) * q = q + (n \div q - 1) * q
      BY <1>1
    <2>3. (n \div q - 1) * q \in Nat
      BY <1>1, <2>1
    <2> QED  BY <2>2, <2>3
  <1> QED  BY <1>1, <1>2, <1>3

LEMMA DownFacts ==
    ASSUME NEW n \in Nat
    PROVE  Down(n) \in Nat /\ Down(n) <= n
  BY Multiples, Numbers DEF Down

LEMMA RoundFacts ==
    ASSUME NEW n \in Nat
    PROVE  /\ RoundTo(n, Align) \in Nat /\ RoundTo(n, Align) <= n
           /\ n >= 1 => RoundTo(n, Align) >= 1
  BY Multiples, Numbers DEF RoundTo

LEMMA ClampFacts ==
    ASSUME NEW n \in Int, NEW low \in Int, NEW high \in Int, low <= high
    PROVE  /\ Clamp(n, low, high) \in low..high
           /\ n \in low..high => Clamp(n, low, high) = n
  <1>1. Min({n, high}) = IF n <= high THEN n ELSE high
    BY MinPair
  <1>2. Min({n, high}) \in Int
    BY <1>1
  <1>3. Clamp(n, low, high) = IF low >= Min({n, high}) THEN low ELSE Min({n, high})
    BY <1>2, MaxPair DEF Clamp
  <1> QED  BY <1>1, <1>3

LEMMA FloorFacts ==
    ASSUME NEW b \in 1..Capacity
    PROVE  Floor(b) \in 1..b
  <1>1. b \in Nat /\ b >= 1 /\ b \div 4 \in Nat
    BY Numbers
  <1>2. Down(b \div 4) \in Nat
    BY <1>1, DownFacts
  <1>3. PICK d \in Nat : d = Down(b \div 4)
    BY <1>2
  <1>4. Max({MinBatch, d}) = IF MinBatch >= d THEN MinBatch ELSE d
    BY MaxPair, Numbers
  <1>5. PICK m \in Nat : m = Max({MinBatch, d}) /\ m >= 1
    BY <1>4, Numbers
  <1>6. Min({b, m}) = IF b <= m THEN b ELSE m
    BY <1>1, MinPair
  <1>7. Floor(b) = Min({b, m})
    BY <1>3, <1>5 DEF Floor
  <1> QED  BY <1>1, <1>5, <1>6, <1>7

LEMMA DesiredFacts ==
    ASSUME NEW b \in 1..Capacity, NEW d \in Desired(b)
    PROVE  d \in Floor(b)..b
  <1>1. PICK n \in 0..b : d = Clamp(Down(n), Floor(b), b)
    BY DEF Desired
  <1>2. n \in Nat /\ b \in Int
    BY Numbers
  <1>3. Down(n) \in Int /\ Floor(b) \in Int /\ Floor(b) <= b
    BY <1>2, DownFacts, FloorFacts
  <1> QED  BY <1>1, <1>2, <1>3, ClampFacts

LEMMA ResizedFacts ==
    ASSUME base \in 1..Capacity, NEW n \in 1..Capacity, NEW d \in Resized(n)
    PROVE  d \in Floor(base)..base
  <1>1. PICK w \in Desired(base) :
           d = Clamp(IF w < n THEN Max({w, Floor(base), Down((n * 3) \div 4)})
                     ELSE IF w > n THEN Min({w, base, Down((n * 5) \div 4)}) ELSE n,
                     Floor(base), base)
    BY DEF Resized
  <1>2. /\ w \in Int /\ n \in Int /\ base \in Int
        /\ Floor(base) \in Int /\ Floor(base) <= base
    BY DesiredFacts, FloorFacts, Numbers
  <1>3. (n * 3) \div 4 \in Nat /\ (n * 5) \div 4 \in Nat
    BY Numbers
  <1>4. PICK u \in Int, v \in Int, f \in Int :
           u = Down((n * 3) \div 4) /\ v = Down((n * 5) \div 4) /\ f = Floor(base)
    BY <1>2, <1>3, DownFacts
  <1>5. Max({w, f, u}) \in Int /\ Min({w, base, v}) \in Int
    <2>1. Max({w, f, u}) \in {w, f, u}
      BY <1>2, MaxThree
    <2>2. Min({w, base, v}) \in {w, base, v}
      BY <1>2, MinThree
    <2> QED  BY <1>2, <2>1, <2>2
  <1>6. (IF w < n THEN Max({w, f, u}) ELSE IF w > n THEN Min({w, base, v}) ELSE n) \in Int
    BY <1>2, <1>5
  <1>7. d = Clamp(IF w < n THEN Max({w, f, u})
                  ELSE IF w > n THEN Min({w, base, v}) ELSE n, f, base)
    BY <1>1, <1>4
  <1> QED  BY <1>2, <1>4, <1>6, <1>7, ClampFacts

(* The batch of a job fits the capacity and the scratchpads' budget.       *)
LEMMA SafeFacts ==
    ASSUME NEW r \in Rotations
    PROVE  /\ Safe(r) \in 1..Capacity
           /\ Safe(r) = 1 \/ Safe(r) <= Budget \div Page[r]
  <1>1. Page[r] \in Nat \ {0}
    BY BatchEngineAssumption
  <1>2. Budget \div Page[r] \in Nat
    BY <1>1, Numbers
  <1>3. Min({Capacity, Budget \div Page[r]}) =
           IF Capacity <= Budget \div Page[r] THEN Capacity ELSE Budget \div Page[r]
    BY <1>2, MinPair, Numbers
  <1>4. PICK m \in Nat : m = Min({Capacity, Budget \div Page[r]})
    BY <1>2, <1>3, Numbers
  <1>5. Max({1, m}) = IF 1 >= m THEN 1 ELSE m
    BY MaxPair
  <1>6. Safe(r) = Max({1, m})
    BY <1>4 DEF Safe
  <1> QED  BY <1>2, <1>3, <1>4, <1>5, <1>6, Numbers

LEMMA TunedFacts ==
    ASSUME NEW r \in Rotations, NEW t \in Tuned(r)
    PROVE  t \in 1..Capacity
  <1>1. CASE Preferred[r] # {} /\ Preferred[r] \subseteq 1..Capacity
    <2>1. Preferred[r] \in SUBSET Nat
      BY BatchEngineAssumption
    <2>2. t = Min(Preferred[r])
      BY <1>1 DEF Tuned
    <2> QED  BY <1>1, <2>1, <2>2, MinFacts
  <1>2. CASE ~(Preferred[r] # {} /\ Preferred[r] \subseteq 1..Capacity)
    BY <1>2 DEF Tuned
  <1> QED  BY <1>1, <1>2

LEMMA AdaptiveFacts ==
    ASSUME NEW r \in Rotations, NEW c \in Caps, NEW t \in Tuned(r)
    PROVE  /\ AdaptiveBatch(r, t, c) \in 1..Capacity
           /\ AdaptiveBatch(r, t, c) = 1 \/ AdaptiveBatch(r, t, c) <= Budget \div Page[r]
  <1>1. c \in Nat /\ Budget \div Page[r] \in Nat
    BY BatchEngineAssumption, Numbers
  <1>2. t \in 1..Capacity /\ Safe(r) \in 1..Capacity
    BY TunedFacts, SafeFacts
  <1>3. Min({t, Safe(r)}) \in Nat /\ Min({t, Safe(r)}) >= 1 /\ Min({t, Safe(r)}) <= Safe(r)
    BY <1>2, MinPair, Numbers
  <1>4. Min({c, Safe(r)}) \in Nat /\ Min({c, Safe(r)}) <= Safe(r)
    BY <1>1, <1>2, MinPair, Numbers
  <1>5. RoundTo(Min({c, Safe(r)}), Align) \in Nat
        /\ RoundTo(Min({c, Safe(r)}), Align) <= Min({c, Safe(r)})
    BY <1>4, RoundFacts
  <1> DEFINE capped == Max({1, RoundTo(Min({c, Safe(r)}), Align)})
  <1>6. capped = IF 1 >= RoundTo(Min({c, Safe(r)}), Align) THEN 1
                 ELSE RoundTo(Min({c, Safe(r)}), Align)
    <2>1. PICK k \in Nat : k = RoundTo(Min({c, Safe(r)}), Align)
      BY <1>5
    <2>2. Max({1, k}) = IF 1 >= k THEN 1 ELSE k
      BY MaxPair
    <2> QED  BY <2>1, <2>2
  <1>7. capped \in Nat /\ capped >= 1 /\ capped <= Safe(r)
    BY <1>2, <1>4, <1>5, <1>6
  <1> HIDE DEF capped
  <1>8. Min({Min({t, Safe(r)}), capped}) \in Nat /\ Min({Min({t, Safe(r)}), capped}) >= 1
        /\ Min({Min({t, Safe(r)}), capped}) <= Safe(r)
    BY <1>2, <1>3, <1>7, MinPair
  <1>9. PICK n \in Nat : n >= 1 /\ n <= Safe(r) /\ AdaptiveBatch(r, t, c) = RoundTo(n, Align)
    <2>1. AdaptiveBatch(r, t, c) =
             RoundTo(IF c > 0 /\ Min({t, Safe(r)}) >= MinTuned
                     THEN Min({Min({t, Safe(r)}), capped}) ELSE Min({t, Safe(r)}), Align)
      BY DEF AdaptiveBatch, capped
    <2> QED  BY <1>3, <1>8, <2>1
  <1>10. RoundTo(n, Align) \in Nat /\ RoundTo(n, Align) >= 1 /\ RoundTo(n, Align) <= Safe(r)
    BY <1>2, <1>9, RoundFacts
  <1> QED  BY <1>1, <1>2, <1>9, <1>10, SafeFacts, Numbers

(* Growth is by a quarter, within the budget.                              *)
LEMMA GrowthFacts ==
    ASSUME NEW b \in Nat, NEW limit \in Nat
    PROVE  /\ GrowthTarget(b, limit) \in Nat
           /\ GrowthTarget(b, limit) > b =>
                 /\ GrowthTarget(b, limit) <= limit
                 /\ 4 * GrowthTarget(b, limit) <= 5 * b
  <1>1. CASE b = 0 \/ limit <= b
    BY <1>1 DEF GrowthTarget
  <1>2. CASE ~(b = 0 \/ limit <= b)
    <2>1. b + b \div 4 \in Nat /\ 4 * (b + b \div 4) <= 5 * b
      OBVIOUS
    <2>2. Min({b + b \div 4, limit}) \in Nat /\ Min({b + b \div 4, limit}) <= limit
          /\ Min({b + b \div 4, limit}) <= b + b \div 4
      BY <2>1, MinPair
    <2> DEFINE n == (Min({b + b \div 4, limit}) \div Align) * Align
    <2>3. n \in Nat /\ n <= Min({b + b \div 4, limit})
      BY <2>2, Multiples, Numbers
    <2>4. GrowthTarget(b, limit) = Max({b, n})
      BY <1>2 DEF GrowthTarget
    <2> HIDE DEF n
    <2>5. GrowthTarget(b, limit) = IF b >= n THEN b ELSE n
      BY <2>3, <2>4, MaxPair
    <2> QED  BY <2>1, <2>2, <2>3, <2>5
  <1> QED  BY <1>1, <1>2

--------------------------------------------------------------------------------
(* Tuning states                                                           *)

EngineType ==
    /\ retune \in BOOLEAN /\ experiment \in {"off", "untested", "pass", "fail"}
    /\ active \in Sizes
    /\ live \in TuneStates
    /\ slots \in [0..SlotCount - 1 -> [count : Sizes, state : TuneStates]]
    /\ files \in [1..Capacity -> SUBSET (1..Capacity)]

LEMMA EngineTyped == TypeOK => EngineType
  BY DEF TypeOK, EngineType

LEMMA StateFields ==
    ASSUME NEW t \in TuneStates
    PROVE  /\ t = [loop |-> t.loop, init |-> t.init, selected |-> t.selected,
                   count |-> t.count, samples |-> t.samples, at |-> t.at]
           /\ t.loop \in {"new", "timed", "chosen"} /\ t.init \in BOOLEAN /\ t.selected \in BOOLEAN
           /\ t.count \in Sizes /\ t.samples \in 0..Samples /\ t.at \in SUBSET (1..Capacity)
  BY DEF TuneStates

LEMMA FreshTuning == Fresh \in TuneStates /\ Tuning(Fresh)
  <1>1. 0 \in Sizes /\ 0 \in 0..Samples /\ 0 < Samples
    BY Numbers DEF Sizes
  <1> QED  BY <1>1 DEF Fresh, TuneStates, Tuning

LEMMA InitializedTuning ==
    ASSUME EngineType, Geometry, NEW n \in 1..Capacity
    PROVE  Initialized(n) \in TuneStates /\ Tuning(Initialized(n))
  <1>1. PICK b \in BOOLEAN, a \in SUBSET (1..Capacity) : b = ~retune /\ a = CachedAt(n)
    BY DEF EngineType, CachedAt
  <1>2. a \subseteq {n}
    BY <1>1 DEF CachedAt, Geometry
  <1>3. Initialized(n) = [loop |-> "chosen", init |-> TRUE, selected |-> b, count |-> n,
                          samples |-> 0, at |-> a]
    <2>1. Initialized(n) = [Fresh EXCEPT !.loop = "chosen", !.init = TRUE, !.count = n,
                                         !.selected = b, !.at = a]
      BY <1>1 DEF Initialized
    <2> QED  BY <2>1 DEF Fresh
  <1>4. n \in Sizes /\ 0 \in 0..Samples /\ 0 < Samples
    BY Numbers DEF Sizes
  <1> QED  BY <1>2, <1>3, <1>4 DEF TuneStates, Tuning

(* A sample is taken of the batch the state is for, while it is open.      *)
LEMMA SampledTuning ==
    ASSUME NEW t \in TuneStates, Tuning(t), NEW n \in 1..Capacity, Sampling(t, n)
    PROVE  /\ Sampled(t, n) \in TuneStates /\ Tuning(Sampled(t, n))
           /\ Sampled(t, n).count = t.count
  <1>1. /\ t.count = n /\ t.samples \in 0..Samples /\ t.samples < Samples
        /\ t.at \subseteq {n} /\ Samples \in Nat
    BY StateFields, Numbers DEF Sampling, Tuning
  <1>2. PICK b \in BOOLEAN : b = (t.samples + 1 = Samples)
    OBVIOUS
  <1>3. Sampled(t, n) = [loop |-> t.loop, init |-> t.init, selected |-> b,
                         count |-> n, samples |-> t.samples + 1, at |-> {n}]
    <2>1. Sampled(t, n) = [t EXCEPT !.samples = t.samples + 1, !.at = t.at \cup {n},
                                    !.selected = b]
      BY <1>2 DEF Sampled
    <2>2. t.at \cup {n} = {n}
      BY <1>1
    <2>3. Sampled(t, n) = [t EXCEPT !.samples = t.samples + 1, !.at = {n},
                                    !.selected = b]
      BY <2>1, <2>2
    <2> QED  BY <1>1, <2>3, StateFields
  <1>4. t.samples + 1 \in 0..Samples /\ (~b => t.samples + 1 < Samples)
    <2>1. t.samples + 1 \in 0..Samples /\ t.samples + 1 > 0
          /\ (t.samples + 1 # Samples => t.samples + 1 < Samples)
      BY <1>1
    <2>2. ~b => t.samples + 1 # Samples
      BY <1>2
    <2> QED  BY <2>1, <2>2
  <1>5. n \in Sizes /\ {n} \in SUBSET (1..Capacity) /\ t.loop \in {"new", "timed", "chosen"}
        /\ t.init \in BOOLEAN
    BY StateFields, Numbers DEF Sizes
  <1> QED  BY <1>1, <1>3, <1>4, <1>5 DEF TuneStates, Tuning

(* Activating a batch saves and restores states as they are.               *)
LEMMA SlotsForFacts ==
    ASSUME EngineType, Geometry, NEW n
    PROVE  /\ SlotsFor(n) \in [0..SlotCount - 1 -> [count : Sizes, state : TuneStates]]
           /\ \A i \in 0..SlotCount - 1 : Tuning(SlotsFor(n)[i].state)
  <1>1. CASE SlotsFor(n) = slots
    BY <1>1 DEF EngineType, Geometry
  <1>2. CASE SlotsFor(n) = [slots EXCEPT ![WritableSlot(active)] =
                               [count |-> active, state |-> live]]
    <2>1. PICK s : s = [count |-> active, state |-> live]
      OBVIOUS
    <2>2. s \in [count : Sizes, state : TuneStates] /\ s.state = live
      BY <2>1 DEF EngineType
    <2>3. PICK w : SlotsFor(n) = [slots EXCEPT ![w] = s]
      BY <1>2, <2>1
    <2> QED  BY <2>2, <2>3 DEF EngineType, Geometry
  <1> QED  BY <1>1, <1>2 DEF SlotsFor, Saved

LEMMA LiveForFacts ==
    ASSUME EngineType, Geometry, NEW n
    PROVE  LiveFor(n) \in TuneStates /\ Tuning(LiveFor(n))
  <1> DEFINE own == {i \in DOMAIN slots : SlotsFor(n)[i].count = n}
  <1>1. CASE active = n
    BY <1>1 DEF LiveFor, EngineType, Geometry
  <1>2. CASE active # n /\ own = {}
    BY <1>2, FreshTuning DEF LiveFor
  <1>3. CASE active # n /\ own # {}
    <2>1. own \subseteq 0..SlotCount - 1 /\ own \in SUBSET Nat
      BY Numbers DEF EngineType
    <2>2. Min(own) \in 0..SlotCount - 1
      BY <1>3, <2>1, MinFacts
    <2>3. LiveFor(n) = SlotsFor(n)[Min(own)].state
      BY <1>3 DEF LiveFor
    <2> HIDE DEF own
    <2>4. SlotsFor(n)[Min(own)] \in [count : Sizes, state : TuneStates]
      BY <2>2, SlotsForFacts
    <2> QED  BY <2>2, <2>3, <2>4, SlotsForFacts
  <1> QED  BY <1>1, <1>2, <1>3

(* What the launch of a scan does to the tuning and to the cache files.    *)
LEMMA LoopFacts ==
    ASSUME EngineType, Geometry, NEW n \in 1..Capacity, NEW t \in TuneStates, Tuning(t),
           LaunchLoop(n, t)
    PROVE  /\ live' \in TuneStates /\ Tuning(live')
           /\ files' \in [1..Capacity -> SUBSET (1..Capacity)]
           /\ \A b \in 1..Capacity : files'[b] \subseteq {b}
  <1>0. /\ files \in [1..Capacity -> SUBSET (1..Capacity)]
        /\ \A b \in 1..Capacity : files[b] \subseteq {b}
    BY DEF EngineType, Geometry
  <1> DEFINE g == IF t.init THEN t ELSE Initialized(n)
             s == IF Sampling(g, n) THEN Sampled(g, n) ELSE g
  <1>1. g \in TuneStates /\ Tuning(g)
    BY InitializedTuning
  <1>2. s \in TuneStates /\ Tuning(s)
    <2> HIDE DEF g
    <2> QED  BY <1>1, SampledTuning
  <1>3. CASE /\ live' = t \/ \E loop \in {"timed", "chosen"} : live' = [t EXCEPT !.loop = loop]
             /\ UNCHANGED files
    <2>1. ASSUME NEW loop \in {"timed", "chosen"}
          PROVE  [t EXCEPT !.loop = loop] \in TuneStates /\ Tuning([t EXCEPT !.loop = loop])
      BY StateFields DEF TuneStates, Tuning
    <2> QED  BY <1>0, <1>3, <2>1
  <1>4. CASE live' = s /\ SaveGeometry(g, s)
    <2>1. files' = [files EXCEPT ![s.count] = s.at] \/ files' = files
      BY <1>4 DEF SaveGeometry
    <2>2. s.at \in SUBSET (1..Capacity) /\ s.at \subseteq {s.count}
      BY <1>2, StateFields DEF Tuning
    <2> HIDE DEF s, g
    <2>3. /\ files' \in [1..Capacity -> SUBSET (1..Capacity)]
          /\ \A b \in 1..Capacity : files'[b] \subseteq {b}
      BY <1>0, <2>1, <2>2
    <2> QED  BY <1>2, <1>4, <2>3
  <1> QED  BY <1>3, <1>4 DEF LaunchLoop

LEMMA PhasesFacts ==
    ASSUME EngineType, Geometry, NEW n \in 1..Capacity, NEW t \in TuneStates, Tuning(t),
           LaunchPhases(n, t)
    PROVE  /\ live' \in TuneStates /\ Tuning(live')
           /\ files' \in [1..Capacity -> SUBSET (1..Capacity)]
           /\ \A b \in 1..Capacity : files'[b] \subseteq {b}
           /\ experiment' \in {"off", "untested", "pass", "fail"}
  <1>1. CASE live' = t /\ UNCHANGED <<experiment, files>>
    BY <1>1 DEF EngineType, Geometry
  <1>2. CASE LaunchLoop(n, t)
    <2>1. experiment' \in {"off", "untested", "pass", "fail"}
      BY <1>2 DEF LaunchLoop, Experiment, EngineType
    <2> QED  BY <1>2, <2>1, LoopFacts
  <1> QED  BY <1>1, <1>2 DEF LaunchPhases

(* The methods of the engine.                                              *)
LEMMA ActivateFacts ==
    ASSUME EngineType, Geometry, NEW n \in Sizes, Activate(n), UNCHANGED files,
           UNCHANGED <<retune, experiment>>
    PROVE  EngineType' /\ Geometry'
  <1>1. active' = n /\ slots' = SlotsFor(n) /\ live' = LiveFor(n)
    BY DEF Activate
  <1>2. EngineType'
    BY <1>1, SlotsForFacts, LiveForFacts DEF EngineType
  <1>3. Geometry'
    BY <1>1, SlotsForFacts, LiveForFacts DEF Geometry
  <1> QED  BY <1>2, <1>3

LEMMA EngineScanFacts ==
    ASSUME EngineType, Geometry, NEW n, EngineScan(n)
    PROVE  EngineType' /\ Geometry'
  <1>1. n \in 1..Capacity /\ n \in Sizes /\ retune' = retune
    BY Numbers DEF EngineScan, Sizes
  <1>2. CASE active' = n /\ slots' = SlotsFor(n) /\ LaunchPhases(n, LiveFor(n))
    <2>1. LiveFor(n) \in TuneStates /\ Tuning(LiveFor(n))
      BY LiveForFacts
    <2>2. /\ live' \in TuneStates /\ Tuning(live')
          /\ files' \in [1..Capacity -> SUBSET (1..Capacity)]
          /\ \A b \in 1..Capacity : files'[b] \subseteq {b}
          /\ experiment' \in {"off", "untested", "pass", "fail"}
      BY <1>1, <1>2, <2>1, PhasesFacts
    <2>3. EngineType'
      BY <1>1, <1>2, <2>2, SlotsForFacts DEF EngineType
    <2>4. Geometry'
      BY <1>2, <2>2, SlotsForFacts DEF Geometry
    <2> QED  BY <2>3, <2>4
  <1>3. CASE UNCHANGED <<active, slots>> /\ LaunchPhases(n, live)
    <2>1. live \in TuneStates /\ Tuning(live)
      BY DEF EngineType, Geometry
    <2>2. /\ live' \in TuneStates /\ Tuning(live')
          /\ files' \in [1..Capacity -> SUBSET (1..Capacity)]
          /\ \A b \in 1..Capacity : files'[b] \subseteq {b}
          /\ experiment' \in {"off", "untested", "pass", "fail"}
      BY <1>1, <1>3, <2>1, PhasesFacts
    <2>3. EngineType'
      BY <1>1, <1>3, <2>2 DEF EngineType
    <2>4. Geometry'
      BY <1>3, <2>2 DEF Geometry
    <2> QED  BY <2>3, <2>4
  <1> QED  BY <1>2, <1>3 DEF EngineScan

LEMMA GrownFacts ==
    ASSUME job \in Rotations, cap \in Caps, base \in 1..Capacity, size = base,
           NEW n, n = GrownBatch(base)
    PROVE  /\ n \in Nat
           /\ n > base => n \in 1..Capacity /\ n <= Budget \div Page[job] /\ 4 * n <= 5 * base
  <1>1. cap \in Nat /\ Page[job] \in Nat \ {0} /\ base \in Nat /\ base >= 1
    BY BatchEngineAssumption, Numbers
  <1>2. PICK p \in Nat : p = Budget \div Page[job]
    BY <1>1, Numbers
  <1>3. PICK limit \in Nat : limit = Min({Capacity, p}) /\ limit <= Capacity /\ limit <= p
    BY <1>2, MinPair, Numbers
  <1>4. PICK low \in Nat : low = Min({limit, cap}) /\ low <= limit
    BY <1>1, <1>3, MinPair
  <1>5. n \in {size, GrowthTarget(base, low), GrowthTarget(base, limit)}
    BY <1>2, <1>3, <1>4 DEF GrownBatch
  <1>6. CASE n = size
    BY <1>1, <1>6
  <1>7. CASE n = GrowthTarget(base, low)
    <2>1. n \in Nat /\ (n > base => n <= low /\ 4 * n <= 5 * base)
      BY <1>1, <1>7, GrowthFacts
    <2> QED  BY <1>1, <1>2, <1>3, <1>4, <2>1, Numbers
  <1>8. CASE n = GrowthTarget(base, limit)
    <2>1. n \in Nat /\ (n > base => n <= limit /\ 4 * n <= 5 * base)
      BY <1>1, <1>3, <1>8, GrowthFacts
    <2> QED  BY <1>1, <1>2, <1>3, <2>1, Numbers
  <1> QED  BY <1>5, <1>6, <1>7, <1>8

(* The tuning and the geometry cache, through every action.                *)
LEMMA UnchangedEngine ==
    ASSUME EngineType, Geometry, UNCHANGED <<retune, experiment, active, live, slots, files>>
    PROVE  EngineType' /\ Geometry'
  BY DEF EngineType, Geometry

LEMMA RestartEngine ==
    ASSUME EngineType, Geometry, Restart
    PROVE  EngineType' /\ Geometry'
  <1>1. /\ active' = 0 /\ live' = Fresh /\ UNCHANGED <<retune, files>>
        /\ experiment' \in {"off", "untested"}
        /\ slots' = [i \in DOMAIN slots |-> NoSlot]
    BY DEF Restart
  <1>2. slots' = [i \in 0..SlotCount - 1 |-> NoSlot]
    BY <1>1 DEF EngineType
  <1>3. NoSlot \in [count : Sizes, state : TuneStates] /\ NoSlot.state = Fresh /\ 0 \in Sizes
    BY FreshTuning, Numbers DEF NoSlot, Sizes
  <1>4. EngineType'
    BY <1>1, <1>2, <1>3, FreshTuning DEF EngineType
  <1>5. Geometry'
    BY <1>1, <1>2, <1>3, FreshTuning DEF Geometry
  <1> QED  BY <1>4, <1>5
--------------------------------------------------------------------------------
(* The state of the client                                                 *)

ClientType ==
    /\ grown \in BOOLEAN /\ latency \in BOOLEAN /\ due \in BOOLEAN /\ opening \in BOOLEAN
    /\ job \in Rotations \cup {None} /\ cap \in Caps
    /\ size \in 1..Capacity /\ base \in Sizes
    /\ growth \in [clean : 0..CleanScans, tried : BOOLEAN]
    /\ flight \in Flight \cup {None}
    /\ memory \in [Rotations -> Memory]
    /\ cache \in [Rotations -> [batch : Sizes, unsure : BOOLEAN, rejected : Sizes]]
    /\ family \in [Families -> Nat]

LEMMA TypeParts == TypeOK <=> EngineType /\ ClientType
  BY DEF TypeOK, EngineType, ClientType

(* A batch in the bounds of the job may be learned.                        *)
InJob(n) ==
    /\ n \in 1..Capacity /\ Fits(n)
    /\ 4 * n <= (IF grown THEN 5 ELSE 4) * base
    /\ latency => n >= Floor(base)

(* The memory of the rotation that runs, next to the batch it runs.        *)
Fair(m, n) ==
    /\ m.clean > 0 => m.over = {m.batch}
    /\ m.probe # 0 => /\ latency /\ m.against = {m.from} /\ m.from < m.probe
                      /\ n = m.probe /\ m.from \in Floor(base)..base

LEMMA BoundsOfJob ==
    ASSUME TypeOK, InFlight, job # None
    PROVE  Bounds <=> base \in 1..Capacity /\ Fits(base) /\ InJob(Learned)
  <1>1. size <= Learned
    <2>1. CASE flight = None
      BY <2>1 DEF Learned, TypeOK
    <2>2. CASE flight # None
      <3>1. flight \in Flight /\ size = flight.count /\ flight.count <= flight.learned
        BY <2>2 DEF TypeOK, InFlight
      <3>2. size \in Int
        BY Numbers DEF TypeOK
      <3> QED  BY <2>2, <3>1, <3>2 DEF Learned
    <2> QED  BY <2>1, <2>2
  <1> QED  BY <1>1 DEF Bounds, InJob

(* Between the floor and the batch of a job that has not grown, a batch is *)
(* in its bounds.                                                          *)
LEMMA FloorToBase ==
    ASSUME job \in Rotations, base \in 1..Capacity, Fits(base), ~grown,
           NEW n \in Floor(base)..base
    PROVE  InJob(n)
  <1>1. Floor(base) \in 1..base /\ base \in Int /\ Capacity \in Int
    BY FloorFacts, Numbers
  <1>2. n \in Int /\ n >= 1 /\ n <= base /\ n >= Floor(base) /\ base <= Capacity
    BY <1>1
  <1>3. Budget \div Page[job] \in Int
    BY BatchEngineAssumption, Numbers
  <1>4. Fits(n)
    BY <1>2, <1>3, <1>1 DEF Fits
  <1> QED  BY <1>1, <1>2, <1>4 DEF InJob

--------------------------------------------------------------------------------
(* A scan that counts, and what is learned from it                         *)

LEMMA LearnedTyped ==
    ASSUME TypeOK
    PROVE  Learned \in 1..Capacity
  <1>1. CASE flight # None
    BY <1>1 DEF TypeOK, Learned, Flight
  <1>2. CASE flight = None
    BY <1>2 DEF TypeOK, Learned
  <1> QED  BY <1>1, <1>2

LEMMA CleanFacts ==
    ASSUME IInv, latency, Clean
    PROVE  /\ job \in Rotations /\ ~grown /\ base \in 1..Capacity /\ Fits(base)
           /\ flight.count \in 1..Capacity /\ flight.count \in Floor(base)..base
           /\ Floor(base) \in 1..base
           /\ size = flight.count /\ Learned = size
           /\ memory[job] \in Memory /\ Fair(memory[job], flight.count)
  <1>1. flight \in Flight /\ flight # None /\ ~flight.short
    BY DEF IInv, TypeOK, Clean
  <1>2. job \in Rotations /\ size = flight.count
    BY <1>1 DEF IInv, TypeOK, InFlight
  <1>3. ~grown
    BY DEF IInv, Growing
  <1>4. Learned = size
    BY <1>1 DEF Learned
  <1>5. job # None
    BY <1>2, BatchEngineAssumption
  <1>6. base \in 1..Capacity /\ Fits(base) /\ InJob(Learned)
    BY <1>5, BoundsOfJob DEF IInv
  <1>7. flight.count \in 1..Capacity
    BY <1>1 DEF Flight
  <1>8. Floor(base) \in 1..base
    BY <1>6, FloorFacts
  <1>9. flight.count \in Floor(base)..base
    <2>1. 4 * flight.count <= 4 * base /\ flight.count >= Floor(base)
      BY <1>2, <1>3, <1>4, <1>6 DEF InJob
    <2>2. flight.count \in Int /\ base \in Int /\ Floor(base) \in Int
      BY <1>6, <1>7, <1>8, Numbers
    <2> QED  BY <2>1, <2>2
  <1>10. memory[job] \in Memory
    BY <1>2 DEF IInv, TypeOK
  <1>11. Fair(memory[job], flight.count)
    BY <1>2, <1>4 DEF IInv, Probing, Fair
  <1> QED  BY <1>2, <1>3, <1>4, <1>6, <1>7, <1>8, <1>9, <1>10, <1>11

LEMMA LearnedStep ==
    ASSUME IInv, latency, Clean, NEW m \in Memory, NEW n \in Floor(base)..base,
           LearnedFrom(m, n), Fair(m, n),
           cache' \in [Rotations -> [batch : Sizes, unsure : BOOLEAN, rejected : Sizes]],
           family' \in [Families -> Nat]
    PROVE  IInv'
  <1>1. /\ job \in Rotations /\ ~grown /\ base \in 1..Capacity /\ Fits(base)
        /\ Floor(base) \in 1..base
    BY CleanFacts
  <1>2. /\ flight' = None /\ memory' = [memory EXCEPT ![job] = m] /\ size' = n
        /\ UNCHANGED <<job, cap, grown, latency, due, base, opening, growth>>
        /\ UNCHANGED <<retune, experiment, active, live, slots, files>>
    BY DEF LearnedFrom, Take
  <1>3. InJob(n)
    BY <1>1, FloorToBase
  <1>4. EngineType' /\ Geometry'
    BY <1>2, EngineTyped, UnchangedEngine DEF IInv
  <1>5. ClientType'
    <2>1. ClientType
      BY TypeParts DEF IInv
    <2>2. n \in 1..Capacity
      BY <1>3 DEF InJob
    <2>3. memory' \in [Rotations -> Memory]
      BY <1>2, <2>1 DEF ClientType
    <2> QED  BY <1>2, <2>1, <2>2, <2>3 DEF ClientType
  <1>6. Learned' = n
    BY <1>2 DEF Learned
  <1>7. InFlight'
    BY <1>2 DEF InFlight
  <1>8. Bounds'
    <2>1. n \in Int /\ n <= n
      BY <1>3, Numbers DEF InJob
    <2>2. Fits(base)' /\ Fits(n)' /\ Floor(base)' = Floor(base)
      BY <1>1, <1>2, <1>3 DEF Fits, InJob, Floor
    <2>3. Fits(Learned)'
      BY <1>6, <2>2 DEF Fits
    <2> QED  BY <1>1, <1>2, <1>3, <1>6, <2>1, <2>2, <2>3 DEF Bounds, InJob
  <1>9. Growing'
    BY <1>2 DEF IInv, Growing
  <1>10. ASSUME NEW r \in Rotations PROVE Probing(r)'
    <2>1. Floor(base)' = Floor(base)
      BY <1>2 DEF Floor
    <2>2. CASE r = job
      <3>1. memory'[r] = m
        BY <1>2, <2>2 DEF IInv, TypeOK
      <3> QED  BY <1>2, <1>6, <2>1, <3>1 DEF Fair, Probing
    <2>3. CASE r # job
      <3>1. memory'[r] = memory[r] /\ job' # r
        BY <1>2, <2>3 DEF IInv, TypeOK
      <3> QED  BY <1>2, <3>1 DEF IInv, Probing
    <2> QED  BY <2>2, <2>3
  <1>11. TypeOK'
    BY <1>4, <1>5 DEF TypeOK, EngineType, ClientType
  <1> QED  BY <1>4, <1>7, <1>8, <1>9, <1>10, <1>11 DEF IInv

--------------------------------------------------------------------------------
(* What a memory holds                                                     *)

Cooldowns == 0..Max({LostCooldown, WonCooldown})

LEMMA MemoryFields ==
    ASSUME NEW m \in Memory
    PROVE  /\ m.samples \in 0..2 /\ m.batch \in Sizes /\ m.clean \in 0..Reopen
           /\ m.over \in SUBSET Sizes /\ m.probe \in Sizes /\ m.from \in Sizes
           /\ m.against \in SUBSET Sizes /\ m.cooldown \in Cooldowns
           /\ m.stable \in 0..Stable - 1 /\ m.marginal \in Sizes
           /\ m.wins \in 0..MarginalWins - 1 /\ m.rejected \in Sizes /\ m.proven \in Sizes
           /\ m.overruns \in 0..2 /\ m.kept \in Sizes
           /\ m.exact \in BOOLEAN /\ m.unsure \in BOOLEAN
  BY DEF Memory, Cooldowns

(* What is written into a memory, by the fields that are written together. *)
Taught(m, n, o, c) == [m EXCEPT !.batch = n, !.over = o, !.clean = c]
Keeping(m, n, e, u, x) == [m EXCEPT !.kept = n, !.exact = e, !.unsure = u, !.rejected = x]
Scored(m, c, n, w) == [m EXCEPT !.cooldown = c, !.marginal = n, !.wins = w]
Judged(m, z, n, v) == [m EXCEPT !.stable = z, !.proven = n, !.overruns = v]
Climbing(m, p, n, o) == [m EXCEPT !.probe = p, !.from = n, !.against = o]

LEMMA Learns ==
    ASSUME NEW m \in Memory, NEW n \in Sizes, NEW o \in SUBSET Sizes, NEW c \in 0..Reopen
    PROVE  LET q == Taught(m, n, o, c)
           IN  /\ q \in Memory
               /\ q.batch = n /\ q.over = o /\ q.clean = c
               /\ q.probe = m.probe /\ q.from = m.from /\ q.against = m.against
  <1>1. Taught(m, n, o, c) \in Memory
    BY DEF Taught, Memory
  <1> QED  BY <1>1 DEF Taught, Memory

LEMMA Keeps ==
    ASSUME NEW m \in Memory, NEW n \in Sizes, NEW e \in BOOLEAN, NEW u \in BOOLEAN,
           NEW x \in Sizes
    PROVE  LET q == Keeping(m, n, e, u, x)
           IN  /\ q \in Memory
               /\ q.probe = m.probe /\ q.clean = m.clean /\ q.over = m.over
               /\ q.batch = m.batch
  <1>1. Keeping(m, n, e, u, x) \in Memory
    BY DEF Keeping, Memory
  <1> QED  BY <1>1 DEF Keeping, Memory

LEMMA Judges ==
    ASSUME NEW m \in Memory, NEW z \in 0..Stable - 1, NEW n \in Sizes, NEW v \in 0..2
    PROVE  LET q == Judged(m, z, n, v)
           IN  /\ q \in Memory
               /\ q.probe = m.probe /\ q.clean = m.clean /\ q.over = m.over
               /\ q.batch = m.batch
  <1>1. Judged(m, z, n, v) \in Memory
    BY DEF Judged, Memory
  <1> QED  BY <1>1 DEF Judged, Memory

LEMMA Scores ==
    ASSUME NEW m \in Memory, NEW c \in Cooldowns, NEW n \in Sizes,
           NEW w \in 0..MarginalWins - 1
    PROVE  Scored(m, c, n, w) \in Memory
  BY DEF Scored, Memory, Cooldowns

LEMMA Climbs ==
    ASSUME NEW m \in Memory, NEW p \in Sizes, NEW n \in Sizes, NEW o \in SUBSET Sizes
    PROVE  Climbing(m, p, n, o) \in Memory
  BY DEF Climbing, Memory

LEMMA CooldownFacts ==
    /\ LostCooldown \in Cooldowns /\ WonCooldown \in Cooldowns
    /\ \A n \in Cooldowns : n # 0 => n - 1 \in Cooldowns
  <1>1. Max({LostCooldown, WonCooldown}) =
           IF LostCooldown >= WonCooldown THEN LostCooldown ELSE WonCooldown
    BY MaxPair, Numbers
  <1> QED  BY <1>1, Numbers DEF Cooldowns

LEMMA WithoutProbeFacts ==
    ASSUME NEW m \in Memory
    PROVE  /\ WithoutProbe(m) \in Memory
           /\ WithoutProbe(m).probe = 0
           /\ WithoutProbe(m).clean = m.clean /\ WithoutProbe(m).over = m.over
           /\ WithoutProbe(m).batch = m.batch /\ WithoutProbe(m).samples = m.samples
  <1>1. 0 \in Sizes /\ {0} \in SUBSET Sizes /\ 0 \in 0..Stable - 1
    BY Numbers DEF Sizes
  <1> QED  BY <1>1 DEF WithoutProbe, Memory

(* The baseline of a scan that is not the probe's is its own batch's.      *)
LEMMA ObservedFacts ==
    ASSUME NEW m \in Memory, NEW n \in 1..Capacity, m.clean > 0 => m.over = {m.batch}
    PROVE  /\ Observed(m, n) \in Memory
           /\ Observed(m, n).probe = m.probe /\ Observed(m, n).from = m.from
           /\ Observed(m, n).against = m.against
           /\ m.probe = n => /\ Observed(m, n).clean = m.clean
                             /\ Observed(m, n).over = m.over
                             /\ Observed(m, n).batch = m.batch
           /\ m.probe # n => /\ Observed(m, n).clean > 0
                             /\ Observed(m, n).over = {n}
                             /\ Observed(m, n).batch = n
  <1>1. n \in Sizes /\ {n} \in SUBSET Sizes /\ 1 \in 0..Reopen
    BY Numbers DEF Sizes
  <1>2. m.samples \in 0..2 /\ m.clean \in 0..Reopen /\ m.over \in SUBSET Sizes
    BY MemoryFields
  <1>3. PICK v \in 0..2 : v = Min({m.samples + 1, 2})
    BY <1>2, MinPair
  <1>4. PICK u \in 0..Reopen : u = Min({m.clean + 1, Reopen}) /\ u > 0
    BY <1>2, MinPair, Numbers
  <1>5. PICK s : s = [m EXCEPT !.samples = v]
    OBVIOUS
  <1>6. /\ s \in Memory /\ s.probe = m.probe /\ s.from = m.from /\ s.against = m.against
        /\ s.clean = m.clean /\ s.over = m.over /\ s.batch = m.batch
    BY <1>5 DEF Memory
  <1>7. Observed(m, n) =
           IF m.probe = n THEN s
           ELSE IF m.batch # n \/ m.clean = 0
           THEN [s EXCEPT !.batch = n, !.over = {n}, !.clean = 1]
           ELSE [s EXCEPT !.over = m.over \cup {n}, !.clean = u]
    BY <1>3, <1>4, <1>5, <1>6 DEF Observed
  <1>8. CASE m.probe = n
    BY <1>6, <1>7, <1>8
  <1>9. CASE m.probe # n /\ (m.batch # n \/ m.clean = 0)
    <2>1. Observed(m, n) = [s EXCEPT !.batch = n, !.over = {n}, !.clean = 1]
      BY <1>7, <1>9
    <2>2. PICK w \in 0..Reopen : w = 1 /\ w > 0
      BY <1>1
    <2>3. Observed(m, n) = Taught(s, n, {n}, w)
      BY <2>1, <2>2 DEF Taught
    <2>4. /\ Observed(m, n) \in Memory /\ Observed(m, n).batch = n
          /\ Observed(m, n).over = {n} /\ Observed(m, n).clean = w
          /\ Observed(m, n).probe = m.probe /\ Observed(m, n).from = m.from
          /\ Observed(m, n).against = m.against
      BY <1>1, <1>6, <2>3, Learns
    <2> QED  BY <1>9, <2>2, <2>4
  <1>10. CASE m.probe # n /\ ~(m.batch # n \/ m.clean = 0)
    <2>1. m.clean > 0
      BY <1>2, <1>10, Numbers
    <2>2. m.over \cup {n} = {n}
      BY <1>10, <2>1
    <2>3. Observed(m, n) = [s EXCEPT !.over = {n}, !.clean = u]
      BY <1>7, <1>10, <2>2
    <2>4. m.batch = n /\ s.batch = n /\ s \in Memory
      BY <1>6, <1>10
    <2>5. Observed(m, n) = Taught(s, n, {n}, u)
      BY <2>3, <2>4 DEF Memory, Taught
    <2>6. /\ Observed(m, n) \in Memory /\ Observed(m, n).batch = n
          /\ Observed(m, n).over = {n} /\ Observed(m, n).clean = u
          /\ Observed(m, n).probe = s.probe /\ Observed(m, n).from = s.from
          /\ Observed(m, n).against = s.against
      BY <1>1, <2>4, <2>5, Learns
    <2> QED  BY <1>4, <1>6, <1>10, <2>6
  <1> QED  BY <1>8, <1>9, <1>10

LEMMA SettledFacts ==
    ASSUME NEW m \in Memory, NEW n \in 1..Capacity, m.clean > 0 => m.over = {m.batch},
           m.probe # n
    PROVE  /\ Settled(m, n) \in Memory
           /\ Settled(m, n).probe = 0
           /\ Settled(m, n).clean > 0 /\ Settled(m, n).over = {n} /\ Settled(m, n).batch = n
  <1>1. PICK o : o = Observed(m, n)
    OBVIOUS
  <1>2. o \in Memory /\ o.clean > 0 /\ o.over = {n} /\ o.batch = n /\ o.probe = m.probe
    BY <1>1, ObservedFacts
  <1>3. Settled(m, n) = IF m.probe # 0 THEN WithoutProbe(o) ELSE o
    BY <1>1 DEF Settled
  <1> QED  BY <1>2, <1>3, WithoutProbeFacts

--------------------------------------------------------------------------------
(* The scan of a probe                                                     *)

LEMMA RejectionTyped ==
    ASSUME TypeOK, NEW n \in Sizes, SaveRejection(job, n) \/ NoSave
    PROVE  /\ cache' \in [Rotations -> [batch : Sizes, unsure : BOOLEAN, rejected : Sizes]]
           /\ family' \in [Families -> Nat]
  <1>1. /\ cache \in [Rotations -> [batch : Sizes, unsure : BOOLEAN, rejected : Sizes]]
        /\ family \in [Families -> Nat]
    BY DEF TypeOK
  <1>2. CASE NoSave
    BY <1>1, <1>2 DEF NoSave
  <1>3. CASE SaveRejection(job, n)
    <2>1. PICK x : /\ cache' = [cache EXCEPT ![job].rejected = x] /\ family' = family
                   /\ job \in Rotations => x \in Sizes
      <3>1. CASE cache[job].batch = 0
        BY <1>1, <1>3, <3>1 DEF SaveRejection
      <3>2. CASE cache[job].batch # 0
        BY <1>3, <3>2 DEF SaveRejection
      <3> QED  BY <3>1, <3>2
    <2> QED  BY <1>1, <2>1
  <1> QED  BY <1>2, <1>3

LEMMA SaveTyped ==
    ASSUME TypeOK, NEW n \in Sizes, NEW unsure \in BOOLEAN, SaveBatch(job, n, unsure)
    PROVE  /\ cache' \in [Rotations -> [batch : Sizes, unsure : BOOLEAN, rejected : Sizes]]
           /\ family' \in [Families -> Nat]
  <1>1. /\ cache \in [Rotations -> [batch : Sizes, unsure : BOOLEAN, rejected : Sizes]]
        /\ family \in [Families -> Nat] /\ n \in Nat /\ 0 \in Sizes
    BY Numbers DEF TypeOK, Sizes
  <1>2. cache' \in [Rotations -> [batch : Sizes, unsure : BOOLEAN, rejected : Sizes]]
    BY <1>1 DEF SaveBatch
  <1>3. CASE family' = family
    BY <1>1, <1>2, <1>3
  <1>4. CASE family' # family
    <2>1. PICK f, x : /\ f = CnFamily[job]
                      /\ family' = [family EXCEPT ![f] = x]
                      /\ x = IF family[f] >= Quantum
                             THEN Max({Quantum, Down((3 * family[f] + n) \div 4)}) ELSE n
      BY <1>4 DEF SaveBatch
    <2>2. ASSUME f \in Families PROVE x \in Nat
      <3>1. family[f] \in Nat
        BY <1>1, <2>2
      <3>2. (3 * family[f] + n) \div 4 \in Nat
        BY <1>1, <3>1
      <3>3. PICK d \in Nat : d = Down((3 * family[f] + n) \div 4)
        BY <3>2, DownFacts
      <3>4. Max({Quantum, d}) \in Nat
        BY MaxPair, Numbers
      <3> QED  BY <1>1, <2>1, <3>3, <3>4
    <2> QED  BY <1>1, <1>2, <2>1, <2>2
  <1> QED  BY <1>3, <1>4

LEMMA ProbeStep ==
    ASSUME IInv, NEW ms \in Latencies, NEW gain, ProbeResult(ms, gain)
    PROVE  IInv'
  <1>1. latency /\ Clean
    BY DEF ProbeResult
  <1>2. PICK n, m, o, p, w, back :
           /\ n = flight.count /\ m = memory[job] /\ o = Observed(m, n)
           /\ p = WithoutProbe(o) /\ w = (IF m.marginal = n THEN m.wins + 1 ELSE 1)
           /\ back = Clamp(m.from, Floor(base), base)
    OBVIOUS
  <1>3. PICK b \in BOOLEAN : b = (gain = "small" /\ ms <= IF gain = "clear" THEN 115 ELSE 110)
    OBVIOUS
  <1>4. PICK k \in BOOLEAN : k = \/ gain = "clear" /\ ms <= IF gain = "clear" THEN 115 ELSE 110
                                 \/ b /\ w >= MarginalWins
    OBVIOUS
  <1>5. /\ m.probe = n
        /\ \/ /\ k
              /\ LearnedFrom([p EXCEPT
                   !.cooldown = WonCooldown, !.proven = n, !.overruns = 0,
                   !.marginal = 0, !.wins = 0, !.kept = n, !.exact = TRUE, !.unsure = TRUE,
                   !.rejected = IF n >= @ THEN 0 ELSE @,
                   !.batch = n, !.over = {n}, !.clean = 1], n)
              /\ SaveBatch(job, n, TRUE)
           \/ /\ ~k /\ b
              /\ LearnedFrom([p EXCEPT
                   !.cooldown = WonCooldown, !.marginal = n, !.wins = w,
                   !.batch = back, !.over = m.against, !.clean = Max({@, 2})], back)
              /\ NoSave
           \/ /\ ~k /\ ~b
              /\ LearnedFrom([p EXCEPT
                   !.cooldown = LostCooldown, !.marginal = 0, !.wins = 0, !.rejected = n,
                   !.batch = back, !.over = {0}, !.clean = 0], back)
              /\ SaveRejection(job, n)
    BY <1>2, <1>3, <1>4 DEF ProbeResult
  <1>6. /\ n \in 1..Capacity /\ n \in Sizes /\ n \in Floor(base)..base /\ base \in 1..Capacity
        /\ m \in Memory /\ Fair(m, n) /\ n # 0
    BY <1>1, <1>2, CleanFacts, Numbers DEF Sizes
  <1>7. /\ p \in Memory /\ p.probe = 0 /\ p.clean = m.clean
    <2>1. /\ o \in Memory /\ o.clean = m.clean
      BY <1>2, <1>5, <1>6, ObservedFacts DEF Fair
    <2> QED  BY <1>2, <2>1, WithoutProbeFacts
  <1>8. m.against = {m.from} /\ back = m.from /\ m.from \in Floor(base)..base
        /\ m.from \in Sizes
    <2>1. m.against = {m.from} /\ m.from \in Floor(base)..base
      BY <1>5, <1>6 DEF Fair
    <2>2. base \in Int /\ Floor(base) \in Int /\ Floor(base) <= base /\ m.from \in Int
      BY <1>6, <2>1, FloorFacts, Numbers
    <2>3. Clamp(m.from, Floor(base), base) = m.from
      BY <2>1, <2>2, ClampFacts
    <2> QED  BY <1>2, <1>6, <2>1, <2>3, MemoryFields
  <1>9. LostCooldown \in Cooldowns /\ WonCooldown \in Cooldowns /\ 0 \in Sizes
        /\ 0 \in 0..MarginalWins - 1 /\ 0 \in 0..2 /\ 0 \in 0..Reopen /\ {0} \in SUBSET Sizes
    BY CooldownFacts, Numbers DEF Sizes
  <1>10. CASE k
    <2>1. PICK x \in Sizes : x = IF n >= p.rejected THEN 0 ELSE p.rejected
      BY <1>7, <1>9, MemoryFields
    <2>2. PICK c \in 0..Reopen : c = 1
      BY Numbers
    <2> PICK t \in BOOLEAN : t = TRUE
      OBVIOUS
    <2>3. PICK q : q = [p EXCEPT
                   !.cooldown = WonCooldown, !.proven = n, !.overruns = 0,
                   !.marginal = 0, !.wins = 0, !.kept = n, !.exact = t, !.unsure = t,
                   !.rejected = x, !.batch = n, !.over = {n}, !.clean = c]
      OBVIOUS
    <2>4. LearnedFrom(q, n) /\ SaveBatch(job, n, TRUE)
      BY <1>5, <1>7, <1>10, <2>1, <2>2, <2>3
    <2>5. q \in Memory
      <3>0. PICK z \in Sizes, w0 \in 0..MarginalWins - 1, o0 \in 0..2, c0 \in Cooldowns :
               z = 0 /\ w0 = 0 /\ o0 = 0 /\ c0 = WonCooldown
        BY <1>9
      <3>1. PICK g : g = [p EXCEPT !.cooldown = c0, !.proven = n, !.overruns = o0,
                                   !.marginal = z, !.wins = w0]
        OBVIOUS
      <3>2. g \in Memory
        <4>1. PICK f : f = Scored(p, c0, z, w0)
          OBVIOUS
        <4>2. f \in Memory
          BY <1>7, <4>1, Scores
        <4>3. g = [f EXCEPT !.proven = n, !.overruns = o0]
          BY <3>1, <4>1 DEF Scored
        <4> QED  BY <1>6, <4>2, <4>3 DEF Memory
      <3>3. PICK h : h = Keeping(g, n, t, t, x)
        OBVIOUS
      <3>4. h \in Memory
        BY <1>6, <3>2, <3>3, Keeps
      <3>5. q = Taught(h, n, {n}, c)
        BY <2>3, <3>0, <3>1, <3>3 DEF Keeping, Taught
      <3>6. {n} \in SUBSET Sizes
        BY <1>6
      <3> QED  BY <1>6, <3>4, <3>5, <3>6, Learns
    <2>6. q.probe = 0 /\ q.over = {n} /\ q.batch = n
      BY <1>7, <2>3 DEF Memory
    <2>7. Fair(q, n)
      BY <2>6 DEF Fair
    <2> QED  BY <1>1, <1>6, <2>4, <2>5, <2>7, SaveTyped, LearnedStep DEF IInv
  <1>11. CASE ~k /\ b
    <2>1. w \in 0..MarginalWins - 1
      <3>1. w \in Nat
        BY <1>2, <1>6, MemoryFields, Numbers
      <3>2. ~(w >= MarginalWins)
        BY <1>4, <1>11
      <3> QED  BY <3>1, <3>2, Numbers
    <2>2. PICK c \in 0..Reopen : c = Max({p.clean, 2})
      <3>1. p.clean \in 0..Reopen
        BY <1>7, MemoryFields
      <3> QED  BY <3>1, MaxPair, Numbers
    <2>3. PICK q : q = [p EXCEPT !.cooldown = WonCooldown, !.marginal = n, !.wins = w,
                                 !.batch = back, !.over = m.against, !.clean = c]
      OBVIOUS
    <2>4. LearnedFrom(q, back) /\ NoSave
      BY <1>5, <1>7, <1>11, <2>2, <2>3
    <2>5. q \in Memory
      <3>1. m.against \in SUBSET Sizes
        BY <1>6, MemoryFields
      <3>2. PICK g : g = Scored(p, WonCooldown, n, w)
        OBVIOUS
      <3>3. g \in Memory
        BY <1>6, <1>7, <1>9, <2>1, <3>2, Scores
      <3>4. q = Taught(g, back, m.against, c)
        BY <2>3, <3>2 DEF Scored, Taught
      <3> QED  BY <1>8, <3>1, <3>3, <3>4, Learns
    <2>6. q.probe = 0 /\ q.over = {back} /\ q.batch = back
      BY <1>7, <1>8, <2>3 DEF Memory
    <2>7. Fair(q, back)
      BY <2>6 DEF Fair
    <2> QED  BY <1>1, <1>6, <1>8, <2>4, <2>5, <2>7, RejectionTyped, LearnedStep DEF IInv
  <1>12. CASE ~k /\ ~b
    <2>1. PICK q : q = [p EXCEPT
                   !.cooldown = LostCooldown, !.marginal = 0, !.wins = 0, !.rejected = n,
                   !.batch = back, !.over = {0}, !.clean = 0]
      OBVIOUS
    <2>2. LearnedFrom(q, back) /\ SaveRejection(job, n)
      BY <1>5, <1>12, <2>1
    <2>3. q \in Memory
      <3>0. PICK z \in Sizes, w0 \in 0..MarginalWins - 1, c0 \in Cooldowns :
               z = 0 /\ w0 = 0 /\ c0 = LostCooldown
        BY <1>9
      <3>1. PICK g : g = [p EXCEPT !.cooldown = c0, !.marginal = z, !.wins = w0,
                                   !.rejected = n]
        OBVIOUS
      <3>2. g \in Memory
        <4>1. PICK f : f = Scored(p, c0, z, w0)
          OBVIOUS
        <4>2. f \in Memory
          BY <1>7, <4>1, Scores
        <4>3. g = [f EXCEPT !.rejected = n]
          BY <3>1, <4>1 DEF Scored
        <4> QED  BY <1>6, <4>2, <4>3 DEF Memory
      <3>3. q = Taught(g, back, {0}, 0)
        BY <2>1, <3>0, <3>1 DEF Taught
      <3> QED  BY <1>8, <1>9, <3>2, <3>3, Learns
    <2>4. q.probe = 0 /\ q.clean = 0
      BY <1>7, <2>1 DEF Memory
    <2>5. Fair(q, back)
      BY <2>4 DEF Fair
    <2> QED  BY <1>1, <1>6, <1>8, <2>2, <2>3, <2>5, RejectionTyped, LearnedStep DEF IInv
  <1> QED  BY <1>10, <1>11, <1>12

--------------------------------------------------------------------------------
(* Every other scan that counts                                            *)

LEMMA FirstStep ==
    ASSUME IInv, NEW ms \in Latencies, FirstScan(ms)
    PROVE  IInv'
  <1>1. latency /\ Clean /\ NoSave
    BY DEF FirstScan
  <1>2. PICK n, m, o : n = flight.count /\ m = memory[job] /\ o = Settled(m, n)
    OBVIOUS
  <1>3. PICK cut : cut = Clamp(Down((n * Clamp(9500 \div ms, 50, 90)) \div 100),
                               Floor(base), base)
    OBVIOUS
  <1>4. \/ LearnedFrom(m, n)
        \/ m.probe # n /\ (LearnedFrom(o, cut) \/ LearnedFrom(o, n))
    <2>1. PICK to : to = IF ~(m.kept = n /\ ~m.unsure /\ m.exact)
                            /\ ms > 120 /\ cut + Quantum <= n THEN cut ELSE n
      OBVIOUS
    <2>2. LearnedFrom(m, n) \/ (m.probe # n /\ LearnedFrom(o, to))
      BY <1>2, <1>3, <2>1 DEF FirstScan
    <2>3. to = cut \/ to = n
      BY <2>1
    <2> QED  BY <2>2, <2>3
  <1>5. /\ n \in 1..Capacity /\ n \in Floor(base)..base /\ base \in 1..Capacity
        /\ Floor(base) \in 1..base /\ m \in Memory /\ Fair(m, n)
    BY <1>1, <1>2, CleanFacts
  <1>6. /\ cache' \in [Rotations -> [batch : Sizes, unsure : BOOLEAN, rejected : Sizes]]
        /\ family' \in [Families -> Nat]
    BY <1>1 DEF NoSave, IInv, TypeOK
  <1>7. CASE LearnedFrom(m, n)
    BY <1>1, <1>5, <1>6, <1>7, LearnedStep
  <1>8. CASE m.probe # n /\ (LearnedFrom(o, cut) \/ LearnedFrom(o, n))
    <2>1. o \in Memory /\ o.probe = 0 /\ o.over = {n} /\ o.batch = n
      BY <1>2, <1>5, <1>8, SettledFacts DEF Fair
    <2>2. Fair(o, n) /\ Fair(o, cut)
      BY <2>1 DEF Fair
    <2>3. cut \in Floor(base)..base
      <3>1. ms \in Nat \ {0} /\ n \in Nat /\ base \in Int /\ Floor(base) \in Int
            /\ Floor(base) <= base
        BY <1>5, LatencyBatchAssumption, Numbers
      <3>2. 9500 \div ms \in Int
        BY <3>1
      <3>3. PICK k \in Nat : k = Clamp(9500 \div ms, 50, 90)
        BY <3>2, ClampFacts
      <3>4. PICK d \in Nat : d = Down((n * k) \div 100)
        <4>1. n * k \in Nat
          BY <3>1
        <4>2. (n * k) \div 100 \in Nat
          BY <4>1
        <4> QED  BY <4>2, DownFacts
      <3>5. cut = Clamp(d, Floor(base), base)
        BY <1>3, <3>3, <3>4
      <3> QED  BY <3>1, <3>5, ClampFacts
    <2> QED  BY <1>1, <1>5, <1>6, <1>8, <2>1, <2>2, <2>3, LearnedStep
  <1> QED  BY <1>4, <1>7, <1>8

LEMMA SaveStableFacts ==
    ASSUME NEW m \in Memory, NEW n, NEW ms
    PROVE  SaveStable(m, n, ms).save \in BOOLEAN /\ SaveStable(m, n, ms).unsure \in BOOLEAN
  <1>1. m.unsure \in BOOLEAN
    BY MemoryFields
  <1> QED  BY <1>1 DEF SaveStable

(* A probe that is opened goes one quantum beyond a batch that was         *)
(* measured, and no further than the job's.                                *)
LEMMA HoldFacts ==
    ASSUME latency, base \in 1..Capacity, NEW n \in Floor(base)..base,
           NEW m \in Memory, m.probe = 0, m.clean > 0 => m.over = {m.batch},
           NEW ms, NEW moved, NEW h, h = Hold(m, n, ms, moved),
           NEW to, to = IF h.probe # 0 THEN h.probe ELSE n
    PROVE  h \in Memory /\ to \in Floor(base)..base /\ Fair(h, to)
  <1>1. /\ n \in Nat /\ base \in Nat /\ Floor(base) \in Nat /\ n \in Sizes
        /\ n >= Floor(base) /\ n <= base /\ n >= 1 /\ base <= Capacity
    BY FloorFacts, Numbers DEF Sizes
  <1>2. m.stable \in 0..Stable - 1 /\ m.cooldown \in Cooldowns /\ m.clean \in 0..Reopen
        /\ m.over \in SUBSET Sizes
    BY MemoryFields
  <1>0. PICK z \in 0..Stable - 1 : z = 0
    BY Numbers
  <1>3. PICK calm : calm = [m EXCEPT !.stable = z]
    OBVIOUS
  <1>4. /\ calm \in Memory /\ calm.probe = 0 /\ calm.clean = m.clean
        /\ calm.over = m.over /\ calm.batch = m.batch /\ calm.cooldown = m.cooldown
    BY <1>3 DEF Memory
  <1>5. PICK next : next = Min({base, n + Quantum})
    OBVIOUS
  <1>6. \/ h = calm
        \/ m.cooldown # 0 /\ h = [calm EXCEPT !.cooldown = m.cooldown - 1]
        \/ m.stable + 1 < Stable /\ h = [m EXCEPT !.stable = m.stable + 1]
        \/ /\ ~(n + Quantum > base) /\ m.batch = n /\ ~(m.clean < 2)
           /\ h = [calm EXCEPT !.probe = next, !.from = n, !.against = m.over]
    <2>1. Hold(m, n, ms, moved) =
            IF ms \notin 82..102 \/ n + Quantum > base THEN calm
            ELSE IF m.cooldown # 0 THEN [calm EXCEPT !.cooldown = m.cooldown - 1]
            ELSE IF m.stable + 1 < Stable THEN [m EXCEPT !.stable = m.stable + 1]
            ELSE IF (m.rejected # 0 /\ next >= m.rejected /\ ~(m.clean >= Reopen /\ moved))
                    \/ m.batch # n \/ m.clean < 2 THEN calm
            ELSE [calm EXCEPT !.probe = next, !.from = n, !.against = m.over]
      BY <1>0, <1>3, <1>4, <1>5 DEF Hold
    <2> QED  BY <2>1
  <1>7. ASSUME h \in Memory, h.probe = 0, h.clean = m.clean, h.over = m.over,
               h.batch = m.batch
        PROVE  h \in Memory /\ to \in Floor(base)..base /\ Fair(h, to)
    BY <1>7 DEF Fair
  <1>8. CASE h = calm
    BY <1>4, <1>7, <1>8
  <1>9. CASE m.cooldown # 0 /\ h = [calm EXCEPT !.cooldown = m.cooldown - 1]
    <2>1. m.cooldown - 1 \in Cooldowns
      BY <1>2, <1>9, CooldownFacts
    <2>2. h \in Memory /\ h.probe = 0 /\ h.clean = m.clean /\ h.over = m.over
          /\ h.batch = m.batch
      BY <1>4, <1>9, <2>1 DEF Memory, Cooldowns
    <2> QED  BY <1>7, <2>2
  <1>10. CASE m.stable + 1 < Stable /\ h = [m EXCEPT !.stable = m.stable + 1]
    <2>1. PICK s \in 0..Stable - 1 : s = m.stable + 1
      BY <1>2, <1>10, Numbers
    <2>2. h = [m EXCEPT !.stable = s]
      BY <1>10, <2>1
    <2>3. h \in Memory /\ h.probe = 0 /\ h.clean = m.clean /\ h.over = m.over
          /\ h.batch = m.batch
      BY <2>2 DEF Memory
    <2> QED  BY <1>7, <2>3
  <1>11. CASE /\ ~(n + Quantum > base) /\ m.batch = n /\ ~(m.clean < 2)
              /\ h = [calm EXCEPT !.probe = next, !.from = n, !.against = m.over]
    <2>1. next = n + Quantum /\ next <= base /\ next > n /\ next # 0 /\ next \in Sizes
          /\ next \in Floor(base)..base
      <3>1. n + Quantum <= base /\ n + Quantum \in Nat
        BY <1>1, <1>11, Numbers
      <3>2. Min({base, n + Quantum}) = IF base <= n + Quantum THEN base ELSE n + Quantum
        BY <1>1, <3>1, MinPair
      <3>3. next = n + Quantum
        BY <1>1, <1>5, <3>1, <3>2
      <3> QED  BY <1>1, <3>1, <3>3, Numbers DEF Sizes
    <2>2. m.over = {n}
      BY <1>2, <1>11, Numbers
    <2>3. /\ h \in Memory /\ h.probe = next /\ h.from = n /\ h.against = {n}
          /\ h.clean = m.clean /\ h.over = m.over /\ h.batch = m.batch
      <3>1. h = [calm EXCEPT !.probe = next, !.from = n, !.against = {n}]
        BY <1>11, <2>2
      <3>2. calm \in Memory /\ n \in Sizes /\ {n} \in SUBSET Sizes
        BY <1>1, <1>4, <2>1 DEF Sizes
      <3>3. h \in Memory
        <4>1. h = Climbing(calm, next, n, {n})
          BY <3>1 DEF Climbing
        <4> QED  BY <2>1, <3>2, <4>1, Climbs
      <3> QED  BY <1>4, <3>1, <3>2, <3>3 DEF Memory
    <2>4. to = next
      BY <2>1, <2>3
    <2>5. Fair(h, to)
      BY <2>1, <2>3, <2>4 DEF Fair
    <2> QED  BY <2>1, <2>3, <2>4, <2>5
  <1> QED  BY <1>6, <1>8, <1>9, <1>10, <1>11

LEMMA SteadyStep ==
    ASSUME IInv, NEW ms \in Latencies, NEW moved, SteadyScan(ms, moved)
    PROVE  IInv'
  <1>1. latency /\ Clean
    BY DEF SteadyScan
  <1> DEFINE n == flight.count
             m == memory[job]
             o == Settled(m, n)
             saved == SaveStable(o, n, ms)
             proven == o.proven # 0 /\ o.proven = n
             over == ms > IF proven THEN 110 ELSE 108
             v == IF ~over THEN 0 ELSE IF proven THEN Min({o.overruns + 1, 2})
                  ELSE o.overruns
             slow == over /\ (~proven \/ v >= 2)
             k == [o EXCEPT !.overruns = v, !.kept = IF saved.save THEN n ELSE @,
                            !.exact = saved.save \/ @, !.unsure = saved.unsure]
             h == Hold(k, n, ms, moved)
  <1>2. /\ m.probe # n
        /\ IF saved.save THEN SaveBatch(job, n, saved.unsure) ELSE NoSave
        /\ IF ~slow /\ ms >= 82
           THEN LearnedFrom(h, IF h.probe # 0 THEN h.probe ELSE n)
           ELSE \E d \in Resized(n) :
                  LET to == IF d >= n + Quantum \/ d + Quantum <= n THEN d ELSE n
                  IN LearnedFrom([k EXCEPT !.stable = 0,
                       !.proven = IF to # n /\ to < @ THEN 0 ELSE @,
                       !.overruns = IF to # n /\ to < k.proven THEN 0 ELSE @], to)
    BY DEF SteadyScan
  <1>3. m = memory[job] /\ n = flight.count /\ o = Settled(m, n)
        /\ saved = SaveStable(o, n, ms)
    OBVIOUS
  <1>4. v = IF ~(ms > IF o.proven # 0 /\ o.proven = n THEN 110 ELSE 108) THEN 0
            ELSE IF o.proven # 0 /\ o.proven = n THEN Min({o.overruns + 1, 2})
            ELSE o.overruns
    OBVIOUS
  <1>5. /\ k = [o EXCEPT !.overruns = v, !.kept = IF saved.save THEN n ELSE @,
                         !.exact = saved.save \/ @, !.unsure = saved.unsure]
        /\ h = Hold(k, n, ms, moved)
    OBVIOUS
  <1> HIDE DEF n, m, o, saved, proven, over, v, slow, k, h
  <1>6. \/ LearnedFrom(h, IF h.probe # 0 THEN h.probe ELSE n)
        \/ \E d \in Resized(n) :
             LET to == IF d >= n + Quantum \/ d + Quantum <= n THEN d ELSE n
             IN LearnedFrom([k EXCEPT !.stable = 0,
                  !.proven = IF to # n /\ to < @ THEN 0 ELSE @,
                  !.overruns = IF to # n /\ to < k.proven THEN 0 ELSE @], to)
    BY <1>2
  <1>7. /\ n \in 1..Capacity /\ n \in Floor(base)..base /\ base \in 1..Capacity
        /\ Floor(base) \in 1..base /\ m \in Memory /\ Fair(m, n) /\ n \in Sizes
    BY <1>1, <1>3, CleanFacts, Numbers DEF Sizes
  <1>8. o \in Memory /\ o.probe = 0 /\ o.over = {n} /\ o.batch = n
    BY <1>2, <1>3, <1>7, SettledFacts DEF Fair
  <1>9. saved.save \in BOOLEAN /\ saved.unsure \in BOOLEAN
    BY <1>3, <1>8, SaveStableFacts
  <1>10. /\ cache' \in [Rotations -> [batch : Sizes, unsure : BOOLEAN, rejected : Sizes]]
         /\ family' \in [Families -> Nat]
    <2>1. CASE saved.save
      BY <1>2, <1>7, <1>9, <2>1, SaveTyped DEF IInv
    <2>2. CASE ~saved.save
      BY <1>2, <1>7, <2>2, RejectionTyped DEF IInv
    <2> QED  BY <2>1, <2>2
  <1>11. v \in 0..2
    <2>1. o.overruns \in 0..2
      BY <1>8, MemoryFields
    <2>2. Min({o.overruns + 1, 2}) \in 0..2
      BY <2>1, MinPair
    <2> QED  BY <1>4, <2>1, <2>2
  <1>12. /\ k \in Memory /\ k.probe = 0 /\ k.over = {n} /\ k.batch = n
    <2>1. PICK e \in BOOLEAN : e = (saved.save \/ o.exact)
      BY <1>8, <1>9, MemoryFields
    <2>2. PICK t \in Sizes : t = IF saved.save THEN n ELSE o.kept
      BY <1>7, <1>8, MemoryFields
    <2>3. PICK u \in BOOLEAN : u = saved.unsure
      BY <1>9
    <2>4. k = [o EXCEPT !.overruns = v, !.kept = t, !.exact = e, !.unsure = u]
      BY <1>5, <1>8, <2>1, <2>2, <2>3
    <2>5. PICK z \in 0..Stable - 1, p \in Sizes, x \in Sizes :
             z = o.stable /\ p = o.proven /\ x = o.rejected
      BY <1>8, MemoryFields
    <2>6. PICK g : g = Judged(o, z, p, v)
      OBVIOUS
    <2>7. /\ g \in Memory /\ g.probe = o.probe /\ g.clean = o.clean /\ g.over = o.over
          /\ g.batch = o.batch
      <3>1. o \in Memory
        BY <1>8
      <3>2. LET q == Judged(o, z, p, v)
            IN  /\ q \in Memory /\ q.probe = o.probe /\ q.clean = o.clean
                /\ q.over = o.over /\ q.batch = o.batch
        BY <1>11, <3>1, Judges
      <3> QED  BY <2>6, <3>2
    <2>8. k = Keeping(g, t, e, u, x)
      BY <1>8, <2>4, <2>5, <2>6 DEF Memory, Judged, Keeping
    <2>9. /\ k \in Memory /\ k.probe = g.probe /\ k.clean = g.clean /\ k.over = g.over
          /\ k.batch = g.batch
      <3>1. LET q == Keeping(g, t, e, u, x)
            IN  /\ q \in Memory /\ q.probe = g.probe /\ q.clean = g.clean
                /\ q.over = g.over /\ q.batch = g.batch
        BY <2>7, Keeps
      <3> QED  BY <2>8, <3>1
    <2> QED  BY <1>8, <2>7, <2>9
  <1>13. CASE LearnedFrom(h, IF h.probe # 0 THEN h.probe ELSE n)
    <2>1. PICK to : to = IF h.probe # 0 THEN h.probe ELSE n
      OBVIOUS
    <2>2. k.clean > 0 => k.over = {k.batch}
      BY <1>12
    <2>3. h = Hold(k, n, ms, moved)
      BY <1>5
    <2>4. h \in Memory /\ to \in Floor(base)..base /\ Fair(h, to)
      BY <1>1, <1>7, <1>12, <2>1, <2>2, <2>3, HoldFacts
    <2>5. LearnedFrom(h, to)
      BY <1>13, <2>1
    <2> QED  BY <1>1, <1>10, <2>4, <2>5, LearnedStep
  <1>14. ASSUME NEW d \in Resized(n), NEW to,
                to = IF d >= n + Quantum \/ d + Quantum <= n THEN d ELSE n,
                LearnedFrom([k EXCEPT !.stable = 0,
                     !.proven = IF to # n /\ to < @ THEN 0 ELSE @,
                     !.overruns = IF to # n /\ to < k.proven THEN 0 ELSE @], to)
         PROVE  IInv'
    <2>1. to \in Floor(base)..base
      BY <1>7, <1>14, ResizedFacts
    <2>2. PICK z \in 0..Stable - 1 : z = 0
      BY Numbers
    <2>3. PICK p \in Sizes : p = IF to # n /\ to < k.proven THEN 0 ELSE k.proven
      BY <1>12, MemoryFields, Numbers DEF Sizes
    <2>4. PICK w \in 0..2 : w = IF to # n /\ to < k.proven THEN 0 ELSE k.overruns
      BY <1>12, MemoryFields
    <2>5. PICK q : q = [k EXCEPT !.stable = z, !.proven = p, !.overruns = w]
      OBVIOUS
    <2>6. LearnedFrom(q, to)
      BY <1>12, <1>14, <2>2, <2>3, <2>4, <2>5
    <2>7. q \in Memory /\ q.probe = 0 /\ q.over = {n} /\ q.batch = n
      <3>1. q = Judged(k, z, p, w)
        BY <2>5 DEF Judged
      <3> QED  BY <1>12, <3>1, Judges
    <2>8. Fair(q, to)
      BY <2>7 DEF Fair
    <2> QED  BY <1>1, <1>10, <2>1, <2>6, <2>7, <2>8, LearnedStep
  <1> QED  BY <1>6, <1>13, <1>14
--------------------------------------------------------------------------------
(* The other actions                                                       *)

LEMMA ArrivalStep ==
    ASSUME IInv, JobArrives
    PROVE  IInv'
  <1>1. /\ due' = TRUE
        /\ UNCHANGED <<retune, experiment, job, cap, size, grown, active, live, slots, files,
                       latency, base, opening, growth, flight, memory, cache, family>>
    BY DEF JobArrives, engineVars
  <1>2. Learned' = Learned
    BY <1>1 DEF Learned
  <1>3. TypeOK'
    BY <1>1 DEF IInv, TypeOK
  <1>4. Geometry' /\ InFlight' /\ Growing'
    BY <1>1 DEF IInv, Geometry, InFlight, Growing
  <1>5. Bounds'
    BY <1>1, <1>2 DEF IInv, Bounds, Fits, Floor
  <1>6. \A r \in Rotations : Probing(r)'
    BY <1>1, <1>2 DEF IInv, Probing, Floor
  <1> QED  BY <1>3, <1>4, <1>5, <1>6 DEF IInv

LEMMA NoMemoryTyped == NoMemory \in Memory
  <1>1. /\ 0 \in 0..2 /\ 0 \in 0..Reopen /\ 0 \in 0..Stable - 1 /\ 0 \in Sizes
        /\ 0 \in 0..MarginalWins - 1 /\ {0} \in SUBSET Sizes
    BY Numbers DEF Sizes
  <1>2. 0 \in Cooldowns
    <2>1. Max({LostCooldown, WonCooldown}) \in Nat
      BY MaxPair, Numbers
    <2> QED  BY <2>1 DEF Cooldowns
  <1> QED  BY <1>1, <1>2 DEF NoMemory, Memory, Cooldowns

LEMMA RestartStep ==
    ASSUME IInv, Restart
    PROVE  IInv'
  <1>1. /\ job' = None /\ cap' = 0 /\ size' = Capacity /\ grown' = FALSE /\ due' = FALSE
        /\ base' = 0 /\ opening' = FALSE /\ growth' = NoGrowth /\ flight' = None
        /\ memory' = [r \in Rotations |-> NoMemory] /\ latency' = latency
    BY DEF Restart
  <1>2. EngineType' /\ Geometry'
    BY EngineTyped, RestartEngine DEF IInv
  <1>3. 0 \in Sizes /\ Capacity \in 1..Capacity /\ 0 \in 0..CleanScans /\ 0 \in Caps
        /\ {0} \in SUBSET Sizes
    BY Numbers, BatchEngineAssumption DEF Sizes
  <1>4. NoMemory \in Memory
    BY NoMemoryTyped
  <1>5. /\ cache' \in [Rotations -> [batch : Sizes, unsure : BOOLEAN, rejected : Sizes]]
        /\ family' \in [Families -> Nat]
    <2>1. CASE UNCHANGED <<cache, family>>
      BY <2>1 DEF IInv, TypeOK
    <2>2. CASE cache' = [r \in Rotations |-> NoEntry] /\ family' = [f \in Families |-> 0]
      BY <1>3, <2>2 DEF NoEntry
    <2> QED  BY <2>1, <2>2 DEF Restart
  <1>6. ClientType'
    <2>1. NoGrowth \in [clean : 0..CleanScans, tried : BOOLEAN]
      BY <1>3 DEF NoGrowth
    <2>2. latency' \in BOOLEAN
      BY <1>1 DEF IInv, TypeOK
    <2> QED  BY <1>1, <1>3, <1>4, <1>5, <2>1, <2>2 DEF ClientType
  <1>7. TypeOK'
    BY <1>2, <1>6 DEF TypeOK, EngineType, ClientType
  <1>8. InFlight' /\ Bounds' /\ Growing'
    BY <1>1 DEF InFlight, Bounds, Growing
  <1>9. \A r \in Rotations : Probing(r)'
    BY <1>1 DEF Probing, NoMemory
  <1> QED  BY <1>2, <1>7, <1>8, <1>9 DEF IInv

LEMMA TransitionFacts ==
    ASSUME NEW s \in 1..Capacity, NEW n \in Transition(s), NEW c,
           c = n \/ c = Min({n, OpeningBatch})
    PROVE  c \in 1..s
  <1>1. n \in 1..s
    BY Numbers DEF Transition
  <1>2. Min({n, OpeningBatch}) = IF n <= OpeningBatch THEN n ELSE OpeningBatch
    BY <1>1, MinPair, Numbers
  <1> QED  BY <1>1, <1>2, Numbers

LEMMA LaunchStep ==
    ASSUME IInv, NEW n \in 1..Capacity, Launch(n)
    PROVE  IInv'
  <1>1. /\ job \in Rotations /\ job # None /\ flight = None /\ size \in 1..Capacity
        /\ Learned = size /\ size \in Int
    BY Numbers DEF Launch, IInv, TypeOK, Learned
  <1>2. PICK c : /\ c = IF opening /\ size > OpeningBatch THEN Min({n, OpeningBatch}) ELSE n
                 /\ flight' = [count |-> c, learned |-> size, short |-> c < size]
                 /\ EngineScan(c)
    BY DEF Launch
  <1>3. c \in 1..size /\ c \in 1..Capacity /\ c \in Int
    <2>1. n \in Transition(size) /\ (c = n \/ c = Min({n, OpeningBatch}))
      BY <1>2 DEF Launch
    <2> QED  BY <1>1, <2>1, TransitionFacts, Numbers
  <1>4. /\ opening' = FALSE /\ size' = c
        /\ UNCHANGED <<latency, due, base, growth, memory, cache, family, job, cap, grown>>
    BY <1>2 DEF Launch, EngineScan
  <1>5. PICK b \in BOOLEAN : b = (c < size) /\ (b => c < size) /\ (~b => c = size)
    <2>1. CASE c < size
      BY <2>1
    <2>2. CASE c = size
      <3>1. (c < size) = FALSE
        BY <1>1, <2>2
      <3> QED  BY <2>2, <3>1
    <2> QED  BY <1>1, <1>3, <2>1, <2>2
  <1>6. flight' = [count |-> c, learned |-> size, short |-> b] /\ flight' \in Flight
    BY <1>1, <1>2, <1>3, <1>5 DEF Flight
  <1>7. flight' # None
    BY <1>6, FlightAssumption
  <1>8. Learned' = size
    <2>1. ~b => c = size
      BY <1>5
    <2> QED  BY <1>4, <1>6, <1>7, <2>1 DEF Learned
  <1>9. EngineType' /\ Geometry'
    BY <1>2, EngineTyped, EngineScanFacts DEF IInv
  <1>10. ClientType'
    <2>1. ClientType
      BY TypeParts DEF IInv
    <2> QED  BY <1>3, <1>4, <1>6, <2>1 DEF ClientType
  <1>11. TypeOK'
    BY <1>9, <1>10 DEF TypeOK, EngineType, ClientType
  <1>12. InFlight'
    <2>1. c <= size
      BY <1>1, <1>3
    <2>2. b <=> c < size
      <3>1. c = size => ~(c < size)
        BY <1>1
      <3> QED  BY <1>5, <3>1
    <2> QED  BY <1>1, <1>4, <1>6, <2>1, <2>2 DEF InFlight
  <1>13. Bounds'
    <2>1. c <= size
      BY <1>1, <1>3
    <2>2. /\ base \in 1..Capacity /\ Fits(base) /\ Learned \in 1..Capacity /\ Fits(Learned)
          /\ 4 * Learned <= (IF grown THEN 5 ELSE 4) * base
          /\ latency => Learned >= Floor(base)
      BY <1>1 DEF IInv, Bounds
    <2> QED  BY <1>1, <1>4, <1>8, <2>1, <2>2 DEF Bounds, Fits, Floor
  <1>14. Growing'
    BY <1>4 DEF IInv, Growing
  <1>15. \A r \in Rotations : Probing(r)'
    BY <1>1, <1>4, <1>8 DEF IInv, Probing, Floor
  <1> QED  BY <1>9, <1>11, <1>12, <1>13, <1>14, <1>15 DEF IInv

(* A result that teaches nothing ends the scan, and may let the job grow.  *)
LEMMA UnusedStep ==
    ASSUME IInv, NEW old \in BOOLEAN, Unused(old)
    PROVE  IInv'
  <1>1. /\ flight \in Flight /\ flight # None /\ flight' = None
        /\ UNCHANGED <<retune, experiment, job, cap, files,
                       latency, due, base, opening, memory, cache, family>>
    BY DEF Unused, Take, IInv, TypeOK
  <1>2. /\ job \in Rotations /\ job # None /\ Learned \in 1..Capacity
        /\ base \in 1..Capacity /\ Fits(base) /\ InJob(Learned)
    <2>1. job # None /\ job \in Rotations
      BY <1>1 DEF IInv, TypeOK, InFlight
    <2> QED  BY <2>1, LearnedTyped, BoundsOfJob DEF IInv
  <1>3. EngineType /\ Geometry /\ ClientType
    BY TypeParts DEF IInv
  <1>4. PICK clean \in 0..CleanScans : clean = Min({growth.clean + 1, CleanScans})
    <2>1. growth.clean \in 0..CleanScans
      BY <1>3 DEF ClientType
    <2> QED  BY <2>1, MinPair, Numbers
  <1>5. \/ /\ size' = Learned /\ UNCHANGED <<growth, grown, active, live, slots>>
        \/ /\ size = Learned /\ growth' = [growth EXCEPT !.clean = clean]
           /\ UNCHANGED <<size, grown, active, live, slots>>
        \/ /\ size = Learned /\ size = base /\ ~latency
           /\ growth' = [clean |-> clean, tried |-> TRUE] /\ EngineGrow(base)
    <2>1. \/ /\ size' = Learned /\ UNCHANGED <<growth, grown, active, live, slots>>
          \/ /\ ~latency /\ Clean /\ size = base
             /\ growth' = [growth EXCEPT !.clean = clean]
             /\ UNCHANGED <<size, grown, active, live, slots>>
          \/ /\ ~latency /\ Clean /\ size = base
             /\ growth' = [clean |-> clean, tried |-> TRUE] /\ EngineGrow(base)
      BY <1>4 DEF Unused
    <2>2. Clean => Learned = size
      BY DEF Clean, Learned
    <2> QED  BY <2>1, <2>2
  (* What is left to show is about the batch the engine has now. *)
  <1>6. ASSUME EngineType', Geometry', size' \in 1..Capacity, Fits(size'), grown' \in BOOLEAN,
               4 * size' <= (IF grown' THEN 5 ELSE 4) * base, latency => size' = Learned,
               growth' \in [clean : 0..CleanScans, tried : BOOLEAN], Growing'
        PROVE  IInv'
    <2>1. ClientType'
      BY <1>1, <1>3, <1>6 DEF ClientType
    <2>2. TypeOK'
      BY <1>6, <2>1 DEF TypeOK, EngineType, ClientType
    <2>3. InFlight' /\ Learned' = size' /\ size' <= size'
      BY <1>1, <1>6, Numbers DEF InFlight, Learned
    <2>4. Bounds'
      BY <1>1, <1>2, <1>6, <2>3 DEF Bounds, Fits, Floor, InJob
    <2>5. ASSUME NEW r \in Rotations PROVE Probing(r)'
      <3>1. Probing(r)
        BY DEF IInv
      <3>2. latency => Learned' = Learned
        BY <1>6, <2>3
      <3> QED  BY <1>1, <3>1, <3>2 DEF Probing, Floor
    <2> QED  BY <1>6, <2>2, <2>3, <2>4, <2>5 DEF IInv
  <1>7. CASE size' = Learned /\ UNCHANGED <<growth, grown, active, live, slots>>
    <2>1. EngineType' /\ Geometry'
      BY <1>1, <1>3, <1>7, UnchangedEngine
    <2>2. Growing'
      BY <1>1, <1>7 DEF IInv, Growing
    <2> QED  BY <1>2, <1>3, <1>6, <1>7, <2>1, <2>2 DEF ClientType, InJob
  <1>8. CASE /\ size = Learned /\ growth' = [growth EXCEPT !.clean = clean]
             /\ UNCHANGED <<size, grown, active, live, slots>>
    <2>1. EngineType' /\ Geometry'
      BY <1>1, <1>3, <1>8, UnchangedEngine
    <2>2. growth' \in [clean : 0..CleanScans, tried : BOOLEAN]
          /\ growth'.tried = growth.tried
      BY <1>3, <1>8 DEF ClientType
    <2>3. Growing'
      BY <1>1, <1>8, <2>2 DEF IInv, Growing
    <2> QED  BY <1>2, <1>3, <1>6, <1>8, <2>1, <2>2, <2>3 DEF ClientType, InJob
  <1>9. CASE /\ size = Learned /\ size = base /\ ~latency
             /\ growth' = [clean |-> clean, tried |-> TRUE] /\ EngineGrow(base)
    <2>1. growth' \in [clean : 0..CleanScans, tried : BOOLEAN]
          /\ Growing'
      BY <1>1, <1>9 DEF Growing
    <2>2. CASE UNCHANGED <<size, grown, active, live, slots>>
      <3>1. EngineType' /\ Geometry'
        BY <1>1, <1>3, <2>2, UnchangedEngine
      <3> QED  BY <1>2, <1>3, <1>6, <1>9, <2>1, <2>2, <3>1 DEF ClientType, InJob
    <2>3. CASE ~(GrownBatch(base) <= base) /\ size' = GrownBatch(base) /\ grown' = TRUE
               /\ Activate(GrownBatch(base))
      <3>1. PICK n : n = GrownBatch(base)
        OBVIOUS
      <3>2. n \in Nat /\ base \in Int
        BY <1>2, <1>3, <1>9, <3>1, GrownFacts, Numbers DEF ClientType
      <3>3. n > base
        BY <2>3, <3>1, <3>2
      <3>4. n \in 1..Capacity /\ n <= Budget \div Page[job] /\ 4 * n <= 5 * base
        BY <1>2, <1>3, <1>9, <3>1, <3>3, GrownFacts DEF ClientType
      <3>5. Activate(n) /\ n \in Sizes
        BY <2>3, <3>1, <3>4, Numbers DEF Sizes
      <3>6. EngineType' /\ Geometry'
        BY <1>1, <1>3, <3>5, ActivateFacts
      <3>7. size' = n /\ Fits(size')
        BY <2>3, <3>1, <3>4 DEF Fits
      <3> QED  BY <1>6, <1>9, <2>1, <2>3, <3>4, <3>6, <3>7
    <2> QED  BY <1>9, <2>2, <2>3 DEF EngineGrow
  <1> QED  BY <1>5, <1>7, <1>8, <1>9

(* The batch and the memory that a job starts with.                        *)
LEMMA SeedFacts ==
    ASSUME TypeOK, NEW r \in Rotations, NEW b \in 1..Capacity, Seed(r, b)
    PROVE  /\ size' \in 1..b /\ (latency => size' >= Floor(b))
           /\ memory' \in [Rotations -> Memory]
           /\ ~latency => memory' = memory
           /\ latency => memory'[r].probe = 0
           /\ \A q \in Rotations : q # r => memory'[q] = memory[q]
           /\ memory'[r].clean = memory[r].clean /\ memory'[r].over = memory[r].over
           /\ memory'[r].batch = memory[r].batch
  <1>1. /\ memory \in [Rotations -> Memory] /\ memory[r] \in Memory
        /\ cache[r] \in [batch : Sizes, unsure : BOOLEAN, rejected : Sizes]
        /\ family[CnFamily[r]] \in Nat
    BY DEF TypeOK, Families
  <1>2. /\ b \in Int /\ b >= 1 /\ b <= Capacity /\ Floor(b) \in 1..b
    BY FloorFacts, Numbers
  <1>3. PICK m : m = WithoutProbe(memory[r])
    OBVIOUS
  <1>4. /\ m \in Memory /\ m.probe = 0 /\ m.clean = memory[r].clean
        /\ m.over = memory[r].over /\ m.batch = memory[r].batch
    BY <1>1, <1>3, WithoutProbeFacts
  <1>5. PICK exact \in BOOLEAN : exact = (cache[r].batch # 0)
    OBVIOUS
  <1>6. PICK entry : entry = IF exact THEN cache[r].batch ELSE family[CnFamily[r]]
    OBVIOUS
  (* What is left to show is about the two values that are set. *)
  <1>7. ASSUME NEW n \in Floor(b)..b, NEW q \in Memory, size' = n,
               memory' = [memory EXCEPT ![r] = q], q.probe = 0, q.clean = m.clean,
               q.over = m.over, q.batch = m.batch, latency
        PROVE  /\ size' \in 1..b /\ (latency => size' >= Floor(b))
               /\ memory' \in [Rotations -> Memory]
               /\ ~latency => memory' = memory
               /\ latency => memory'[r].probe = 0
               /\ \A s \in Rotations : s # r => memory'[s] = memory[s]
               /\ memory'[r].clean = memory[r].clean /\ memory'[r].over = memory[r].over
               /\ memory'[r].batch = memory[r].batch
    <2>1. n \in 1..b /\ n >= Floor(b)
      BY <1>2
    <2>2. memory'[r] = q /\ memory' \in [Rotations -> Memory]
          /\ \A s \in Rotations : s # r => memory'[s] = memory[s]
      BY <1>1, <1>7
    <2> QED  BY <1>4, <1>7, <2>1, <2>2
  <1>8. CASE ~latency
    <2>1. size' = b /\ memory' = memory
      BY <1>8 DEF Seed
    <2> QED  BY <1>1, <1>2, <1>8, <2>1
  <1>9. CASE latency /\ entry \in Floor(b)..b /\ entry % Quantum = 0
    <2>1. PICK x, u : /\ x = IF exact THEN cache[r].rejected ELSE m.rejected
                      /\ u = (exact /\ cache[r].unsure)
      OBVIOUS
    <2>2. size' = entry
          /\ memory' = [memory EXCEPT ![r] =
                 [m EXCEPT !.kept = entry, !.exact = exact, !.unsure = u, !.rejected = x]]
      <3>1. size' = entry
            /\ memory' = [memory EXCEPT ![r] =
                 [m EXCEPT !.kept = entry, !.exact = exact,
                           !.unsure = exact /\ cache[r].unsure,
                           !.rejected = IF exact THEN cache[r].rejected ELSE @]]
        BY <1>3, <1>5, <1>6, <1>9 DEF Seed
      <3> QED  BY <1>4, <2>1, <3>1
    <2>3. x \in Sizes /\ u \in BOOLEAN /\ entry \in Sizes
      <3>1. entry \in Sizes
        BY <1>2, <1>9, Numbers DEF Sizes
      <3>2. x \in Sizes
        BY <1>1, <1>4, <2>1, MemoryFields
      <3>3. u \in BOOLEAN
        BY <1>1, <1>5, <2>1
      <3> QED  BY <3>1, <3>2, <3>3
    <2>4. PICK q : q = [m EXCEPT !.kept = entry, !.exact = exact, !.unsure = u,
                                 !.rejected = x]
      OBVIOUS
    <2>5. /\ q \in Memory /\ q.probe = 0 /\ q.clean = m.clean /\ q.over = m.over
          /\ q.batch = m.batch
      <3>1. q = Keeping(m, entry, exact, u, x)
        BY <2>4 DEF Keeping
      <3> QED  BY <1>4, <2>3, <3>1, Keeps
    <2> QED  BY <1>7, <1>9, <2>2, <2>4, <2>5
  <1>10. CASE latency /\ ~(entry \in Floor(b)..b /\ entry % Quantum = 0)
    <2>1. /\ memory' = [memory EXCEPT ![r] = m]
          /\ \E n \in IF m.samples < 2 THEN {b} ELSE Desired(b) :
                LET d == IF m.proven \in Floor(b)..b THEN Max({n, m.proven}) ELSE n
                IN size' = IF m.samples >= 2 /\ b - d >= Quantum THEN d ELSE b
      BY <1>3, <1>5, <1>6, <1>10 DEF Seed
    <2>2. PICK n \in IF m.samples < 2 THEN {b} ELSE Desired(b) :
               \/ size' = b
               \/ size' = IF m.proven \in Floor(b)..b THEN Max({n, m.proven}) ELSE n
      BY <2>1
    <2>3. n \in Floor(b)..b
      BY <1>2, <2>2, DesiredFacts
    <2>4. ASSUME m.proven \in Floor(b)..b PROVE Max({n, m.proven}) \in Floor(b)..b
      <3>1. n \in Int /\ m.proven \in Int
        BY <1>2, <2>3, <2>4
      <3> QED  BY <2>3, <2>4, <3>1, MaxPair
    <2>5. b \in Floor(b)..b
      BY <1>2
    <2>6. size' \in Floor(b)..b
      BY <2>2, <2>3, <2>4, <2>5
    <2> QED  BY <1>4, <1>7, <1>10, <2>1, <2>6
  <1> QED  BY <1>8, <1>9, <1>10

LEMMA UploadStep ==
    ASSUME IInv, NEW r \in Rotations, NEW c \in Caps, NEW t \in Tuned(r), Upload(r, c, t)
    PROVE  IInv'
  <1>1. PICK b : b = AdaptiveBatch(r, t, c)
    OBVIOUS
  <1>2. b \in 1..Capacity /\ (b = 1 \/ b <= Budget \div Page[r])
    BY <1>1, AdaptiveFacts
  <1>3. /\ due' = FALSE /\ flight' = None /\ EngineUpload(r, c, b) /\ base' = b /\ Seed(r, b)
        /\ opening' \in BOOLEAN /\ growth' = NoGrowth /\ UNCHANGED <<latency, cache, family>>
    BY <1>1 DEF Upload
  <1>4. /\ job' = r /\ cap' = c /\ grown' = FALSE /\ Activate(b)
        /\ UNCHANGED <<retune, experiment, files>>
    BY <1>3 DEF EngineUpload
  <1>5. /\ size' \in 1..b /\ (latency => size' >= Floor(b))
        /\ memory' \in [Rotations -> Memory]
        /\ ~latency => memory' = memory
        /\ latency => memory'[r].probe = 0
        /\ \A q \in Rotations : q # r => memory'[q] = memory[q]
        /\ memory'[r].clean = memory[r].clean /\ memory'[r].over = memory[r].over
        /\ memory'[r].batch = memory[r].batch
    BY <1>2, <1>3, SeedFacts DEF IInv
  <1>6. /\ b \in Int /\ size' \in Int /\ size' \in 1..Capacity /\ size' <= b /\ b \in Sizes
    BY <1>2, <1>5, Numbers DEF Sizes
  <1>7. EngineType' /\ Geometry'
    BY <1>4, <1>6, EngineTyped, ActivateFacts DEF IInv
  <1>8. ClientType'
    <2>1. ClientType
      BY TypeParts DEF IInv
    <2>2. NoGrowth \in [clean : 0..CleanScans, tried : BOOLEAN]
      BY Numbers DEF NoGrowth
    <2> QED  BY <1>3, <1>4, <1>5, <1>6, <2>1, <2>2 DEF ClientType
  <1>9. TypeOK'
    BY <1>7, <1>8 DEF TypeOK, EngineType, ClientType
  <1>10. InFlight' /\ Growing'
    BY <1>3, <1>4 DEF InFlight, Growing
  <1>11. Learned' = size'
    BY <1>3 DEF Learned
  <1>12. Bounds'
    <2>1. Fits(base)'
      BY <1>2, <1>3, <1>4 DEF Fits
    <2>2. Budget \div Page[r] \in Int
      BY BatchEngineAssumption, Numbers
    <2>3. size' = 1 \/ size' <= Budget \div Page[r]
      BY <1>2, <1>5, <1>6, <2>2
    <2>4. Fits(Learned)'
      BY <1>4, <1>11, <2>3 DEF Fits
    <2>5. 4 * size' <= 4 * b
      <3>1. \A m, n \in Int : m <= n => 4 * m <= 4 * n
        OBVIOUS
      <3> QED  BY <1>6, <3>1
    <2>6. Floor(base)' = Floor(b)
      BY <1>3 DEF Floor
    <2>7. size' <= size'
      BY <1>6
    <2> QED  BY <1>2, <1>3, <1>4, <1>5, <1>6, <1>11, <2>1, <2>4, <2>5, <2>6, <2>7 DEF Bounds
  <1>13. ASSUME NEW q \in Rotations PROVE Probing(q)'
    <2>1. Probing(q)
      BY DEF IInv
    <2>2. CASE q = r
      <3>1. memory'[q].probe = 0
        <4>1. ~latency => memory[q].probe = 0
          BY <2>1 DEF Probing
        <4> QED  BY <1>5, <2>2, <4>1
      <3> QED  BY <1>5, <2>1, <2>2, <3>1 DEF Probing
    <2>3. CASE q # r
      <3>1. memory'[q] = memory[q]
        BY <1>5, <2>3
      <3> QED  BY <1>3, <1>4, <2>1, <2>3, <3>1 DEF Probing
    <2> QED  BY <2>2, <2>3
  <1> QED  BY <1>7, <1>9, <1>10, <1>12, <1>13 DEF IInv
--------------------------------------------------------------------------------
(* The invariant                                                           *)

LEMMA InitInv == Init => IInv
  <1> SUFFICES ASSUME Init PROVE IInv
    OBVIOUS
  <1>1. /\ retune \in BOOLEAN /\ experiment \in {"off", "untested"} /\ job = None /\ cap = 0
        /\ size = Capacity /\ grown = FALSE /\ active = 0 /\ live = Fresh
        /\ slots = [i \in 0..SlotCount - 1 |-> NoSlot] /\ files = [n \in 1..Capacity |-> {}]
        /\ latency \in BOOLEAN /\ due = FALSE /\ base = 0 /\ opening = FALSE
        /\ growth = NoGrowth /\ flight = None /\ memory = [r \in Rotations |-> NoMemory]
        /\ cache = [r \in Rotations |-> NoEntry]
        /\ \E n \in Seeds : family = [f \in Families |-> n]
    BY DEF Init, EngineInit
  <1>2. /\ 0 \in Sizes /\ Capacity \in 1..Capacity /\ 0 \in 0..CleanScans /\ 0 \in Caps
        /\ Seeds \subseteq Nat
    BY Numbers, BatchEngineAssumption, LatencyBatchAssumption DEF Sizes
  <1>3. NoSlot \in [count : Sizes, state : TuneStates] /\ NoSlot.state = Fresh
    BY <1>2, FreshTuning DEF NoSlot
  <1>4. EngineType /\ Geometry
    <2>1. EngineType
      BY <1>1, <1>2, <1>3, FreshTuning DEF EngineType
    <2>2. Geometry
      BY <1>1, <1>3, FreshTuning DEF Geometry
    <2> QED  BY <2>1, <2>2
  <1>5. ClientType
    <2>1. NoGrowth \in [clean : 0..CleanScans, tried : BOOLEAN]
      BY <1>2 DEF NoGrowth
    <2>2. NoEntry \in [batch : Sizes, unsure : BOOLEAN, rejected : Sizes]
      BY <1>2 DEF NoEntry
    <2>3. family \in [Families -> Nat]
      BY <1>1, <1>2
    <2> QED  BY <1>1, <1>2, <2>1, <2>2, <2>3, NoMemoryTyped DEF ClientType
  <1>6. TypeOK
    BY <1>4, <1>5, TypeParts
  <1>7. InFlight /\ Bounds /\ Growing
    BY <1>1 DEF InFlight, Bounds, Growing
  <1>8. \A r \in Rotations : Probing(r)
    BY <1>1 DEF Probing, NoMemory
  <1> QED  BY <1>4, <1>6, <1>7, <1>8 DEF IInv

LEMMA NextInv == IInv /\ [Next]_vars => IInv'
  <1> SUFFICES ASSUME IInv, [Next]_vars PROVE IInv'
    OBVIOUS
  <1>1. CASE JobArrives
    BY <1>1, ArrivalStep
  <1>2. ASSUME NEW r \in Rotations, NEW c \in Caps, NEW t \in Tuned(r), Upload(r, c, t)
        PROVE  IInv'
    BY <1>2, UploadStep
  <1>3. ASSUME NEW n \in 1..Capacity, Launch(n) PROVE IInv'
    BY <1>3, LaunchStep
  <1>4. ASSUME NEW old \in BOOLEAN, Unused(old) PROVE IInv'
    BY <1>4, UnusedStep
  <1>5. ASSUME NEW ms \in Latencies, NEW gain, ProbeResult(ms, gain) PROVE IInv'
    BY <1>5, ProbeStep
  <1>6. ASSUME NEW ms \in Latencies, FirstScan(ms) PROVE IInv'
    BY <1>6, FirstStep
  <1>7. ASSUME NEW ms \in Latencies, NEW moved, SteadyScan(ms, moved) PROVE IInv'
    BY <1>7, SteadyStep
  <1>8. CASE Restart
    BY <1>8, RestartStep
  <1>9. CASE UNCHANGED vars
    <2>1. UNCHANGED <<retune, experiment, job, cap, size, grown, active, live, slots, files,
                      latency, due, base, opening, growth, flight, memory, cache, family>>
      BY <1>9 DEF vars, engineVars, clientVars
    <2>2. Learned' = Learned
      BY <2>1 DEF Learned
    <2>3. TypeOK' /\ Geometry' /\ InFlight' /\ Growing'
      BY <2>1 DEF IInv, TypeOK, Geometry, InFlight, Growing
    <2>4. Bounds' /\ \A r \in Rotations : Probing(r)'
      BY <2>1, <2>2 DEF IInv, Bounds, Fits, Floor, Probing
    <2> QED  BY <2>3, <2>4 DEF IInv
  <1> QED  BY <1>1, <1>2, <1>3, <1>4, <1>5, <1>6, <1>7, <1>8, <1>9 DEF Next

LEMMA InvHolds == Spec => []IInv
  <1> QED  BY InitInv, NextInv, PTL DEF Spec
--------------------------------------------------------------------------------
(* The theorems                                                            *)

(* Every variable keeps its type: a batch never exceeds the capacity, and  *)
(* no counter of the controller (cooldown, good scans, wins, overruns)     *)
(* passes the limit it is compared with.                                   *)
THEOREM TypeCorrect == Spec => []TypeOK
  <1>1. IInv => TypeOK
    BY DEF IInv
  <1> QED  BY <1>1, InvHolds, PTL

LEMMA FitsBudget ==
    ASSUME NEW n \in Nat, NEW p \in Nat \ {0}, n <= Budget \div p
    PROVE  n * p <= Budget
  <1>1. Budget \div p \in Nat /\ (Budget \div p) * p <= Budget
    BY Multiples, Numbers
  <1>2. PICK k \in Nat : Budget \div p = n + k
    <2>1. Budget \div p - n \in Nat /\ Budget \div p = n + (Budget \div p - n)
      BY <1>1
    <2> QED  BY <2>1
  <1>3. (n + k) * p = n * p + k * p /\ k * p \in Nat /\ n * p \in Nat
    OBVIOUS
  <1> QED  BY <1>1, <1>2, <1>3, Numbers

(* Whatever the caches, the probes, the growth and the hedges set, a scan  *)
(* fits the scratchpad bytes the engine allocated, and the batch learned   *)
(* stays between the floor and the batch of the job, or a quarter above it *)
(* once grown.                                                             *)
THEOREM BoundsCorrect == Spec => []BatchInBounds
  <1>1. ASSUME IInv PROVE BatchInBounds
    <2> SUFFICES ASSUME job # None
                 PROVE  /\ size = 1 \/ size * Page[job] <= Budget
                        /\ base # 0 /\ 4 * Learned <= (IF grown THEN 5 ELSE 4) * base
                        /\ latency => Learned >= Floor(base)
      BY DEF BatchInBounds
    <2>1. /\ base \in 1..Capacity /\ Learned \in 1..Capacity /\ Fits(Learned)
          /\ size <= Learned /\ 4 * Learned <= (IF grown THEN 5 ELSE 4) * base
          /\ latency => Learned >= Floor(base)
      BY <1>1 DEF IInv, Bounds
    <2>2. size \in Nat /\ size >= 1 /\ Learned \in Nat /\ Page[job] \in Nat \ {0}
      BY <1>1, <2>1, BatchEngineAssumption, Numbers DEF IInv, TypeOK
    <2>3. Budget \div Page[job] \in Nat
      BY <2>2, Numbers
    <2>4. size = 1 \/ size <= Budget \div Page[job]
      BY <2>1, <2>2, <2>3 DEF Fits
    <2>5. size = 1 \/ size * Page[job] <= Budget
      BY <2>2, <2>4, FitsBudget
    <2> QED  BY <2>1, <2>5
  <1> QED  BY <1>1, InvHolds, PTL

(* A probe that is still to be judged is the batch about to run, and is    *)
(* judged against a throughput measured on the batch it came from.         *)
THEOREM ComparisonCorrect == Spec => []FairComparison
  <1>1. IInv => FairComparison
    BY DEF IInv, Probing, FairComparison
  <1> QED  BY <1>1, InvHolds, PTL

(* A geometry is chosen, and saved, from timings of its own batch.         *)
THEOREM GeometryCorrect == Spec => []TunedOnItsBatch
  <1>1. IInv => TunedOnItsBatch
    BY DEF IInv, Geometry, Tuning, TunedOnItsBatch
  <1> QED  BY <1>1, InvHolds, PTL

--------------------------------------------------------------------------------
(* Progress                                                                *)

(* Only a state that has been initialised has samples or a choice, and a   *)
(* batch has one slot.                                                     *)
Opened(t) == ~t.init => t.samples = 0 /\ ~t.selected

Slotted ==
    /\ Opened(live)
    /\ \A i \in 0..SlotCount - 1 : Opened(slots[i].state)
    /\ \A i, j \in 0..SlotCount - 1 :
          slots[i].count = slots[j].count /\ slots[i].count # 0 => i = j

(* The active batch can be saved without replacing another one.            *)
SlotLeft ==
    active = 0 \/ \E i \in 0..SlotCount - 1 : slots[i].count \in {0, active}

(* What a launch makes of a tuning state: no less than it was.             *)
Advances(t, s) ==
    /\ s.samples >= t.samples
    /\ t.selected => s.selected
    /\ Opened(t) => Opened(s)

LEMMA AdvancesSame ==
    ASSUME NEW t \in TuneStates, NEW loop \in {"timed", "chosen"}
    PROVE  Advances(t, t) /\ Advances(t, [t EXCEPT !.loop = loop])
  <1>1. t.samples \in Int
    BY Numbers DEF TuneStates
  <1>2. [t EXCEPT !.loop = loop].init = t.init
        /\ [t EXCEPT !.loop = loop].samples = t.samples
        /\ [t EXCEPT !.loop = loop].selected = t.selected
    BY DEF TuneStates
  <1> QED  BY <1>1, <1>2 DEF Advances, Opened

LEMMA PhasesAdvance ==
    ASSUME EngineType, Geometry, NEW n \in 1..Capacity,
           NEW t \in TuneStates, Tuning(t), Opened(t), LaunchPhases(n, t)
    PROVE  Advances(t, live')
  <1> DEFINE g == IF t.init THEN t ELSE Initialized(n)
             s == IF Sampling(g, n) THEN Sampled(g, n) ELSE g
  <1>1. g \in TuneStates /\ Tuning(g)
    BY InitializedTuning
  <1>2. g.init /\ g.samples >= t.samples /\ (t.selected => g.selected)
    <2>1. CASE t.init
      BY <2>1, Numbers DEF TuneStates
    <2>2. CASE ~t.init
      <3>1. Initialized(n).init /\ Initialized(n).samples = 0
        BY DEF Initialized, Fresh
      <3> QED  BY <2>2, <3>1 DEF Opened
    <2> QED  BY <2>1, <2>2
  <1>3. s.init /\ s.samples >= g.samples /\ (g.selected => s.selected)
    <2> HIDE DEF g
    <2>1. g.samples \in Int
      BY <1>1, Numbers DEF TuneStates
    <2>2. CASE Sampling(g, n)
      <3>1. Sampled(g, n).init = g.init /\ Sampled(g, n).samples = g.samples + 1
        BY <1>1 DEF Sampled, TuneStates
      <3>2. ~g.selected /\ s = Sampled(g, n)
        BY <2>2 DEF Sampling
      <3> HIDE DEF s
      <3>3. s.init = g.init /\ s.samples = g.samples + 1
        BY <3>1, <3>2
      <3>4. s.init
        BY <1>2, <3>3
      <3>5. s.samples >= g.samples
        BY <2>1, <3>3
      <3> QED  BY <3>2, <3>4, <3>5
    <2>3. CASE ~Sampling(g, n)
      BY <1>2, <2>1, <2>3
    <2> QED  BY <2>2, <2>3
  <1>4. Advances(t, s)
    <2>1. t.samples \in Int /\ g.samples \in Int
      BY <1>1, Numbers DEF TuneStates
    <2>2. s.samples \in Int
      <3> HIDE DEF g
      <3>1. CASE Sampling(g, n)
        BY <1>1, <3>1, <2>1 DEF Sampled, TuneStates
      <3>2. CASE ~Sampling(g, n)
        BY <2>1, <3>2
      <3> QED  BY <3>1, <3>2
    <2> HIDE DEF g, s
    <2> QED  BY <1>2, <1>3, <2>1, <2>2 DEF Advances, Opened
  <1>5. live' \in {t, s} \/ \E loop \in {"timed", "chosen"} : live' = [t EXCEPT !.loop = loop]
    BY DEF LaunchPhases, LaunchLoop
  <1> HIDE DEF g, s
  <1> QED  BY <1>4, <1>5, AdvancesSame

(* What is restored is as it was saved.                                    *)
LEMMA RestoredOpened ==
    ASSUME EngineType, Geometry, Opened(live),
           \A i \in 0..SlotCount - 1 : Opened(slots[i].state), NEW n
    PROVE  /\ Opened(LiveFor(n))
           /\ \A i \in 0..SlotCount - 1 : Opened(SlotsFor(n)[i].state)
  <1>1. \A i \in 0..SlotCount - 1 : Opened(SlotsFor(n)[i].state)
    <2>1. CASE SlotsFor(n) = slots
      BY <2>1
    <2>2. CASE SlotsFor(n) = [slots EXCEPT ![WritableSlot(active)] =
                                 [count |-> active, state |-> live]]
      <3>1. PICK s : s = [count |-> active, state |-> live]
        OBVIOUS
      <3>2. s.state = live
        BY <3>1
      <3>3. PICK w : SlotsFor(n) = [slots EXCEPT ![w] = s]
        BY <2>2, <3>1
      <3> QED  BY <3>2, <3>3 DEF EngineType
    <2> QED  BY <2>1, <2>2 DEF SlotsFor, Saved
  <1> DEFINE own == {i \in 0..SlotCount - 1 : SlotsFor(n)[i].count = n}
  <1>2. LiveFor(n) = IF active = n THEN live
                     ELSE IF own = {} THEN Fresh ELSE SlotsFor(n)[Min(own)].state
    BY DEF LiveFor, EngineType
  <1>3. own \in SUBSET Nat /\ own \subseteq 0..SlotCount - 1
    BY Numbers
  <1> HIDE DEF own
  <1>4. own # {} => Min(own) \in 0..SlotCount - 1
    BY <1>3, MinFacts
  <1>5. Opened(Fresh)
    BY DEF Opened, Fresh
  <1> QED  BY <1>1, <1>2, <1>4, <1>5

(* Every step but a restart activates a batch, often the active one, and   *)
(* goes on from the state that restores.                                   *)
LEMMA EngineSteps ==
    ASSUME IInv, Opened(live), \A i \in 0..SlotCount - 1 : Opened(slots[i].state),
           [Next]_vars
    PROVE  \/ /\ active' = 0 /\ live' = Fresh
              /\ slots' = [i \in 0..SlotCount - 1 |-> NoSlot]
           \/ \E n : /\ active' = n /\ slots' = SlotsFor(n)
                     /\ Advances(LiveFor(n), live')
  <1>0. EngineType /\ Geometry
    BY EngineTyped DEF IInv
  <1>1. ASSUME UNCHANGED <<active, live, slots>>
        PROVE  \E n : /\ active' = n /\ slots' = SlotsFor(n)
                      /\ Advances(LiveFor(n), live')
    <2>1. SlotsFor(active) = slots /\ LiveFor(active) = live /\ live \in TuneStates
      BY <1>0 DEF SlotsFor, LiveFor, EngineType
    <2> QED  BY <1>1, <2>1, AdvancesSame
  <1>2. ASSUME NEW n, Activate(n)
        PROVE  \E m : /\ active' = m /\ slots' = SlotsFor(m)
                      /\ Advances(LiveFor(m), live')
    <2>1. LiveFor(n) \in TuneStates
      BY <1>0, LiveForFacts
    <2> QED  BY <1>2, <2>1, AdvancesSame DEF Activate
  <1>3. ASSUME NEW n, EngineScan(n)
        PROVE  \E m : /\ active' = m /\ slots' = SlotsFor(m)
                      /\ Advances(LiveFor(m), live')
    <2>1. n \in 1..Capacity
      BY <1>3 DEF EngineScan
    <2>2. CASE active' = n /\ slots' = SlotsFor(n) /\ LaunchPhases(n, LiveFor(n))
      <3>1. LiveFor(n) \in TuneStates /\ Tuning(LiveFor(n))
        BY <1>0, LiveForFacts
      <3>2. Opened(LiveFor(n))
        BY <1>0, RestoredOpened
      <3> QED  BY <1>0, <2>1, <2>2, <3>1, <3>2, PhasesAdvance
    <2>3. CASE UNCHANGED <<active, slots>> /\ LaunchPhases(n, live)
      <3>1. SlotsFor(active) = slots /\ LiveFor(active) = live
            /\ live \in TuneStates /\ Tuning(live)
        BY <1>0 DEF SlotsFor, LiveFor, EngineType, Geometry
      <3>2. Advances(live, live')
        BY <1>0, <2>1, <2>3, <3>1, PhasesAdvance
      <3> QED  BY <2>3, <3>1, <3>2
    <2> QED  BY <1>3, <2>2, <2>3 DEF EngineScan
  <1>4. ASSUME NEW r \in Rotations, NEW c \in Caps, NEW t \in Tuned(r), Upload(r, c, t)
        PROVE  \E n : Activate(n)
    BY <1>4 DEF Upload, EngineUpload
  <1>5. ASSUME NEW old \in BOOLEAN, Unused(old)
        PROVE  (\E n : Activate(n)) \/ UNCHANGED <<active, live, slots>>
    BY <1>5 DEF Unused, EngineGrow
  <1>6. ASSUME NEW n \in 1..Capacity, Launch(n) PROVE \E m : EngineScan(m)
    BY <1>6 DEF Launch
  <1>7. ASSUME NEW ms \in Latencies, NEW gain, ProbeResult(ms, gain)
        PROVE  UNCHANGED <<active, live, slots>>
    BY <1>7 DEF ProbeResult, LearnedFrom
  <1>8. ASSUME NEW ms \in Latencies, FirstScan(ms)
        PROVE  UNCHANGED <<active, live, slots>>
    <2>1. \E m, b : LearnedFrom(m, b)
      BY <1>8 DEF FirstScan
    <2> QED  BY <2>1 DEF LearnedFrom
  <1>9. ASSUME NEW ms \in Latencies, NEW moved, SteadyScan(ms, moved)
        PROVE  UNCHANGED <<active, live, slots>>
    BY <1>9 DEF SteadyScan, LearnedFrom
  <1>10. JobArrives \/ UNCHANGED vars => UNCHANGED <<active, live, slots>>
    BY DEF JobArrives, vars, engineVars
  <1>11. CASE Restart
    BY <1>0, <1>11 DEF Restart, EngineType
  <1>12. CASE UNCHANGED <<active, live, slots>>
    BY <1>1, <1>12
  <1>13. CASE \E n : Activate(n)
    BY <1>2, <1>13
  <1>14. CASE \E n : EngineScan(n)
    BY <1>3, <1>14
  <1> QED
    BY <1>4, <1>5, <1>6, <1>7, <1>8, <1>9, <1>10, <1>11, <1>12, <1>13, <1>14 DEF Next

(* The slot that the state of the active batch is saved in.                *)
LEMMA SlotToWrite ==
    ASSUME EngineType, active # 0, NEW n
    PROVE  LET own  == {i \in 0..SlotCount - 1 : slots[i].count = active}
               free == {i \in 0..SlotCount - 1 : slots[i].count = 0}
               w == WritableSlot(active)
           IN  /\ w \in 0..SlotCount - 1
               /\ own # {} => w \in own
               /\ own = {} /\ free # {} => w \in free
               /\ Saved = [slots EXCEPT ![w] = [count |-> active, state |-> live]]
  <1> DEFINE own  == {i \in 0..SlotCount - 1 : slots[i].count = active}
             free == {i \in 0..SlotCount - 1 : slots[i].count = 0}
             w == WritableSlot(active)
  <1>0. DOMAIN slots = 0..SlotCount - 1
    BY DEF EngineType
  <1>1. w = IF own # {} THEN Min(own) ELSE IF free # {} THEN Min(free)
            ELSE active % SlotCount
    BY <1>0 DEF WritableSlot
  <1>2. own \in SUBSET Nat /\ free \in SUBSET Nat
    BY Numbers
  <1>3. active \in Nat /\ SlotCount \in Nat \ {0}
    BY Numbers DEF EngineType, Sizes
  <1>4. active % SlotCount \in 0..SlotCount - 1
    BY <1>3
  <1>5. Saved = [slots EXCEPT ![w] = [count |-> active, state |-> live]]
    BY DEF Saved
  <1> HIDE DEF w
  <1>6. /\ own # {} => w \in own
        /\ own = {} /\ free # {} => w \in free
        /\ own = {} /\ free = {} => w \in 0..SlotCount - 1
    <2> HIDE DEF own, free
    <2> QED  BY <1>1, <1>2, <1>4, MinFacts
  <1> QED  BY <1>5, <1>6 DEF w

LEMMA SavedApart ==
    ASSUME EngineType, Slotted, active # 0
    PROVE  \A i, j \in 0..SlotCount - 1 :
              Saved[i].count = Saved[j].count /\ Saved[i].count # 0 => i = j
  <1> DEFINE own == {i \in 0..SlotCount - 1 : slots[i].count = active}
  <1>1. PICK w \in 0..SlotCount - 1 :
           /\ own # {} => w \in own
           /\ Saved = [slots EXCEPT ![w] = [count |-> active, state |-> live]]
    BY SlotToWrite
  <1>2. \A i \in 0..SlotCount - 1 :
           Saved[i].count = IF i = w THEN active ELSE slots[i].count
    BY <1>1 DEF EngineType
  <1>3. \A i \in 0..SlotCount - 1 : i # w => slots[i].count # active
    BY <1>1 DEF Slotted
  <1> QED  BY <1>2, <1>3 DEF Slotted

LEMMA InitSlotted == Init => Slotted
  BY DEF Init, EngineInit, Slotted, Opened, Fresh, NoSlot

LEMMA NextSlotted ==
    ASSUME IInv, Slotted, [Next]_vars
    PROVE  Slotted'
  <1>0. EngineType /\ Geometry
    BY EngineTyped DEF IInv
  <1>1. CASE /\ active' = 0 /\ live' = Fresh
             /\ slots' = [i \in 0..SlotCount - 1 |-> NoSlot]
    BY <1>1 DEF Slotted, Opened, Fresh, NoSlot
  <1>2. ASSUME NEW n, active' = n, slots' = SlotsFor(n), Advances(LiveFor(n), live')
        PROVE  Slotted'
    <2>1. Opened(LiveFor(n)) /\ \A i \in 0..SlotCount - 1 : Opened(SlotsFor(n)[i].state)
      BY <1>0, RestoredOpened DEF Slotted
    <2>2. Opened(live')
      BY <1>2, <2>1 DEF Advances
    <2>3. \A i, j \in 0..SlotCount - 1 :
             slots'[i].count = slots'[j].count /\ slots'[i].count # 0 => i = j
      BY <1>0, <1>2, SavedApart DEF SlotsFor, Slotted, Saved
    <2> QED  BY <1>2, <2>1, <2>2, <2>3 DEF Slotted, Opened
  <1> QED  BY <1>1, <1>2, EngineSteps DEF Slotted

(* The tuning of a batch in slots of its own.                              *)
StateIn(s, n) ==
    LET own == {i \in 0..SlotCount - 1 : s[i].count = n}
    IN  IF own = {} THEN Fresh ELSE s[Min(own)].state

LEMMA Restored ==
    ASSUME EngineType, NEW n
    PROVE  /\ TuningOf(n) = IF active = n THEN live ELSE StateIn(slots, n)
           /\ LiveFor(n) = IF active = n THEN live ELSE StateIn(SlotsFor(n), n)
  BY DEF EngineType, TuningOf, LiveFor, StateIn

LEMMA StateTyped ==
    ASSUME EngineType, NEW n
    PROVE  TuningOf(n) \in TuneStates
  <1> DEFINE own == {i \in 0..SlotCount - 1 : slots[i].count = n}
  <1>1. own \in SUBSET Nat /\ own \subseteq 0..SlotCount - 1
    BY Numbers
  <1>2. StateIn(slots, n) = IF own = {} THEN Fresh ELSE slots[Min(own)].state
    BY DEF StateIn
  <1> HIDE DEF own
  <1>3. own # {} => Min(own) \in 0..SlotCount - 1
    BY <1>1, MinFacts
  <1> QED  BY <1>2, <1>3, Restored, FreshTuning DEF EngineType

(* Saving the active batch where a slot is left moves its state there and  *)
(* leaves those of the others.                                             *)
LEMMA SavedState ==
    ASSUME EngineType, Slotted, SlotLeft, active # 0, NEW n \in 1..Capacity
    PROVE  StateIn(Saved, n) = IF active = n THEN live ELSE StateIn(slots, n)
  <1> DEFINE own  == {i \in 0..SlotCount - 1 : slots[i].count = active}
             free == {i \in 0..SlotCount - 1 : slots[i].count = 0}
  <1>1. PICK w \in 0..SlotCount - 1 :
           /\ own # {} => w \in own
           /\ own = {} /\ free # {} => w \in free
           /\ Saved = [slots EXCEPT ![w] = [count |-> active, state |-> live]]
    BY SlotToWrite
  <1>2. slots[w].count \in {0, active}
    BY <1>1 DEF SlotLeft
  <1>3. \A i \in 0..SlotCount - 1 :
           /\ i = w => Saved[i].count = active /\ Saved[i].state = live
           /\ i # w => Saved[i] = slots[i]
    BY <1>1 DEF EngineType
  <1> DEFINE before == {i \in 0..SlotCount - 1 : slots[i].count = n}
             after  == {i \in 0..SlotCount - 1 : Saved[i].count = n}
  <1>4. n # 0
    OBVIOUS
  <1>5. CASE active # n
    <2>1. before = after /\ w \notin after
      BY <1>2, <1>3, <1>4, <1>5
    <2>2. before \in SUBSET Nat
      BY Numbers
    <2>3. before # {} => Min(before) \in before
      <3> HIDE DEF before
      <3> QED  BY <2>2, MinFacts
    <2>4. before # {} => Saved[Min(before)] = slots[Min(before)]
      BY <1>3, <2>1, <2>3
    <2> QED  BY <1>5, <2>1, <2>4 DEF StateIn
  <1>6. CASE active = n
    <2>1. after = {w}
      <3>1. \A i \in 0..SlotCount - 1 : i # w => slots[i].count # active
        BY <1>1 DEF Slotted
      <3> QED  BY <1>3, <1>6, <3>1
    <2>2. after \in SUBSET Nat
      BY Numbers
    <2>3. Min(after) = w
      <3>1. after # {}
        BY <2>1
      <3>2. Min(after) \in after
        <4> HIDE DEF after
        <4> QED  BY <2>2, <3>1, MinFacts
      <3> QED  BY <2>1, <3>2
    <2> QED  BY <1>3, <1>6, <2>1, <2>3 DEF StateIn
  <1> QED  BY <1>5, <1>6

(* Nothing is evicted: the batch that is left has a slot, or one is free.  *)
NothingEvicted == [][active' \notin {0, active} => SlotLeft]_vars

LEMMA TuningAdvances ==
    ASSUME IInv, Slotted, [Next]_vars, active' # 0, active' # active => SlotLeft,
           NEW n \in 1..Capacity
    PROVE  Advances(TuningOf(n), TuningOf(n)')
  <1>0. EngineType /\ Geometry
    BY EngineTyped DEF IInv
  <1>1. PICK m : active' = m /\ slots' = SlotsFor(m) /\ Advances(LiveFor(m), live')
    BY EngineSteps DEF Slotted
  <1>2. StateIn(SlotsFor(m), n) = IF active = n /\ m # n THEN live ELSE StateIn(slots, n)
    <2>1. n # 0
      OBVIOUS
    <2>2. CASE active = m \/ active = 0
      <3>1. SlotsFor(m) = slots
        BY <2>2 DEF SlotsFor, Saved
      <3>2. ~(active = n /\ m # n)
        BY <2>1, <2>2
      <3> QED  BY <3>1, <3>2
    <2>3. CASE active # m /\ active # 0
      <3>1. SlotsFor(m) = Saved
        BY <2>3 DEF SlotsFor
      <3>2. SlotLeft
        BY <1>1, <2>3
      <3>3. StateIn(Saved, n) = IF active = n THEN live ELSE StateIn(slots, n)
        BY <1>0, <2>3, <3>2, SavedState
      <3> QED  BY <2>3, <3>1, <3>3
    <2> QED  BY <2>2, <2>3
  <1>3. TuningOf(n)' = IF m = n THEN live' ELSE StateIn(SlotsFor(m), n)
    <2>1. EngineType'
      BY NextInv, EngineTyped DEF IInv, EngineType, TypeOK
    <2>2. DOMAIN slots' = 0..SlotCount - 1
      BY <2>1 DEF EngineType
    <2> QED  BY <1>1, <2>2 DEF TuningOf, StateIn
  <1>4. CASE m = n
    <2>1. TuningOf(n) = IF active = n THEN live ELSE StateIn(slots, n)
      BY <1>0, Restored
    <2>2. LiveFor(n) = IF active = n THEN live ELSE StateIn(SlotsFor(n), n)
      BY <1>0, Restored
    <2>3. LiveFor(m) = TuningOf(n)
      BY <1>2, <1>4, <2>1, <2>2
    <2> QED  BY <1>1, <1>3, <1>4, <2>3
  <1>5. CASE m # n
    <2>1. TuningOf(n) = IF active = n THEN live ELSE StateIn(slots, n)
      BY <1>0, Restored
    <2>2. TuningOf(n)' = TuningOf(n)
      BY <1>2, <1>3, <1>5, <2>1
    <2>3. TuningOf(n) \in TuneStates
      BY <1>0, StateTyped
    <2>4. Advances(TuningOf(n), TuningOf(n))
      BY <2>3, AdvancesSame
    <2> QED  BY <2>2, <2>4
  <1> QED  BY <1>4, <1>5

(* As long as a batch that is left finds a slot, moving between batches    *)
(* loses none of their tuning progress and reopens no choice.              *)
THEOREM ProgressCorrect == Spec /\ NothingEvicted => ProgressKept
  <1>1. ASSUME IInv, Slotted, [Next]_vars, active' \notin {0, active} => SlotLeft,
               active' # 0, NEW n \in 1..Capacity
        PROVE  /\ TuningOf(n)'.samples >= TuningOf(n).samples
               /\ TuningOf(n).selected => TuningOf(n)'.selected
    BY <1>1, TuningAdvances DEF Advances
  <1>2. IInv /\ Slotted /\ [Next]_vars /\ [active' \notin {0, active} => SlotLeft]_vars
          => [active' # 0 => \A n \in 1..Capacity :
                /\ TuningOf(n)'.samples >= TuningOf(n).samples
                /\ TuningOf(n).selected => TuningOf(n)'.selected]_vars
    BY <1>1
  <1>3. Spec => []Slotted
    <2>1. IInv /\ Slotted /\ [Next]_vars => Slotted'
      BY NextSlotted
    <2> QED  BY InitSlotted, <2>1, InvHolds, PTL DEF Spec
  <1> QED  BY <1>2, <1>3, InvHolds, PTL DEF Spec, NothingEvicted, ProgressKept

(* The slots and the active batch come from a set of batches.              *)
SlotsIn(Used) == \A i \in 0..SlotCount - 1 : slots[i].count \in Used \cup {0}

LEMMA NextSlotsIn ==
    ASSUME NEW Used, IInv, Slotted, SlotsIn(Used), active \in Used \cup {0}, [Next]_vars
    PROVE  SlotsIn(Used)'
  <1>0. EngineType
    BY EngineTyped DEF IInv
  <1>1. CASE slots' = [i \in 0..SlotCount - 1 |-> NoSlot]
    BY <1>1 DEF SlotsIn, NoSlot
  <1>2. ASSUME NEW n, slots' = SlotsFor(n) PROVE SlotsIn(Used)'
    <2>1. CASE SlotsFor(n) = slots
      BY <1>2, <2>1 DEF SlotsIn
    <2>2. CASE SlotsFor(n) # slots
      <3>1. SlotsFor(n) = [slots EXCEPT ![WritableSlot(active)] =
                              [count |-> active, state |-> live]]
        BY <2>2 DEF SlotsFor, Saved
      <3> QED  BY <1>0, <1>2, <3>1 DEF SlotsIn, EngineType
    <2> QED  BY <2>1, <2>2
  <1> QED  BY <1>0, <1>1, <1>2, EngineSteps DEF Slotted, IInv

(* Slots for all the batches of a set: one of them is free, or the active  *)
(* batch has its own.                                                      *)
LEMMA EnoughSlots ==
    ASSUME EngineType, Slotted, NEW Used, Used \subseteq 1..Capacity,
           Cardinality(Used) <= SlotCount, SlotsIn(Used), active \in Used \cup {0}
    PROVE  SlotLeft
  <1> SUFFICES ASSUME ~SlotLeft PROVE FALSE
    OBVIOUS
  <1> DEFINE Others == Used \ {active}
             f == [i \in 0..SlotCount - 1 |-> slots[i].count]
  <1>1. active \in Used /\ f \in [0..SlotCount - 1 -> Others]
    BY DEF SlotLeft, SlotsIn
  <1>2. IsFiniteSet(Used)
    <2>1. IsFiniteSet(1..Capacity)
      BY Numbers, FS_Interval
    <2> QED  BY <2>1, FS_Subset
  <1>3. IsFiniteSet(Others) /\ Cardinality(Others) = Cardinality(Used) - 1
    BY <1>1, <1>2, FS_RemoveElement
  <1>4. Cardinality(Used) \in Nat
    BY <1>2, FS_CardinalityType
  <1>5. IsFiniteSet(0..SlotCount - 1) /\ Cardinality(0..SlotCount - 1) = SlotCount
    <2>1. SlotCount \in Nat \ {0}
      BY Numbers
    <2>2. 0 \in Int /\ SlotCount - 1 \in Int /\ ~(0 > SlotCount - 1)
          /\ SlotCount - 1 - 0 + 1 = SlotCount
      BY <2>1
    <2> QED  BY <2>2, FS_Interval
  <1>6. Cardinality(Others) < Cardinality(0..SlotCount - 1)
    <2>1. SlotCount \in Nat
      BY Numbers
    <2> HIDE DEF Others
    <2> QED  BY <1>3, <1>4, <1>5, <2>1
  <1>7. \E i, j \in 0..SlotCount - 1 : i # j /\ f[i] = f[j]
    <2> HIDE DEF Others, f
    <2> QED  BY <1>1, <1>3, <1>5, <1>6, FS_PigeonHole
  <1>8. PICK i, j \in 0..SlotCount - 1 : i # j /\ slots[i].count = slots[j].count
    BY <1>7
  <1>9. slots[i].count # 0
    BY DEF SlotLeft
  <1> QED  BY <1>8, <1>9 DEF Slotted

(* With a slot for every batch that is ever active, no batch loses the     *)
(* samples or the choice of its geometry, in whatever order they alternate. *)
THEOREM SlotsSuffice ==
    ASSUME NEW CONSTANT Used, Used \subseteq 1..Capacity, Cardinality(Used) <= SlotCount
    PROVE  Spec /\ [](active \in Used \cup {0}) => ProgressKept
  <1>1. Init => SlotsIn(Used)
    BY DEF Init, EngineInit, SlotsIn, NoSlot
  <1>2. IInv /\ Slotted /\ SlotsIn(Used) /\ active \in Used \cup {0} /\ [Next]_vars
          => SlotsIn(Used)'
    BY NextSlotsIn
  <1>3. IInv /\ Slotted /\ SlotsIn(Used) /\ active \in Used \cup {0} => SlotLeft
    BY EnoughSlots, EngineTyped DEF IInv
  <1>4. SlotLeft => [active' \notin {0, active} => SlotLeft]_vars
    OBVIOUS
  <1>5. IInv /\ Slotted /\ [Next]_vars => Slotted'
    BY NextSlotted
  <1>6. Spec /\ [](active \in Used \cup {0}) => NothingEvicted
    BY <1>1, <1>2, <1>3, <1>4, <1>5, InitSlotted, InvHolds, PTL DEF Spec, NothingEvicted
  <1> QED  BY <1>6, ProgressCorrect, PTL
================================================================================
