------------------------- MODULE WorkerPoolRefinement -------------------------
(***************************************************************************)
(* Proof that WorkerPool implements BatchHash, and of the invariants about *)
(* the nonces a batch hashes, for every number of workers, lane width,     *)
(* nonce space and set of requests.                                        *)
(*                                                                         *)
(* The argument: the nonces of a batch are divided, at every moment, among *)
(* the nonces hashed, those a worker has in hand and those nobody has      *)
(* claimed.  A step moves nonces from one part to the next, and only a     *)
(* raised stop flag lets a worker drop what it has in hand.  So when       *)
(* everybody has checked in, the hashed nonces are the batch, or the batch *)
(* was stopped; and since no nonce is in two parts, the workers' counts    *)
(* add up to the number of nonces hashed.                                  *)
(***************************************************************************)
EXTENDS WorkerPoolProofs, FunctionTheorems

(* The nonces from the a-th to the one before the b-th after s.            *)
Stretch(s, a, b) == {NonceAfter(s, n) : n \in a .. b - 1}

(* A batch has been published and the pool is not being destroyed.         *)
Active == generation > 0 /\ ~stopping

(* The batch may end before its end.                                       *)
Stoppable == plan.stop /\ cancel

(* A worker that refills from the cursor; the others keep their slice.     *)
Shares(w) == plan.share /\ plan.sizes[w] # 0

Slice(w) == Stretch(plan.starts[w], 0, plan.sizes[w])

(* The nonces a worker has to hash and has not: the chunk it claimed, what *)
(* is left of the chunk or slice it hashes, the slice it will be given.    *)
InHand(w) ==
    IF pc[w] = "refill"
    THEN Stretch(plan.start, offset[w], Smaller(offset[w] + Lanes, plan.limit))
    ELSE IF pc[w] = "hash" \/ (pc[w] = "snapshot" /\ ~Shares(w))
    THEN Stretch(start[w], i[w], count[w])
    ELSE IF seen[w] # generation /\ ~Shares(w)
    THEN Slice(w)
    ELSE {}

(* The nonces nobody has claimed.                                          *)
Stock == IF plan.share THEN Stretch(plan.start, nextWork, plan.limit) ELSE {}

(* The candidates among some nonces.                                       *)
Meeting(ns) == ns \cap Solutions[<<plan.key, plan.target>>]

----------------------------------------------------------------------------
(* The inductive invariant.                                                *)

(* The slices of the plan partition the batch, which does not overlap      *)
(* itself; a batch is shared among workers that have a slice.              *)
Sliced ==
    /\ plan.limit <= NonceSpace
    /\ plan.stop = request.stop
    /\ \A w \in Workers : plan.sizes[w] <= NonceSpace
    /\ \A n \in BatchNonces : \E w \in Workers : n \in Slice(w)
    /\ \A w \in Workers : Slice(w) \subseteq BatchNonces
    /\ \A v, w \in Workers : v # w => Slice(v) \cap Slice(w) = {}
    /\ plan.share => \E w \in Workers : plan.sizes[w] # 0

(* Where a worker is in the batch.                                         *)
Stage(w) ==
    /\ pc[w] \in {"wait", "asleep"} => i[w] = 0 /\ hashes[w] = 0 /\ found[w] = {}
    /\ seen[w] # generation \/ pc[w] = "snapshot" => hashed[w] = {}
    /\ pc[w] = "snapshot" => /\ start[w] = plan.starts[w]
                             /\ count[w] = plan.sizes[w]
                             /\ i[w] = 0
    /\ pc[w] \in {"check", "claim", "refill"} => Shares(w) /\ participating[w]
    /\ pc[w] = "hash" => (participating[w] <=> Shares(w))
    /\ pc[w] = "refill" => offset[w] <= nextWork
    /\ pc[w] = "hash" => count[w] <= NonceSpace

(* What a worker has counted and kept, and then reported.                  *)
Tally(w) ==
    /\ pc[w] \notin Outside => /\ hashes[w] = Cardinality(hashed[w])
                               /\ found[w] = Meeting(hashed[w])
    /\ w \in CheckedIn => /\ counts[w] = Cardinality(hashed[w])
                          /\ results[w] = Meeting(hashed[w])

(* A worker that shared leaves an empty stock behind, or a stopped batch.  *)
Exhausted(w) ==
    Shares(w) /\ (pc[w] = "report" \/ w \in CheckedIn) =>
        nextWork >= plan.limit \/ Stoppable

(* No nonce is in two parts.                                               *)
Disjoint ==
    /\ \A v, w \in Workers : v # w => /\ hashed[v] \cap hashed[w] = {}
                                      /\ InHand(v) \cap InHand(w) = {}
    /\ \A v, w \in Workers : hashed[v] \cap InHand(w) = {}
    /\ \A w \in Workers : /\ Stock \cap hashed[w] = {}
                          /\ Stock \cap InHand(w) = {}
                          /\ hashed[w] \subseteq BatchNonces
                          /\ InHand(w) \subseteq BatchNonces
    /\ Stock \subseteq BatchNonces

(* No nonce is in no part, unless the batch may be stopped.                *)
Covered ==
    ~Stoppable => \A n \in BatchNonces :
        n \in Stock \/ \E w \in Workers : n \in hashed[w] \/ n \in InHand(w)

(* The nonces of the workers the caller's loop has passed.                 *)
HashedBelow(k) == UNION {hashed[w] : w \in 0 .. k - 1}

(* The caller's loops over the reports.                                    *)
Totals ==
    /\ caller \in {"notify", "await", "blocked", "serve"} =>
           at = 0 /\ sum = 0 /\ merged = {}
    /\ caller = "account" => sum = Cardinality(HashedBelow(at)) /\ merged = {}
    /\ caller = "learn" => at = 0 /\ merged = {}
    /\ caller = "merge" => merged = Meeting(HashedBelow(at))
    /\ learnt => caller \in {"merge", "idle", "stopNotify", "join", "gone"}

(* Before the first batch.                                                 *)
Fresh ==
    generation = 0 => /\ caller = "idle"
                      /\ \A w \in Workers : i[w] = 0 /\ hashes[w] = 0 /\ found[w] = {}

InBatchInv ==
    /\ Sliced
    /\ \A w \in Workers : Stage(w) /\ Tally(w) /\ Exhausted(w)
    /\ Disjoint
    /\ Covered

IInv == /\ TypeOK
        /\ Rendezvous
        /\ Fresh
        /\ Active => InBatchInv
        /\ Totals
        /\ ExactAnswer
        /\ LearntFromWholeBatch

----------------------------------------------------------------------------
(* Arithmetic of nonces.                                                   *)

LEMMA Products ==
    ASSUME NEW a \in Nat, NEW b \in Nat, NEW d \in Nat, a <= b
    PROVE  a * d <= b * d
  <1>1. PICK k \in Nat : b = a + k
    <2>1. b - a \in Nat /\ b = a + (b - a)  OBVIOUS
    <2> QED  BY <2>1
  <1>2. k * d \in Nat  BY Z3
  <1>3. b * d = a * d + k * d  BY <1>1, Z3
  <1>4. a * d \in Nat  BY Z3
  <1> QED  BY <1>2, <1>3, <1>4

LEMMA Division ==
    ASSUME NEW x \in Nat, NEW d \in Nat \ {0}
    PROVE  \E q \in Nat, r \in 0 .. d - 1 :
              q = x \div d /\ r = x % d /\ x = q * d + r
  <1>1. x \div d \in Nat  BY Z3
  <1>2. x % d \in 0 .. d - 1  BY Z3
  <1>3. x % d = x - d * (x \div d)  BY Z3
  <1>4. PICK q \in Nat, r \in 0 .. d - 1 : q = x \div d /\ r = x % d /\ r = x - d * q
    BY <1>1, <1>2, <1>3
  <1>5. d * q \in Nat /\ d * q = q * d  BY Z3
  <1>6. x = q * d + r  BY <1>4, <1>5
  <1> QED  BY <1>4, <1>6

(* Quotient and remainder are determined by their defining property.       *)
LEMMA Remainder ==
    ASSUME NEW d \in Nat \ {0}, NEW q \in Nat, NEW r \in 0 .. d - 1
    PROVE  (q * d + r) % d = r
  <1> DEFINE x == q * d + r
  <1>1. q * d \in Nat /\ x \in Nat  BY Z3
  <1> HIDE DEF x
  <1>2. PICK p \in Nat, s \in 0 .. d - 1 : p = x \div d /\ s = x % d /\ x = p * d + s
    BY <1>1, Division
  <1>3. q * d + r = p * d + s  BY <1>2 DEF x
  <1>4. CASE p = q
    <2>1. p * d = q * d  BY <1>4
    <2> QED  BY <1>1, <1>2, <1>3, <2>1 DEF x
  <1>5. CASE p > q
    <2>1. (q + 1) * d <= p * d  BY <1>5, Products
    <2>2. (q + 1) * d = q * d + d  BY Z3
    <2>3. p * d \in Nat  BY Z3
    <2> QED  BY <1>1, <1>3, <2>1, <2>2, <2>3
  <1>6. CASE p < q
    <2>1. (p + 1) * d <= q * d  BY <1>6, Products
    <2>2. (p + 1) * d = p * d + d  BY Z3
    <2>3. p * d \in Nat  BY Z3
    <2> QED  BY <1>1, <1>3, <2>1, <2>2, <2>3
  <1> QED  BY <1>4, <1>5, <1>6

(* Two numbers differ by a multiple of d and leave the same remainder.     *)
LEMMA SameRemainder ==
    ASSUME NEW d \in Nat \ {0}, NEW x \in Nat, NEW k \in Nat
    PROVE  (x + k * d) % d = x % d
  <1>1. PICK q \in Nat, r \in 0 .. d - 1 : q = x \div d /\ r = x % d /\ x = q * d + r
    BY Division
  <1>2. x + k * d = (q + k) * d + r
    <2>1. (q + k) * d = q * d + k * d  BY Z3
    <2>2. q * d \in Nat /\ k * d \in Nat  BY Z3
    <2> QED  BY <1>1, <2>1, <2>2
  <1>3. ((q + k) * d + r) % d = r
    BY Remainder
  <1> QED  BY <1>1, <1>2, <1>3

(* The b-th nonce after the a-th after s.                                  *)
LEMMA NonceAfterSum ==
    ASSUME NEW s \in Nat, NEW a \in Nat, NEW b \in Nat
    PROVE  NonceAfter(NonceAfter(s, a), b) = NonceAfter(s, a + b)
  <1>0. NonceSpace \in Nat \ {0} /\ s + a \in Nat  BY PoolAssumption
  <1>1. PICK q \in Nat, r \in 0 .. NonceSpace - 1 :
           r = (s + a) % NonceSpace /\ s + a = q * NonceSpace + r
    BY <1>0, Division
  <1>2. s + (a + b) = (r + b) + q * NonceSpace
    <2>1. q * NonceSpace \in Nat  BY <1>0, Z3
    <2> QED  BY <1>0, <1>1, <2>1
  <1>3. ((r + b) + q * NonceSpace) % NonceSpace = (r + b) % NonceSpace
    <2>1. r + b \in Nat  BY <1>0
    <2> QED  BY <1>0, <2>1, SameRemainder
  <1> QED  BY <1>1, <1>2, <1>3 DEF NonceAfter

(* Nonces closer than the nonce space are different.                       *)
LEMMA NonceAfterInjective ==
    ASSUME NEW s \in Nat, NEW a \in Nat, NEW b \in Nat, a < b, b - a < NonceSpace
    PROVE  NonceAfter(s, a) # NonceAfter(s, b)
  <1> DEFINE S == NonceSpace
  <1>0. S \in Nat \ {0} /\ s + a \in Nat /\ s + b \in Nat  BY PoolAssumption
  <1> SUFFICES ASSUME NonceAfter(s, a) = NonceAfter(s, b) PROVE FALSE
    OBVIOUS
  <1>1. PICK q \in Nat, r \in 0 .. S - 1 : r = (s + a) % S /\ s + a = q * S + r
    BY <1>0, Division
  <1>2. PICK p \in Nat : s + b = p * S + r
    <2>1. PICK t \in 0 .. S - 1, p \in Nat : t = (s + b) % S /\ s + b = p * S + t
      BY <1>0, Division
    <2> QED  BY <1>1, <2>1 DEF NonceAfter
  <1>3. q * S \in Nat /\ p * S \in Nat  BY <1>0, Z3
  <1> HIDE DEF S
  <1>4. q * S < p * S /\ p * S - q * S < S
    <2>1. b - a < S  BY DEF S
    <2> QED  BY <1>0, <1>1, <1>2, <1>3, <2>1
  <1>5. ~(p <= q)  BY <1>0, <1>3, <1>4, Products
  <1>6. (q + 1) * S <= p * S  BY <1>0, <1>5, Products
  <1>7. (q + 1) * S = q * S + S  BY <1>0, Z3
  <1> QED  BY <1>0, <1>3, <1>4, <1>6, <1>7

----------------------------------------------------------------------------
(* Stretches of nonces.                                                    *)

LEMMA StretchType ==
    ASSUME NEW s \in Nat, NEW a \in Nat, NEW b \in Int
    PROVE  Stretch(s, a, b) \subseteq Nonces
  BY NonceAfterType DEF Stretch

(* A stretch that starts at a nonce of another.                            *)
LEMMA StretchShift ==
    ASSUME NEW s \in Nat, NEW o \in Nat, NEW a \in Nat, NEW b \in Int
    PROVE  Stretch(NonceAfter(s, o), a, b) = Stretch(s, o + a, o + b)
  <1>1. \A n \in a .. b - 1 : /\ o + n \in (o + a) .. (o + b) - 1
                              /\ NonceAfter(NonceAfter(s, o), n) = NonceAfter(s, o + n)
    BY NonceAfterSum
  <1>2. \A m \in (o + a) .. (o + b) - 1 :
           /\ m - o \in a .. b - 1
           /\ NonceAfter(NonceAfter(s, o), m - o) = NonceAfter(s, m)
    <2> TAKE m \in (o + a) .. (o + b) - 1
    <2>1. m - o \in Nat /\ m - o \in a .. b - 1 /\ o + (m - o) = m  OBVIOUS
    <2>2. NonceAfter(NonceAfter(s, o), m - o) = NonceAfter(s, o + (m - o))
      BY <2>1, NonceAfterSum
    <2> QED  BY <2>1, <2>2
  <1>3. Stretch(NonceAfter(s, o), a, b) \subseteq Stretch(s, o + a, o + b)
    BY <1>1 DEF Stretch
  <1>4. Stretch(s, o + a, o + b) \subseteq Stretch(NonceAfter(s, o), a, b)
    BY <1>2 DEF Stretch
  <1> QED  BY <1>3, <1>4

(* Two nonces of a stretch that is not longer than the nonce space.        *)
LEMMA StretchInjective ==
    ASSUME NEW s \in Nat, NEW a \in Nat, NEW b \in Int, b - a <= NonceSpace,
           NEW m \in a .. b - 1, NEW n \in a .. b - 1,
           NonceAfter(s, m) = NonceAfter(s, n)
    PROVE  m = n
  <1>0. NonceSpace \in Nat /\ m \in Nat /\ n \in Nat  BY PoolAssumption
  <1>1. m < n => n - m < NonceSpace  BY <1>0
  <1>2. n < m => m - n < NonceSpace  BY <1>0
  <1>3. ~(m < n)  BY <1>0, <1>1, NonceAfterInjective
  <1>4. ~(n < m)  BY <1>0, <1>2, NonceAfterInjective
  <1> QED  BY <1>0, <1>3, <1>4

(* Parts of a stretch do not overlap.                                      *)
LEMMA StretchApart ==
    ASSUME NEW s \in Nat, NEW a \in Nat, NEW b \in Int, NEW c \in Nat, NEW d \in Int,
           b <= c, d - a <= NonceSpace
    PROVE  Stretch(s, a, b) \cap Stretch(s, c, d) = {}
  <1> SUFFICES ASSUME NEW m \in a .. b - 1, NEW n \in c .. d - 1,
                      NonceAfter(s, m) = NonceAfter(s, n)
               PROVE  FALSE
    BY DEF Stretch
  <1>1. m \in a .. d - 1 /\ n \in a .. d - 1 /\ m # n  OBVIOUS
  <1> QED  BY <1>1, StretchInjective

LEMMA StretchSplit ==
    ASSUME NEW s \in Nat, NEW a \in Nat, NEW b \in Int, NEW c \in Int,
           a <= b, b <= c
    PROVE  Stretch(s, a, c) = Stretch(s, a, b) \cup Stretch(s, b, c)
  <1>1. a .. c - 1 = (a .. b - 1) \cup (b .. c - 1)  OBVIOUS
  <1> QED  BY <1>1 DEF Stretch

LEMMA StretchEmpty ==
    ASSUME NEW s, NEW a \in Int, NEW b \in Int, b <= a
    PROVE  Stretch(s, a, b) = {}
  <1>1. a .. b - 1 = {}  OBVIOUS
  <1> QED  BY <1>1 DEF Stretch

LEMMA StretchSize ==
    ASSUME NEW s \in Nat, NEW a \in Nat, NEW b \in Nat, a <= b, b - a <= NonceSpace
    PROVE  /\ IsFiniteSet(Stretch(s, a, b))
           /\ Cardinality(Stretch(s, a, b)) = b - a
  <1> DEFINE D == a .. b - 1
             T == Stretch(s, a, b)
             f == [n \in D |-> NonceAfter(s, n)]
  <1>1. IsFiniteSet(D) /\ Cardinality(D) = b - a
    <2>1. a \in Int /\ b - 1 \in Int  OBVIOUS
    <2>2. /\ IsFiniteSet(a .. b - 1)
          /\ Cardinality(a .. b - 1) = IF a > b - 1 THEN 0 ELSE (b - 1) - a + 1
      BY <2>1, FS_Interval
    <2> QED  BY <2>2
  <1>2. f \in Bijection(D, T)
    <2>1. f \in [D -> T]  BY DEF Stretch
    <2>2. \A m, n \in D : f[m] = f[n] => m = n
      <3> SUFFICES ASSUME NEW m \in D, NEW n \in D, f[m] = f[n] PROVE m = n
        OBVIOUS
      <3>1. b \in Int /\ NonceAfter(s, m) = NonceAfter(s, n)  OBVIOUS
      <3> QED  BY <3>1, StretchInjective
    <2>3. \A t \in T : \E n \in D : f[n] = t
      BY DEF Stretch
    <2> QED  BY <2>1, <2>2, <2>3, Fun_IsBij, Zenon
  <1>3. ExistsBijection(D, T)  BY <1>2, Fun_ExistsBij, Zenon
  <1> QED  BY <1>1, <1>3, FS_Bijection

----------------------------------------------------------------------------
(* The fixed slices of a plan.                                             *)

LEMMA SliceValues ==
    ASSUME NEW total \in Nat, NEW active \in Nat \ {0}
    PROVE  \E d \in Nat, r \in 0 .. active - 1 :
              /\ total = d * active + r
              /\ \A w \in Nat : w < active =>
                    /\ SliceOffset(total, active, w) = w * d + Smaller(w, r)
                    /\ SliceSize(total, active, w) = d + (IF w < r THEN 1 ELSE 0)
              /\ \A w \in Nat : w >= active =>
                    SliceOffset(total, active, w) = 0 /\ SliceSize(total, active, w) = 0
  <1>1. PICK d \in Nat, r \in 0 .. active - 1 :
           d = total \div active /\ r = total % active /\ total = d * active + r
    BY Division
  <1>2. \A w \in Nat : w < active =>
           /\ SliceOffset(total, active, w) = w * d + Smaller(w, r)
           /\ SliceSize(total, active, w) = d + (IF w < r THEN 1 ELSE 0)
    <2> TAKE w \in Nat
    <2> HAVE w < active
    <2>1. ~(w >= active)  OBVIOUS
    <2>2. SliceOffset(total, active, w) = w * d + Smaller(w, r)
      BY <1>1, <2>1 DEF SliceOffset
    <2>3. SliceSize(total, active, w) = d + (IF w < r THEN 1 ELSE 0)
      BY <1>1, <2>1 DEF SliceSize
    <2> QED  BY <2>2, <2>3
  <1>3. \A w \in Nat : w >= active =>
           SliceOffset(total, active, w) = 0 /\ SliceSize(total, active, w) = 0
    BY DEF SliceOffset, SliceSize
  <1> QED  BY <1>1, <1>2, <1>3

(* A slice begins after the end of an earlier one.                         *)
LEMMA SlicesOrdered ==
    ASSUME NEW total \in Nat, NEW active \in Nat \ {0},
           NEW v \in Nat, NEW w \in Nat, v < w, w < active
    PROVE  SliceOffset(total, active, v) + SliceSize(total, active, v)
              <= SliceOffset(total, active, w)
  <1>1. PICK d \in Nat, r \in 0 .. active - 1 :
              /\ total = d * active + r
              /\ \A u \in Nat : u < active =>
                    /\ SliceOffset(total, active, u) = u * d + Smaller(u, r)
                    /\ SliceSize(total, active, u) = d + (IF u < r THEN 1 ELSE 0)
              /\ \A u \in Nat : u >= active =>
                    SliceOffset(total, active, u) = 0 /\ SliceSize(total, active, u) = 0
    BY SliceValues
  <1>2. (v + 1) * d <= w * d  BY Products
  <1>3. PICK x \in Nat, y \in Nat : x = v * d /\ y = w * d /\ x + d <= y
    <2>1. (v + 1) * d = v * d + d /\ v * d \in Nat /\ w * d \in Nat  BY Z3
    <2> QED  BY <1>2, <2>1
  <1>4. /\ SliceOffset(total, active, v) = x + Smaller(v, r)
        /\ SliceSize(total, active, v) = d + (IF v < r THEN 1 ELSE 0)
        /\ SliceOffset(total, active, w) = y + Smaller(w, r)
    BY <1>1, <1>3
  <1>5. Smaller(v, r) + (IF v < r THEN 1 ELSE 0) <= Smaller(w, r)
    BY DEF Smaller
  <1>6. Smaller(v, r) \in Nat /\ Smaller(w, r) \in Nat  BY DEF Smaller
  <1> QED  BY <1>3, <1>4, <1>5, <1>6

(* A slice ends within the batch.                                          *)
LEMMA SlicesBounded ==
    ASSUME NEW total \in Nat, NEW active \in Nat \ {0}, NEW w \in Nat
    PROVE  /\ SliceOffset(total, active, w) \in Nat
           /\ SliceSize(total, active, w) \in Nat
           /\ SliceOffset(total, active, w) + SliceSize(total, active, w) <= total
  <1>1. PICK d \in Nat, r \in 0 .. active - 1 :
              /\ total = d * active + r
              /\ \A u \in Nat : u < active =>
                    /\ SliceOffset(total, active, u) = u * d + Smaller(u, r)
                    /\ SliceSize(total, active, u) = d + (IF u < r THEN 1 ELSE 0)
              /\ \A u \in Nat : u >= active =>
                    SliceOffset(total, active, u) = 0 /\ SliceSize(total, active, u) = 0
    BY SliceValues
  <1>2. CASE w >= active
    BY <1>1, <1>2
  <1>3. CASE w < active
    <2>1. (w + 1) * d <= active * d  BY <1>3, Products
    <2>2. PICK x \in Nat, y \in Nat : x = w * d /\ y = active * d /\ x + d <= y
      <3>1. (w + 1) * d = w * d + d /\ w * d \in Nat /\ active * d \in Nat  BY Z3
      <3> QED  BY <2>1, <3>1
    <2>3. d * active = y  BY <2>2, Z3
    <2>4. /\ total = y + r
          /\ SliceOffset(total, active, w) = x + Smaller(w, r)
          /\ SliceSize(total, active, w) = d + (IF w < r THEN 1 ELSE 0)
      BY <1>1, <1>3, <2>2, <2>3
    <2>5. Smaller(w, r) + (IF w < r THEN 1 ELSE 0) <= r /\ Smaller(w, r) \in Nat
      BY DEF Smaller
    <2> QED  BY <2>2, <2>4, <2>5
  <1> QED  BY <1>2, <1>3

(* Every nonce of the batch is in a slice.                                 *)
LEMMA SlicesCover ==
    ASSUME NEW total \in Nat, NEW active \in Nat \ {0}, NEW o \in 0 .. total - 1
    PROVE  \E w \in 0 .. active - 1 :
              /\ SliceOffset(total, active, w) <= o
              /\ o < SliceOffset(total, active, w) + SliceSize(total, active, w)
  <1>1. PICK d \in Nat, r \in 0 .. active - 1 :
              /\ total = d * active + r
              /\ \A u \in Nat : u < active =>
                    /\ SliceOffset(total, active, u) = u * d + Smaller(u, r)
                    /\ SliceSize(total, active, u) = d + (IF u < r THEN 1 ELSE 0)
              /\ \A u \in Nat : u >= active =>
                    SliceOffset(total, active, u) = 0 /\ SliceSize(total, active, u) = 0
    BY SliceValues
  <1>2. PICK big \in Nat : big = r * (d + 1)  BY Z3
  <1>3. CASE o < big
    \* One of the first r slices, which have d + 1 nonces.
    <2>1. PICK w \in Nat, p \in 0 .. d : o = w * (d + 1) + p
      <3> DEFINE e == d + 1
      <3>1. e \in Nat \ {0} /\ o \in Nat /\ e - 1 = d  OBVIOUS
      <3> HIDE DEF e
      <3>2. PICK w \in Nat, p \in 0 .. e - 1 : o = w * e + p
        <4>1. \E q \in Nat, v \in 0 .. e - 1 : q = o \div e /\ v = o % e /\ o = q * e + v
          BY <3>1, Division, Zenon
        <4> QED  BY <4>1, Zenon
      <3> QED  BY <3>1, <3>2 DEF e
    <2>2. w < r
      <3> SUFFICES ASSUME r <= w PROVE FALSE
        OBVIOUS
      <3>1. r * (d + 1) <= w * (d + 1)  BY Products
      <3>2. w * (d + 1) \in Nat  BY Z3
      <3> QED  BY <1>2, <1>3, <2>1, <3>1, <3>2
    <2>3. PICK x \in Nat : x = w * d  BY Z3
    <2>4. w * (d + 1) = x + w  BY <2>3, Z3
    <2>5. /\ SliceOffset(total, active, w) = x + w
          /\ SliceSize(total, active, w) = d + 1
      BY <1>1, <2>2, <2>3 DEF Smaller
    <2>6. w \in 0 .. active - 1  BY <2>2
    <2> QED  BY <2>1, <2>4, <2>5, <2>6
  <1>4. CASE o >= big
    \* One of the others, which have d.
    <2>1. PICK x \in Nat, z \in Nat : x = r * d /\ z = active * d  BY Z3
    <2>2. big = x + r  BY <1>2, <2>1, Z3
    <2>3. d * active = z  BY <2>1, Z3
    <2>4. total = z + r  BY <1>1, <2>3
    <2>5. d # 0
      <3> SUFFICES ASSUME d = 0 PROVE FALSE
        OBVIOUS
      <3>1. x = 0 /\ z = 0  BY <2>1, Z3
      <3> QED  BY <1>4, <2>2, <2>4, <3>1
    <2>6. PICK q \in Nat, p \in 0 .. d - 1 : o - big = q * d + p
      <3>1. d \in Nat \ {0} /\ o - big \in Nat  BY <1>4, <2>5
      <3> QED  BY <3>1, Division
    <2>7. PICK y \in Nat : y = q * d  BY Z3
    <2> DEFINE w == r + q
    <2>8. w * d = x + y /\ w \in Nat  BY <2>1, <2>7, Z3
    <2>9. w < active
      <3> SUFFICES ASSUME active <= w PROVE FALSE
        OBVIOUS
      <3>1. active * d <= w * d  BY <2>8, Products
      <3> QED  BY <1>4, <2>1, <2>2, <2>4, <2>6, <2>7, <2>8, <3>1
    <2>10. /\ SliceOffset(total, active, w) = x + y + r
           /\ SliceSize(total, active, w) = d
      <3>1. ~(w < r)  OBVIOUS
      <3>2. Smaller(w, r) = r  BY <3>1 DEF Smaller
      <3> HIDE DEF w
      <3> QED  BY <1>1, <2>8, <2>9, <3>1, <3>2
    <2>11. w \in 0 .. active - 1  BY <2>8, <2>9
    <2> QED  BY <1>4, <2>2, <2>6, <2>7, <2>10, <2>11
  <1> QED  BY <1>3, <1>4

(* The plan run publishes is sliced.                                       *)
LEMMA PlanSliced ==
    ASSUME TypeOK, NEW r \in Requests, NEW active \in ActiveChoices(r),
           plan' = PlanFor(r, active), request' = r
    PROVE  Sliced'
  <1> DEFINE total == Threads * r.count
             off(w) == SliceOffset(total, active, w)
             size(w) == SliceSize(total, active, w)
             s == r.start
  <1>1. /\ r \in Request
        /\ Threads \in Nat \ {0}
        /\ NonceSpace \in Nat \ {0}
        /\ total <= NonceSpace
    BY PoolAssumption
  <1>2. total \in Nat  BY <1>1, Z3 DEF Request
  <1>3. active \in Nat \ {0} /\ active <= Threads  BY <1>1 DEF ActiveChoices
  <1>4. s \in Nat  BY <1>1 DEF Request, Nonces
  <1>5. /\ plan'.limit = total
        /\ plan'.start = s
        /\ plan'.stop = r.stop
        /\ plan'.share = SharesWork(total, active)
        /\ \A w \in Workers : /\ plan'.starts[w] = NonceAfter(s, off(w))
                              /\ plan'.sizes[w] = size(w)
    BY DEF PlanFor
  <1>6. \A w \in Workers : w \in Nat  BY DEF Workers
  <1> HIDE DEF total, s
  <1>7. \A w \in Workers : off(w) \in Nat /\ size(w) \in Nat /\ off(w) + size(w) <= total
    BY <1>2, <1>3, <1>6, SlicesBounded
  <1>8. \A w \in Workers : Slice(w)' = Stretch(s, off(w), off(w) + size(w))
    <2> TAKE w \in Workers
    <2>1. Stretch(NonceAfter(s, off(w)), 0, size(w)) = Stretch(s, off(w) + 0, off(w) + size(w))
      BY <1>4, <1>7, StretchShift
    <2> QED  BY <1>5, <1>7, <2>1 DEF Slice
  <1>9. BatchNonces' = Stretch(s, 0, total)
    BY <1>5 DEF BatchNonces, Stretch
  <1>10. plan'.limit <= NonceSpace /\ plan'.stop = request'.stop
    BY <1>1, <1>5 DEF total
  <1>11. \A w \in Workers : plan'.sizes[w] <= NonceSpace
    BY <1>1, <1>2, <1>5, <1>7, <1>10
  <1>12. \A n \in BatchNonces' : \E w \in Workers : n \in Slice(w)'
    <2> SUFFICES ASSUME NEW o \in 0 .. total - 1
                 PROVE  \E w \in Workers : NonceAfter(s, o) \in Slice(w)'
      BY <1>9 DEF Stretch
    <2>1. PICK w \in 0 .. active - 1 : off(w) <= o /\ o < off(w) + size(w)
      BY <1>2, <1>3, SlicesCover
    <2>2. w \in Workers  BY <1>1, <1>3 DEF Workers
    <2>3. o \in off(w) .. (off(w) + size(w)) - 1  BY <1>7, <2>1, <2>2
    <2> QED  BY <1>8, <2>2, <2>3 DEF Stretch
  <1>13. \A w \in Workers : Slice(w)' \subseteq BatchNonces'
    <2> TAKE w \in Workers
    <2>1. off(w) .. (off(w) + size(w)) - 1 \subseteq 0 .. total - 1
      BY <1>2, <1>7
    <2> QED  BY <1>8, <1>9, <2>1 DEF Stretch
  <1>14. \A v, w \in Workers : v # w => Slice(v)' \cap Slice(w)' = {}
    <2>1. ASSUME NEW v \in Workers, NEW w \in Workers, v < w
          PROVE  Slice(v)' \cap Slice(w)' = {}
      <3>1. CASE w < active
        <4>1. off(v) + size(v) <= off(w)
          BY <1>2, <1>3, <1>6, <2>1, <3>1, SlicesOrdered
        <4>2. (off(w) + size(w)) - off(v) <= NonceSpace
          BY <1>1, <1>2, <1>7, <2>1
          DEF total
        <4>3. Stretch(s, off(v), off(v) + size(v)) \cap Stretch(s, off(w), off(w) + size(w)) = {}
          BY <1>4, <1>7, <4>1, <4>2, StretchApart
        <4> QED  BY <1>8, <4>3
      <3>2. CASE w >= active
        <4>1. size(w) = 0  BY <3>2 DEF SliceSize
        <4>2. Slice(w)' = {}
          BY <1>7, <1>8, <4>1, StretchEmpty
        <4> QED  BY <4>2
      <3> QED  BY <1>3, <1>6, <3>1, <3>2
    <2> TAKE v, w \in Workers
    <2> HAVE v # w
    <2>2. v < w \/ w < v  BY <1>6
    <2>3. v < w => Slice(v)' \cap Slice(w)' = {}  BY <2>1
    <2>4. w < v => Slice(w)' \cap Slice(v)' = {}  BY <2>1
    <2> QED  BY <2>2, <2>3, <2>4
  <1>15. plan'.share => \E w \in Workers : plan'.sizes[w] # 0
    <2> SUFFICES ASSUME SharesWork(total, active) PROVE plan'.sizes[0] # 0 /\ 0 \in Workers
      BY <1>5
    <2>1. 0 \in Workers /\ 0 < active  BY <1>1, <1>3 DEF Workers
    <2>2. total \div active >= 8
      BY DEF SharesWork, RefillThreshold
    <2>3. total \div active \in Nat
      <3>1. PICK q \in Nat, p \in 0 .. active - 1 : q = total \div active
        BY <1>2, <1>3, Division
      <3> QED  BY <3>1
    <2>4. size(0) = (total \div active) + (IF 0 < total % active THEN 1 ELSE 0)
      BY <1>3, <2>1 DEF SliceSize
    <2>5. size(0) # 0  BY <2>2, <2>3, <2>4
    <2> QED  BY <1>5, <2>1, <2>5
  <1> QED
    BY <1>10, <1>11, <1>12, <1>13, <1>14, <1>15 DEF Sliced

----------------------------------------------------------------------------
(* Steps and the parts of the batch.                                       *)

LEMMA BatchTypes ==
    ASSUME TypeOK, Rendezvous, Active
    PROVE  /\ plan.start \in Nat
           /\ plan.limit \in Nat
           /\ \A w \in Workers : plan.starts[w] \in Nat /\ plan.sizes[w] \in Nat
           /\ nextWork \in Nat
           /\ Lanes \in Nat \ {0}
           /\ NonceSpace \in Nat \ {0}
  <1>1. plan \in Plan
    BY DEF TypeOK, SharedTypeOK, Rendezvous, Active
  <1> QED  BY <1>1, PoolAssumption DEF Plan, Nonces, TypeOK, SharedTypeOK

LEMMA WorkerTypes ==
    ASSUME TypeOK, NEW w \in Workers
    PROVE  /\ start[w] \in Nat
           /\ count[w] \in Nat
           /\ offset[w] \in Nat
           /\ i[w] \in Nat
           /\ hashes[w] \in Nat
           /\ pc[w] \in WorkerAt
           /\ participating[w] \in BOOLEAN
           /\ hashed[w] \subseteq Nonces
           /\ found[w] \subseteq Nonces
  BY PoolAssumption DEF TypeOK, WorkerTypeOK, Nonces

(* The other workers' steps, the caller's, and waking up leave a worker    *)
(* where it is in the batch.                                               *)
SameWorker(v) ==
    /\ pc'[v] = pc[v] \/ {pc[v], pc'[v]} \subseteq {"wait", "asleep"}
    /\ seen'[v] = seen[v]
    /\ participating'[v] = participating[v]
    /\ start'[v] = start[v]
    /\ count'[v] = count[v]
    /\ offset'[v] = offset[v]
    /\ i'[v] = i[v]
    /\ found'[v] = found[v]
    /\ hashes'[v] = hashes[v]
    /\ hashed'[v] = hashed[v]
    /\ results'[v] = results[v]
    /\ counts'[v] = counts[v]

(* The batch goes on: the same plan, the cursor moves forward only and a   *)
(* raised stop flag stays raised.                                          *)
SameBatch ==
    /\ plan' = plan
    /\ generation' = generation
    /\ nextWork \in Nat /\ nextWork' \in Nat /\ nextWork <= nextWork'
    /\ cancel => cancel'

LEMMA SameWorkerKeeps ==
    ASSUME NEW v \in Workers, SameWorker(v), SameBatch, plan.limit \in Nat,
           offset[v] \in Nat
    PROVE  /\ InHand(v)' = InHand(v)
           /\ Stage(v) => Stage(v)'
           /\ Tally(v) => Tally(v)'
           /\ Exhausted(v) => Exhausted(v)'
  <1>1. Shares(v)' = Shares(v)  BY DEF Shares, SameBatch
  <1>2. /\ pc'[v] = "refill" <=> pc[v] = "refill"
        /\ pc'[v] = "hash" <=> pc[v] = "hash"
        /\ pc'[v] = "snapshot" <=> pc[v] = "snapshot"
        /\ pc'[v] = "check" <=> pc[v] = "check"
        /\ pc'[v] = "claim" <=> pc[v] = "claim"
        /\ pc'[v] = "report" <=> pc[v] = "report"
        /\ pc'[v] \in Outside <=> pc[v] \in Outside
        /\ pc'[v] \in {"wait", "asleep"} <=> pc[v] \in {"wait", "asleep"}
    BY DEF SameWorker, Outside
  <1>3. InHand(v)' = InHand(v)
    BY <1>1, <1>2 DEF InHand, Slice, SameWorker, SameBatch
  <1>4. Stage(v) => Stage(v)'
    BY <1>1, <1>2 DEF Stage, SameWorker, SameBatch
  <1>5. (v \in CheckedIn)' <=> v \in CheckedIn
    BY <1>2 DEF CheckedIn, SameWorker, SameBatch
  <1>6. Tally(v) => Tally(v)'
    BY <1>2, <1>5 DEF Tally, Meeting, SameWorker, SameBatch
  <1>7. Exhausted(v) => Exhausted(v)'
    BY <1>1, <1>2, <1>5 DEF Exhausted, Stoppable, SameWorker, SameBatch
  <1> QED  BY <1>3, <1>4, <1>6, <1>7

(* Nothing moves.                                                          *)
LEMMA NothingMoves ==
    ASSUME Disjoint, Covered, plan' = plan, cancel => cancel',
           \A w \in Workers : hashed'[w] = hashed[w],
           \A w \in Workers : InHand(w)' = InHand(w), Stock' = Stock
    PROVE  Disjoint' /\ Covered'
  <1>1. BatchNonces' = BatchNonces  BY DEF BatchNonces
  <1>2. Disjoint'  BY <1>1 DEF Disjoint
  <1>3. Covered'   BY <1>1 DEF Covered, Stoppable
  <1> QED  BY <1>2, <1>3

(* A worker hashes some of the nonces it has in hand.                      *)
LEMMA GroupMoves ==
    ASSUME Disjoint, Covered, plan' = plan, cancel => cancel',
           NEW w \in Workers, NEW G,
           hashed'[w] = hashed[w] \cup G,
           InHand(w) = G \cup InHand(w)', G \cap InHand(w)' = {},
           \A v \in Workers \ {w} : hashed'[v] = hashed[v] /\ InHand(v)' = InHand(v),
           Stock' = Stock
    PROVE  Disjoint' /\ Covered'
  <1>1. BatchNonces' = BatchNonces  BY DEF BatchNonces
  <1>2. \A v \in Workers \ {w} : /\ hashed[v] \cap InHand(w) = {}
                                 /\ hashed[w] \cap InHand(v) = {}
                                 /\ hashed[v] \cap hashed[w] = {}
                                 /\ InHand(v) \cap InHand(w) = {}
    BY DEF Disjoint
  <1>3. /\ hashed[w] \cap InHand(w) = {}
        /\ Stock \cap hashed[w] = {} /\ Stock \cap InHand(w) = {}
        /\ hashed[w] \subseteq BatchNonces /\ InHand(w) \subseteq BatchNonces
        /\ Stock \subseteq BatchNonces
    BY DEF Disjoint
  <1>4. \A v \in Workers \ {w} : /\ hashed'[v] \cap InHand(w)' = {}
                                 /\ hashed'[w] \cap InHand(v)' = {}
                                 /\ hashed'[v] \cap hashed'[w] = {}
                                 /\ InHand(v)' \cap InHand(w)' = {}
    BY <1>2
  <1>5. \A v, u \in Workers \ {w} :
           /\ v # u => /\ hashed'[v] \cap hashed'[u] = {}
                       /\ InHand(v)' \cap InHand(u)' = {}
           /\ hashed'[v] \cap InHand(u)' = {}
    BY DEF Disjoint
  <1>6. \A v \in Workers \ {w} : /\ Stock' \cap hashed'[v] = {}
                                 /\ Stock' \cap InHand(v)' = {}
                                 /\ hashed'[v] \subseteq BatchNonces
                                 /\ InHand(v)' \subseteq BatchNonces
    BY DEF Disjoint
  <1>7. /\ hashed'[w] \cap InHand(w)' = {}
        /\ Stock' \cap hashed'[w] = {} /\ Stock' \cap InHand(w)' = {}
        /\ hashed'[w] \subseteq BatchNonces /\ InHand(w)' \subseteq BatchNonces
        /\ Stock' \subseteq BatchNonces
    BY <1>3
  <1>8. Disjoint'
    BY <1>1, <1>4, <1>5, <1>6, <1>7 DEF Disjoint
  <1>9. Covered'
    BY <1>1 DEF Covered, Stoppable
  <1> QED  BY <1>8, <1>9

(* A worker claims some of the nonces nobody has claimed.                  *)
LEMMA ChunkMoves ==
    ASSUME Disjoint, Covered, plan' = plan, cancel => cancel',
           NEW w \in Workers, InHand(w) = {},
           Stock = Stock' \cup InHand(w)', Stock' \cap InHand(w)' = {},
           \A v \in Workers : hashed'[v] = hashed[v],
           \A v \in Workers \ {w} : InHand(v)' = InHand(v)
    PROVE  Disjoint' /\ Covered'
  <1>1. BatchNonces' = BatchNonces  BY DEF BatchNonces
  <1>2. \A v \in Workers \ {w} : /\ Stock \cap InHand(v) = {}
                                 /\ Stock \cap hashed[v] = {}
    BY DEF Disjoint
  <1>3. \A v \in Workers \ {w} : InHand(v)' \cap InHand(w)' = {}
    BY <1>2
  <1>4. \A v \in Workers : hashed'[v] \cap InHand(w)' = {}
    BY DEF Disjoint
  <1>5. InHand(w)' \subseteq BatchNonces
    BY DEF Disjoint
  <1>6. Disjoint'
    BY <1>1, <1>3, <1>4, <1>5 DEF Disjoint
  <1>7. Covered'
    BY <1>1 DEF Covered, Stoppable
  <1> QED  BY <1>6, <1>7

----------------------------------------------------------------------------
(* The workers' steps.                                                     *)

LEMMA SlicedStays ==
    ASSUME Sliced, plan' = plan, request' = request
    PROVE  Sliced'
  BY DEF Sliced, Slice, BatchNonces

(* What remains to be shown of a worker's step.                            *)
LEMMA WorkerStepKeeps ==
    ASSUME TypeOK, Rendezvous, Active, InBatchInv, NEW w \in Workers,
           SameBatch, request' = request,
           \A v \in Workers \ {w} : SameWorker(v),
           Stage(w)', Tally(w)', Exhausted(w)', Disjoint', Covered'
    PROVE  InBatchInv'
  <1>1. Sliced'  BY SlicedStays DEF InBatchInv, SameBatch
  <1>2. \A v \in Workers : plan.limit \in Nat /\ offset[v] \in Nat
    BY BatchTypes, WorkerTypes
  <1>3. \A v \in Workers \ {w} : Stage(v)' /\ Tally(v)' /\ Exhausted(v)'
    BY <1>2, SameWorkerKeeps DEF InBatchInv
  <1> QED  BY <1>1, <1>3 DEF InBatchInv

(* A step of a worker that hashes and claims nothing.                      *)
LEMMA QuietStepKeeps ==
    ASSUME TypeOK, Rendezvous, Active, InBatchInv, NEW w \in Workers,
           SameBatch, request' = request, nextWork' = nextWork,
           \A v \in Workers \ {w} : SameWorker(v),
           hashed'[w] = hashed[w], InHand(w)' = InHand(w),
           Stage(w)', Tally(w)', Exhausted(w)'
    PROVE  InBatchInv'
  <1>1. \A v \in Workers : plan.limit \in Nat /\ offset[v] \in Nat
    BY BatchTypes, WorkerTypes
  <1>2. \A v \in Workers : hashed'[v] = hashed[v] /\ InHand(v)' = InHand(v)
    BY <1>1, SameWorkerKeeps DEF SameWorker
  <1>3. Stock' = Stock  BY DEF Stock, SameBatch
  <1>4. Disjoint' /\ Covered'
    BY <1>2, <1>3, NothingMoves DEF InBatchInv, SameBatch
  <1> QED  BY <1>4, WorkerStepKeeps

LEMMA WaitForWorkBatch ==
    ASSUME TypeOK, Rendezvous, Active, InBatchInv, NEW w \in Workers, WaitForWork(w)
    PROVE  InBatchInv'
  <1>0. /\ Stage(w) /\ Tally(w) /\ Exhausted(w)
        /\ nextWork \in Nat /\ plan.limit \in Nat /\ offset[w] \in Nat
    BY BatchTypes, WorkerTypes DEF InBatchInv
  <1>1. SameBatch /\ request' = request /\ nextWork' = nextWork
    BY <1>0 DEF WaitForWork, SameBatch, plans, caller_
  <1>2. \A v \in Workers \ {w} : SameWorker(v)
    BY DEF WaitForWork, SameWorker, TypeOK, WorkerTypeOK, locals, reports
  <1>3. hashed' = hashed  BY DEF WaitForWork
  <1>4. CASE seen[w] # generation
    <2>1. /\ pc[w] = "wait" /\ pc'[w] = "snapshot" /\ seen'[w] = generation
          /\ start'[w] = plan.starts[w] /\ count'[w] = plan.sizes[w]
          /\ i'[w] = i[w] /\ found'[w] = found[w] /\ hashes'[w] = hashes[w]
      BY <1>4 DEF WaitForWork, TypeOK, WorkerTypeOK, Active
    <2>2. i[w] = 0 /\ hashes[w] = 0 /\ found[w] = {} /\ hashed[w] = {}
      BY <1>0, <1>4, <2>1 DEF Stage
    <2>3. Shares(w)' = Shares(w)  BY <1>1 DEF Shares, SameBatch
    <2>4. InHand(w)' = InHand(w)
      BY <1>1, <1>4, <2>1, <2>2, <2>3 DEF InHand, Slice, SameBatch
    <2>5. Stage(w)'
      BY <1>1, <1>3, <2>1, <2>2 DEF Stage, SameBatch
    <2>6. Tally(w)'
      BY <1>1, <1>3, <2>1, <2>2, FS_EmptySet DEF Tally, Meeting, CheckedIn, SameBatch
    <2>7. Exhausted(w)'
      BY <2>1 DEF Exhausted, CheckedIn
    <2> QED  BY <1>1, <1>2, <1>3, <2>4, <2>5, <2>6, <2>7, QuietStepKeeps
  <1>5. CASE seen[w] = generation
    <2>1. SameWorker(w)
      BY <1>5 DEF WaitForWork, SameWorker, TypeOK, WorkerTypeOK, locals, reports, Active
    <2>2. InHand(w)' = InHand(w) /\ Stage(w)' /\ Tally(w)' /\ Exhausted(w)'
      BY <1>0, <1>1, <2>1, SameWorkerKeeps
    <2> QED  BY <1>1, <1>2, <1>3, <2>2, QuietStepKeeps
  <1> QED  BY <1>4, <1>5

LEMMA SnapshotBatch ==
    ASSUME TypeOK, Rendezvous, Active, InBatchInv, NEW w \in Workers, Snapshot(w)
    PROVE  InBatchInv'
  <1>0. /\ Stage(w) /\ Tally(w) /\ Exhausted(w) /\ Sliced
        /\ nextWork \in Nat
    BY BatchTypes DEF InBatchInv
  <1>1. SameBatch /\ request' = request /\ nextWork' = nextWork
    BY <1>0 DEF Snapshot, SameBatch, plans, caller_
  <1>2. \A v \in Workers \ {w} : SameWorker(v)
    BY DEF Snapshot, SameWorker, TypeOK, WorkerTypeOK, reports
  <1>3. hashed' = hashed  BY DEF Snapshot
  <1>4. Shares(w)' = Shares(w)  BY <1>1 DEF Shares, SameBatch
  <1>5. pc[w] = "snapshot" /\ seen[w] = generation
    <2>1. pc[w] = "snapshot"  BY DEF Snapshot
    <2> QED  BY <2>1, InBatch DEF Outside
  <1>6. /\ start[w] = plan.starts[w] /\ count[w] = plan.sizes[w] /\ i[w] = 0
    BY <1>0, <1>5 DEF Stage
  <1>7. /\ participating'[w] = (plan.share /\ count[w] # 0)
        /\ pc'[w] = IF participating'[w] THEN "check" ELSE "hash"
        /\ seen'[w] = seen[w] /\ start'[w] = start[w] /\ count'[w] = count[w]
        /\ offset'[w] = offset[w] /\ i'[w] = i[w] /\ found'[w] = found[w]
        /\ hashes'[w] = hashes[w]
    BY DEF Snapshot, TypeOK, WorkerTypeOK
  <1>8. participating'[w] <=> Shares(w)
    BY <1>6, <1>7 DEF Shares
  <1>9. InHand(w)' = InHand(w)
    BY <1>1, <1>4, <1>5, <1>7, <1>8 DEF InHand, SameBatch
  <1>10. count[w] <= NonceSpace  BY <1>0, <1>6 DEF Sliced
  <1>11. Stage(w)'
    BY <1>1, <1>3, <1>4, <1>5, <1>7, <1>8, <1>10 DEF Stage, SameBatch
  <1>12. Tally(w)'
    BY <1>0, <1>1, <1>3, <1>5, <1>7 DEF Tally, Meeting, CheckedIn, SameBatch, Outside
  <1>13. Exhausted(w)'
    BY <1>7 DEF Exhausted, CheckedIn
  <1> QED  BY <1>1, <1>2, <1>3, <1>9, <1>11, <1>12, <1>13, QuietStepKeeps

LEMMA CheckBatch ==
    ASSUME TypeOK, Rendezvous, Active, InBatchInv, NEW w \in Workers, Check(w)
    PROVE  InBatchInv'
  <1>0. /\ Stage(w) /\ Tally(w) /\ Exhausted(w)
        /\ nextWork \in Nat
    BY BatchTypes DEF InBatchInv
  <1>1. SameBatch /\ request' = request /\ nextWork' = nextWork
    BY <1>0 DEF Check, SameBatch, plans, caller_
  <1>2. \A v \in Workers \ {w} : SameWorker(v)
    BY DEF Check, SameWorker, TypeOK, WorkerTypeOK, reports, locals
  <1>3. hashed' = hashed /\ UNCHANGED locals  BY DEF Check
  <1>4. Shares(w)' = Shares(w)  BY <1>1 DEF Shares, SameBatch
  <1>5. pc[w] = "check" /\ seen[w] = generation /\ job[w].stop = plan.stop
    <2>1. pc[w] = "check"  BY DEF Check
    <2> QED  BY <2>1, InBatch DEF Outside
  <1>6. pc'[w] = IF Stopped(w) THEN "report" ELSE "claim"
    BY DEF Check, TypeOK, WorkerTypeOK
  <1>7. InHand(w)' = InHand(w)
    BY <1>1, <1>3, <1>5, <1>6 DEF InHand, SameBatch, locals
  <1>8. Stage(w)'
    BY <1>0, <1>1, <1>3, <1>4, <1>5, <1>6 DEF Stage, SameBatch, locals
  <1>9. Tally(w)'
    BY <1>0, <1>1, <1>3, <1>5, <1>6 DEF Tally, Meeting, CheckedIn, SameBatch, Outside, locals
  <1>10. Exhausted(w)'
    BY <1>1, <1>5, <1>6 DEF Exhausted, CheckedIn, Stopped, Stoppable, SameBatch
  <1> QED  BY <1>1, <1>2, <1>3, <1>7, <1>8, <1>9, <1>10, QuietStepKeeps

LEMMA ClaimBatch ==
    ASSUME TypeOK, Rendezvous, Active, InBatchInv, NEW w \in Workers, Claim(w)
    PROVE  InBatchInv'
  <1>0. /\ Stage(w) /\ Tally(w) /\ Exhausted(w) /\ Sliced /\ Disjoint /\ Covered
        /\ nextWork \in Nat /\ Lanes \in Nat \ {0} /\ NonceSpace \in Nat
        /\ plan.start \in Nat /\ plan.limit \in Nat
    BY BatchTypes DEF InBatchInv
  <1>1. /\ plan' = plan /\ request' = request /\ hashed' = hashed
        /\ generation' = generation /\ cancel' = cancel
        /\ nextWork' = nextWork + Lanes
    BY DEF Claim, Advanced, plans, caller_
  <1>2. SameBatch
    BY <1>0, <1>1 DEF SameBatch
  <1>3. \A v \in Workers \ {w} : SameWorker(v)
    BY DEF Claim, SameWorker, TypeOK, WorkerTypeOK, reports
  <1>4. Shares(w)' = Shares(w)  BY <1>1 DEF Shares
  <1>5. pc[w] = "claim" /\ seen[w] = generation /\ Shares(w) /\ participating[w]
    <2>1. pc[w] = "claim"  BY DEF Claim
    <2> QED  BY <1>0, <2>1, InBatch DEF Outside, Stage
  <1>6. /\ pc'[w] = "refill" /\ offset'[w] = nextWork
        /\ seen'[w] = seen[w] /\ participating'[w] = participating[w]
        /\ found'[w] = found[w] /\ hashes'[w] = hashes[w]
    BY DEF Claim, TypeOK, WorkerTypeOK
  <1>7. InHand(w) = {}  BY <1>5 DEF InHand
  <1>8. InHand(w)' = Stretch(plan.start, nextWork, Smaller(nextWork + Lanes, plan.limit))
    BY <1>1, <1>6 DEF InHand
  <1>9. /\ Stock = Stretch(plan.start, nextWork, plan.limit)
        /\ Stock' = Stretch(plan.start, nextWork + Lanes, plan.limit)
    BY <1>1, <1>5 DEF Stock, Shares
  <1>10. Stock = Stock' \cup InHand(w)' /\ Stock' \cap InHand(w)' = {}
    <2>1. CASE nextWork + Lanes <= plan.limit
      <3>1. Smaller(nextWork + Lanes, plan.limit) = nextWork + Lanes
        BY <1>0, <2>1 DEF Smaller
      <3>2. plan.limit - nextWork <= NonceSpace
        BY <1>0 DEF Sliced
      <3>3. nextWork + Lanes \in Nat /\ nextWork <= nextWork + Lanes
        BY <1>0
      <3>4. Stretch(plan.start, nextWork, plan.limit)
               = Stretch(plan.start, nextWork, nextWork + Lanes)
                 \cup Stretch(plan.start, nextWork + Lanes, plan.limit)
        BY <1>0, <2>1, <3>3, StretchSplit
      <3>5. Stretch(plan.start, nextWork, nextWork + Lanes)
               \cap Stretch(plan.start, nextWork + Lanes, plan.limit) = {}
        BY <1>0, <3>2, <3>3, StretchApart
      <3> QED  BY <1>8, <1>9, <3>1, <3>4, <3>5
    <2>2. CASE nextWork + Lanes > plan.limit
      <3>1. Smaller(nextWork + Lanes, plan.limit) = plan.limit
        BY <1>0, <2>2 DEF Smaller
      <3>2. Stretch(plan.start, nextWork + Lanes, plan.limit) = {}
        <4>1. nextWork + Lanes \in Int /\ plan.limit \in Int /\ plan.limit <= nextWork + Lanes
          BY <1>0, <2>2
        <4> QED  BY <4>1, StretchEmpty
      <3> QED  BY <1>8, <1>9, <3>1, <3>2
    <2> QED  BY <1>0, <2>1, <2>2
  <1>11. \A v \in Workers \ {w} : InHand(v)' = InHand(v)
    BY <1>0, <1>2, <1>3, WorkerTypes, SameWorkerKeeps
  <1>12. Disjoint' /\ Covered'
    BY <1>0, <1>1, <1>7, <1>10, <1>11, ChunkMoves
  <1>13. Stage(w)'
    BY <1>0, <1>1, <1>4, <1>5, <1>6 DEF Stage
  <1>14. Tally(w)'
    BY <1>0, <1>1, <1>5, <1>6 DEF Tally, Meeting, CheckedIn, Outside
  <1>15. Exhausted(w)'
    BY <1>6 DEF Exhausted, CheckedIn
  <1> QED  BY <1>1, <1>2, <1>3, <1>12, <1>13, <1>14, <1>15, WorkerStepKeeps

LEMMA RefillBatch ==
    ASSUME TypeOK, Rendezvous, Active, InBatchInv, NEW w \in Workers, Refill(w)
    PROVE  InBatchInv'
  <1>0. /\ Stage(w) /\ Tally(w) /\ Exhausted(w) /\ Sliced
        /\ nextWork \in Nat /\ Lanes \in Nat \ {0} /\ NonceSpace \in Nat
        /\ plan.start \in Nat /\ plan.limit \in Nat /\ offset[w] \in Nat
    BY BatchTypes, WorkerTypes DEF InBatchInv
  <1>1. SameBatch /\ request' = request /\ nextWork' = nextWork
    BY <1>0 DEF Refill, SameBatch, plans, caller_
  <1>2. \A v \in Workers \ {w} : SameWorker(v)
    BY DEF Refill, SameWorker, TypeOK, WorkerTypeOK, reports
  <1>3. hashed' = hashed  BY DEF Refill
  <1>4. Shares(w)' = Shares(w)  BY <1>1 DEF Shares, SameBatch
  <1>5. /\ pc[w] = "refill" /\ seen[w] = generation /\ Shares(w) /\ participating[w]
        /\ offset[w] <= nextWork
    <2>1. pc[w] = "refill"  BY DEF Refill
    <2> QED  BY <1>0, <2>1, InBatch DEF Outside, Stage
  <1>6. /\ seen'[w] = seen[w] /\ participating'[w] = participating[w]
        /\ found'[w] = found[w] /\ hashes'[w] = hashes[w]
    BY DEF Refill
  <1>7. InHand(w) = Stretch(plan.start, offset[w], Smaller(offset[w] + Lanes, plan.limit))
    BY <1>5 DEF InHand
  <1>8. CASE offset[w] >= plan.limit
    <2>1. pc'[w] = "report"
      BY <1>0, <1>8 DEF Refill, TypeOK, WorkerTypeOK
    <2>2. InHand(w) = {}
      <3>1. /\ Smaller(offset[w] + Lanes, plan.limit) \in Int
            /\ Smaller(offset[w] + Lanes, plan.limit) <= offset[w]
        BY <1>0, <1>8 DEF Smaller
      <3> QED  BY <1>0, <1>7, <3>1, StretchEmpty
    <2>3. InHand(w)' = InHand(w)
      BY <1>1, <1>5, <1>6, <2>1, <2>2 DEF InHand, SameBatch
    <2>4. Stage(w)'
      BY <1>0, <1>1, <1>3, <1>5, <1>6, <2>1 DEF Stage, SameBatch
    <2>5. Tally(w)'
      BY <1>0, <1>1, <1>3, <1>5, <1>6, <2>1 DEF Tally, Meeting, CheckedIn, Outside, SameBatch
    <2>6. Exhausted(w)'
      <3>1. nextWork' >= plan'.limit
        BY <1>0, <1>1, <1>5, <1>8 DEF SameBatch
      <3> QED  BY <3>1 DEF Exhausted
    <2> QED  BY <1>1, <1>2, <1>3, <2>3, <2>4, <2>5, <2>6, QuietStepKeeps
  <1>9. CASE offset[w] < plan.limit
    <2>1. /\ pc'[w] = "hash" /\ i'[w] = 0
          /\ start'[w] = NonceAfter(plan.start, offset[w])
          /\ count'[w] = ChunkSize(offset[w])
      BY <1>0, <1>9 DEF Refill, TypeOK, WorkerTypeOK
    <2>2. /\ ChunkSize(offset[w]) \in Nat /\ ChunkSize(offset[w]) \in Int /\ 0 \in Nat
          /\ ChunkSize(offset[w]) <= plan.limit
          /\ offset[w] + ChunkSize(offset[w]) = Smaller(offset[w] + Lanes, plan.limit)
      BY <1>0, <1>9 DEF ChunkSize, Smaller
    <2>3. Stretch(NonceAfter(plan.start, offset[w]), 0, ChunkSize(offset[w]))
             = Stretch(plan.start, offset[w] + 0, offset[w] + ChunkSize(offset[w]))
      <3>1. PICK c \in Int : c = ChunkSize(offset[w])  BY <2>2
      <3>2. Stretch(NonceAfter(plan.start, offset[w]), 0, c)
               = Stretch(plan.start, offset[w] + 0, offset[w] + c)
        BY <1>0, StretchShift
      <3> QED  BY <3>1, <3>2
    <2>4. offset[w] + 0 = offset[w]  BY <1>0
    <2>5. InHand(w)' = InHand(w)
      BY <1>7, <2>1, <2>2, <2>3, <2>4 DEF InHand
    <2>6. count'[w] <= NonceSpace
      BY <1>0, <2>1, <2>2 DEF Sliced
    <2>7. Stage(w)'
      BY <1>0, <1>1, <1>3, <1>4, <1>5, <1>6, <2>1, <2>6 DEF Stage, SameBatch
    <2>8. Tally(w)'
      BY <1>0, <1>1, <1>3, <1>5, <1>6, <2>1 DEF Tally, Meeting, CheckedIn, Outside, SameBatch
    <2>9. Exhausted(w)'
      BY <2>1 DEF Exhausted, CheckedIn
    <2> QED  BY <1>1, <1>2, <1>3, <2>5, <2>7, <2>8, <2>9, QuietStepKeeps
  <1> QED  BY <1>0, <1>8, <1>9

LEMMA ReportBatch ==
    ASSUME TypeOK, Rendezvous, Active, InBatchInv, NEW w \in Workers, Report(w)
    PROVE  InBatchInv'
  <1>0. /\ Stage(w) /\ Tally(w) /\ Exhausted(w)
        /\ nextWork \in Nat
    BY BatchTypes DEF InBatchInv
  <1>1. SameBatch /\ request' = request /\ nextWork' = nextWork
    BY <1>0 DEF Report, SameBatch, plans
  <1>2. \A v \in Workers \ {w} : SameWorker(v)
    BY DEF Report, SameWorker, TypeOK, SharedTypeOK, WorkerTypeOK
  <1>3. hashed' = hashed /\ seen' = seen  BY DEF Report
  <1>4. Shares(w)' = Shares(w)  BY <1>1 DEF Shares, SameBatch
  <1>5. pc[w] = "report" /\ seen[w] = generation
    <2>1. pc[w] = "report"  BY DEF Report
    <2> QED  BY <2>1, InBatch DEF Outside
  <1>6. /\ pc'[w] = "wait" /\ i'[w] = 0 /\ found'[w] = {} /\ hashes'[w] = 0
        /\ results'[w] = found[w] /\ counts'[w] = hashes[w]
    BY DEF Report, TypeOK, SharedTypeOK, WorkerTypeOK
  <1>7. InHand(w)' = InHand(w)
    BY <1>1, <1>3, <1>5, <1>6 DEF InHand, SameBatch
  <1>8. Stage(w)'
    BY <1>0, <1>1, <1>3, <1>5, <1>6 DEF Stage, SameBatch
  <1>9. Tally(w)'
    BY <1>0, <1>1, <1>3, <1>5, <1>6 DEF Tally, Meeting, CheckedIn, Outside, SameBatch
  <1>10. Exhausted(w)'
    BY <1>0, <1>1, <1>3, <1>4, <1>5, <1>6 DEF Exhausted, CheckedIn, Stoppable, SameBatch
  <1> QED  BY <1>1, <1>2, <1>3, <1>7, <1>8, <1>9, <1>10, QuietStepKeeps

(* A stopped worker drops what it has in hand.                             *)
LEMMA HandDropped ==
    ASSUME Disjoint, Covered, plan' = plan, cancel => cancel',
           NEW w \in Workers, InHand(w)' = {}, Stoppable \/ InHand(w) = {},
           \A v \in Workers : hashed'[v] = hashed[v],
           \A v \in Workers \ {w} : InHand(v)' = InHand(v),
           Stock' = Stock
    PROVE  Disjoint' /\ Covered'
  <1>1. BatchNonces' = BatchNonces  BY DEF BatchNonces
  <1>2. Disjoint'  BY <1>1 DEF Disjoint
  <1>3. Covered'   BY <1>1 DEF Covered, Stoppable
  <1> QED  BY <1>2, <1>3

(* The lane group a worker hashes.                                         *)
LEMMA GroupStretch ==
    ASSUME TypeOK, NEW w \in Workers, i[w] < count[w], count[w] <= NonceSpace
    PROVE  LET g == Group(w)
           IN  /\ g \in Nat
               /\ GroupNonces(w) = Stretch(start[w], i[w], i[w] + g)
               /\ IsFiniteSet(GroupNonces(w))
               /\ Cardinality(GroupNonces(w)) = g
               /\ Stretch(start[w], i[w], count[w])
                     = GroupNonces(w) \cup Stretch(start[w], i[w] + g, count[w])
               /\ GroupNonces(w) \cap Stretch(start[w], i[w] + g, count[w]) = {}
  <1>0. /\ start[w] \in Nat /\ i[w] \in Nat /\ count[w] \in Nat
        /\ Lanes \in Nat \ {0} /\ NonceSpace \in Nat
    BY WorkerTypes, PoolAssumption
  <1>1. PICK g \in Nat : g = Group(w) /\ g <= count[w] - i[w]
    BY <1>0 DEF Group, Smaller
  <1>2. GroupNonces(w) = Stretch(start[w], i[w], i[w] + g)
    <2>1. GroupNonces(w) = {NonceAfter(start[w], i[w] + n) : n \in 0 .. g - 1}
      BY <1>1 DEF GroupNonces
    <2>2. \A n \in 0 .. g - 1 : i[w] + n \in i[w] .. (i[w] + g) - 1
      BY <1>0
    <2>3. \A m \in i[w] .. (i[w] + g) - 1 : m - i[w] \in 0 .. g - 1 /\ i[w] + (m - i[w]) = m
      BY <1>0
    <2>4. GroupNonces(w) \subseteq Stretch(start[w], i[w], i[w] + g)
      BY <2>1, <2>2 DEF Stretch
    <2>5. Stretch(start[w], i[w], i[w] + g) \subseteq GroupNonces(w)
      BY <2>1, <2>3 DEF Stretch
    <2> QED  BY <2>4, <2>5
  <1>3. PICK x \in Nat, y \in Nat, z \in Nat :
           x = i[w] /\ y = i[w] + g /\ z = count[w]
    BY <1>0
  <1>4. /\ x <= y /\ y <= z /\ y - x = g
        /\ y - x <= NonceSpace /\ z - x <= NonceSpace
    BY <1>0, <1>1, <1>3
  <1>5. IsFiniteSet(Stretch(start[w], x, y)) /\ Cardinality(Stretch(start[w], x, y)) = g
    BY <1>0, <1>4, StretchSize
  <1>6. y \in Int /\ z \in Int /\ y <= y  OBVIOUS
  <1>7. Stretch(start[w], x, z) = Stretch(start[w], x, y) \cup Stretch(start[w], y, z)
    BY <1>0, <1>4, <1>6, StretchSplit
  <1>8. Stretch(start[w], x, y) \cap Stretch(start[w], y, z) = {}
    BY <1>0, <1>4, <1>6, StretchApart, Zenon
  <1> QED  BY <1>1, <1>2, <1>3, <1>5, <1>7, <1>8

LEMMA HashBatch ==
    ASSUME TypeOK, Rendezvous, Active, InBatchInv, NEW w \in Workers, Hash(w)
    PROVE  InBatchInv'
  <1>0. /\ Stage(w) /\ Tally(w) /\ Exhausted(w) /\ Disjoint /\ Covered
        /\ nextWork \in Nat /\ plan.limit \in Nat /\ NonceSpace \in Nat
        /\ start[w] \in Nat /\ i[w] \in Nat /\ count[w] \in Nat /\ hashes[w] \in Nat
    BY BatchTypes, WorkerTypes DEF InBatchInv
  <1>1. SameBatch /\ request' = request /\ nextWork' = nextWork /\ cancel' = cancel
    BY <1>0 DEF Hash, SameBatch, plans, caller_
  <1>2. \A v \in Workers \ {w} : SameWorker(v)
    BY DEF Hash, SameWorker, TypeOK, WorkerTypeOK, reports
  <1>3. /\ seen' = seen /\ start' = start /\ count' = count /\ offset' = offset
        /\ participating' = participating
        /\ counts' = counts /\ results' = results
    BY DEF Hash, reports
  <1>4. Shares(w)' = Shares(w)  BY <1>1 DEF Shares, SameBatch
  <1>5. /\ pc[w] = "hash" /\ seen[w] = generation
        /\ job[w] = [key |-> plan.key, target |-> plan.target, stop |-> plan.stop]
        /\ (participating[w] <=> Shares(w))
        /\ count[w] <= NonceSpace
    <2>1. pc[w] = "hash"  BY DEF Hash
    <2> QED  BY <1>0, <2>1, InBatch DEF Outside, Stage
  <1>6. InHand(w) = Stretch(start[w], i[w], count[w])
    BY <1>5 DEF InHand
  <1>7. \A v \in Workers \ {w} : hashed'[v] = hashed[v] /\ InHand(v)' = InHand(v)
    BY <1>0, <1>1, <1>2, WorkerTypes, SameWorkerKeeps DEF SameWorker
  <1>8. Stock' = Stock  BY <1>1 DEF Stock, SameBatch
  <1>9. CASE i[w] >= count[w] \/ Stopped(w)
    <2>1. /\ pc'[w] = IF participating[w] THEN "check" ELSE "report"
          /\ i' = i /\ found' = found /\ hashes' = hashes /\ hashed' = hashed
      BY <1>0, <1>9 DEF Hash, TypeOK, WorkerTypeOK
    <2>2. InHand(w)' = {}
      BY <1>1, <1>3, <1>5, <2>1 DEF InHand, SameBatch
    <2>3. Stoppable \/ InHand(w) = {}
      <3>1. CASE Stopped(w)
        BY <1>5, <3>1 DEF Stopped, Stoppable
      <3>2. CASE i[w] >= count[w]
        <4>1. i[w] \in Int /\ count[w] \in Int /\ count[w] <= i[w]
          BY <1>0, <3>2
        <4> QED  BY <1>6, <4>1, StretchEmpty
      <3> QED  BY <1>9, <3>1, <3>2
    <2>4. \A v \in Workers : hashed'[v] = hashed[v]  BY <2>1
    <2>5. Disjoint' /\ Covered'
      BY <1>0, <1>1, <1>7, <1>8, <2>2, <2>3, <2>4, HandDropped DEF SameBatch
    <2>6. Stage(w)'
      BY <1>0, <1>1, <1>3, <1>4, <1>5, <2>1 DEF Stage, SameBatch
    <2>7. Tally(w)'
      BY <1>0, <1>1, <1>3, <1>5, <2>1 DEF Tally, Meeting, CheckedIn, Outside, SameBatch
    <2>8. Exhausted(w)'
      BY <1>4, <1>5, <2>1 DEF Exhausted, CheckedIn
    <2> QED  BY <1>1, <1>2, <2>5, <2>6, <2>7, <2>8, WorkerStepKeeps
  <1>10. CASE i[w] < count[w] /\ ~Stopped(w)
    <2> DEFINE G == GroupNonces(w)
    <2>0. PICK g \in Nat :
             /\ g = Group(w)
             /\ IsFiniteSet(G) /\ Cardinality(G) = g
             /\ Stretch(start[w], i[w], count[w])
                   = G \cup Stretch(start[w], i[w] + g, count[w])
             /\ G \cap Stretch(start[w], i[w] + g, count[w]) = {}
      BY <1>5, <1>10, GroupStretch
    <2>1. /\ hashed'[w] = hashed[w] \cup G
          /\ found'[w] = found[w] \cup Kept(w)
          /\ hashes'[w] = hashes[w] + g
          /\ i'[w] = i[w] + g
          /\ pc' = pc
      BY <1>0, <1>10, <2>0 DEF Hash, TypeOK, WorkerTypeOK
    <2>2. InHand(w)' = Stretch(start[w], i[w] + g, count[w])
      BY <1>3, <1>5, <2>1 DEF InHand
    <2>3. InHand(w) = G \cup InHand(w)' /\ G \cap InHand(w)' = {}
      BY <1>6, <2>0, <2>2
    <2>4. Disjoint' /\ Covered'
      BY <1>0, <1>1, <1>7, <1>8, <2>1, <2>3, GroupMoves DEF SameBatch
    <2>5. hashed[w] \cap G = {}
      BY <1>0, <2>3 DEF Disjoint
    <2>6. IsFiniteSet(hashed[w])
      <3>1. IsFiniteSet(Nonces)
        <4>1. 0 \in Int /\ NonceSpace - 1 \in Int  BY <1>0
        <4> QED  BY <4>1, FS_Interval DEF Nonces
      <3> QED  BY <3>1, WorkerTypes, FS_Subset
    <2>7. hashes'[w] = Cardinality(hashed'[w])
      <3>1. Cardinality(hashed[w] \cup G)
               = Cardinality(hashed[w]) + Cardinality(G) - Cardinality(hashed[w] \cap G)
        BY <2>0, <2>6, FS_Union
      <3>2. Cardinality(hashed[w] \cap G) = 0  BY <2>5, FS_EmptySet
      <3>3. hashes[w] = Cardinality(hashed[w])
        BY <1>0, <1>5 DEF Tally, Outside
      <3> QED  BY <1>0, <2>0, <2>1, <3>1, <3>2, <3>3
    <2>8. found'[w] = Meeting(hashed[w])'
      <3>1. Kept(w) = G \cap Solutions[<<plan.key, plan.target>>]
        BY <1>5 DEF Kept
      <3>2. found[w] = Meeting(hashed[w])
        BY <1>0, <1>5 DEF Tally, Outside
      <3> QED  BY <1>1, <2>1, <3>1, <3>2 DEF Meeting, SameBatch
    <2>9. Stage(w)'
      BY <1>0, <1>1, <1>3, <1>4, <1>5, <2>1 DEF Stage, SameBatch
    <2>10. Tally(w)'
      BY <1>5, <2>1, <2>7, <2>8 DEF Tally, Meeting, CheckedIn, Outside
    <2>11. Exhausted(w)'
      BY <1>5, <2>1 DEF Exhausted, CheckedIn
    <2> QED  BY <1>1, <1>2, <2>4, <2>9, <2>10, <2>11, WorkerStepKeeps
  <1> QED  BY <1>0, <1>9, <1>10

----------------------------------------------------------------------------
(* The caller's steps.                                                     *)

LEMMA CallerStepKeeps ==
    ASSUME TypeOK, Rendezvous, Active, InBatchInv,
           SameBatch, request' = request, nextWork' = nextWork,
           \A v \in Workers : SameWorker(v)
    PROVE  InBatchInv'
  <1>1. Sliced'  BY SlicedStays DEF InBatchInv, SameBatch
  <1>2. \A v \in Workers : plan.limit \in Nat /\ offset[v] \in Nat
    BY BatchTypes, WorkerTypes
  <1>3. \A v \in Workers : /\ Stage(v)' /\ Tally(v)' /\ Exhausted(v)'
                           /\ hashed'[v] = hashed[v] /\ InHand(v)' = InHand(v)
    BY <1>2, SameWorkerKeeps DEF InBatchInv, SameWorker
  <1>4. Stock' = Stock  BY DEF Stock, SameBatch
  <1>5. Disjoint' /\ Covered'
    BY <1>3, <1>4, NothingMoves DEF InBatchInv, SameBatch
  <1> QED  BY <1>1, <1>3, <1>5 DEF InBatchInv

(* The nonces of a batch nobody has begun.                                 *)
LEMMA BeginBatch ==
    ASSUME TypeOK, Rendezvous, Fresh, Active => InBatchInv, Begin
    PROVE  InBatchInv'
  <1>1. PICK r \in Requests : \E active \in ActiveChoices(r) :
           request' = r /\ plan' = PlanFor(r, active)
    BY DEF Begin
  <1>2. PICK active \in ActiveChoices(r) : request' = r /\ plan' = PlanFor(r, active)
    BY <1>1
  <1>3. Sliced'  BY <1>2, PlanSliced
  <1>4. /\ generation \in Nat /\ generation' = generation + 1
        /\ nextWork' = 0 /\ plan'.limit \in Nat /\ plan'.start \in Nat
    <2>1. plan' \in Plan  BY <1>2, PlanType
    <2> QED  BY <2>1, PoolAssumption DEF Begin, TypeOK, SharedTypeOK, Plan, Nonces
  <1>5. \A w \in Workers : /\ pc'[w] \in {"wait", "asleep"}
                           /\ seen'[w] # generation'
                           /\ i'[w] = 0 /\ hashes'[w] = 0 /\ found'[w] = {}
                           /\ hashed'[w] = {}
    <2> TAKE w \in Workers
    <2>1. pc[w] \in {"wait", "asleep"} /\ seen[w] = generation
      BY DEF Begin, Rendezvous, Settled, CheckedIn
    <2>2. i[w] = 0 /\ hashes[w] = 0 /\ found[w] = {}
      <3>1. CASE generation = 0  BY <3>1 DEF Fresh
      <3>2. CASE generation # 0
        <4>1. Active  BY <1>4, <3>2 DEF Active, Begin, Rendezvous
        <4> QED  BY <2>1, <4>1 DEF InBatchInv, Stage
      <3> QED  BY <3>1, <3>2
    <2>3. pc' = pc /\ UNCHANGED locals /\ hashed'[w] = {}
      BY DEF Begin
    <2>4. generation # generation + 1  BY <1>4
    <2> QED  BY <1>4, <2>1, <2>2, <2>3, <2>4 DEF locals
  <1>6. \A w \in Workers : InHand(w)' = IF Shares(w)' THEN {} ELSE Slice(w)'
    BY <1>5 DEF InHand
  <1>7. \A w \in Workers : ~Shares(w)' /\ plan'.share => Slice(w)' = {}
    <2> TAKE w \in Workers
    <2> HAVE ~Shares(w)' /\ plan'.share
    <2>1. plan'.sizes[w] = 0  BY DEF Shares
    <2> QED  BY <2>1, StretchEmpty DEF Slice
  <1>8. Stock' = IF plan'.share THEN BatchNonces' ELSE {}
    BY <1>4 DEF Stock, BatchNonces, Stretch
  <1>9. \A w \in Workers : /\ InHand(w)' \subseteq Slice(w)'
                           /\ InHand(w)' \subseteq BatchNonces'
                           /\ plan'.share => InHand(w)' = {}
                           /\ ~plan'.share => InHand(w)' = Slice(w)'
    BY <1>3, <1>6, <1>7 DEF Sliced, Shares
  <1>10. \A v, w \in Workers : v # w => InHand(v)' \cap InHand(w)' = {}
    BY <1>3, <1>9 DEF Sliced
  <1>11. Disjoint'
    BY <1>5, <1>8, <1>9, <1>10 DEF Disjoint
  <1>12. Covered'
    BY <1>3, <1>8, <1>9 DEF Covered, Sliced
  <1>13. \A w \in Workers : Stage(w)' /\ Tally(w)' /\ Exhausted(w)'
    BY <1>5 DEF Stage, Tally, Exhausted, CheckedIn, Outside
  <1> QED  BY <1>3, <1>11, <1>12, <1>13 DEF InBatchInv

(* A batch in which everybody has checked in is complete, or stopped.      *)
LEMMA Complete ==
    ASSUME TypeOK, Rendezvous, Active, InBatchInv, Settled
    PROVE  /\ AllHashed \subseteq BatchNonces
           /\ AllHashed = BatchNonces \/ Stoppable
  <1>1. AllHashed \subseteq BatchNonces
    BY DEF AllHashed, InBatchInv, Disjoint
  <1>2. \A w \in Workers : w \in CheckedIn  BY DEF Rendezvous
  <1>3. \A w \in Workers : InHand(w) = {}
    BY <1>2 DEF InHand, CheckedIn
  <1>4. Stock = {} \/ Stoppable
    <2>1. CASE ~plan.share  BY <2>1 DEF Stock
    <2>2. CASE plan.share
      <3>1. PICK w \in Workers : Shares(w)
        BY <2>2 DEF InBatchInv, Sliced, Shares
      <3>2. nextWork >= plan.limit \/ Stoppable
        BY <1>2, <3>1 DEF InBatchInv, Exhausted
      <3>3. nextWork >= plan.limit => Stretch(plan.start, nextWork, plan.limit) = {}
        <4>1. nextWork \in Int /\ plan.limit \in Int  BY BatchTypes
        <4> QED  BY <4>1, StretchEmpty
      <3> QED  BY <2>2, <3>2, <3>3 DEF Stock
    <2> QED  BY <2>1, <2>2
  <1>5. ~Stoppable => BatchNonces \subseteq AllHashed
    BY <1>3, <1>4 DEF InBatchInv, Covered, AllHashed
  <1> QED  BY <1>1, <1>5

(* The nonces the caller's loops count and collect.                        *)
LEMMA BelowNone == HashedBelow(0) = {}
  <1>1. 0 .. 0 - 1 = {}  OBVIOUS
  <1> QED  BY <1>1 DEF HashedBelow

LEMMA BelowAll == HashedBelow(Threads) = AllHashed
  BY DEF HashedBelow, AllHashed, Workers

LEMMA BelowNext ==
    ASSUME TypeOK, Disjoint, at < Threads
    PROVE  /\ at \in Workers
           /\ at + 1 \in 0 .. Threads
           /\ HashedBelow(at + 1) = HashedBelow(at) \cup hashed[at]
           /\ Cardinality(HashedBelow(at + 1))
                 = Cardinality(HashedBelow(at)) + Cardinality(hashed[at])
  <1>1. at \in Nat /\ Threads \in Nat /\ at \in Workers /\ at + 1 \in 0 .. Threads
    BY PoolAssumption DEF TypeOK, CallerTypeOK, Workers
  <1>2. 0 .. (at + 1) - 1 = (0 .. at - 1) \cup {at}
    BY <1>1
  <1>3. HashedBelow(at + 1) = HashedBelow(at) \cup hashed[at]
    BY <1>2 DEF HashedBelow
  <1>4. \A w \in 0 .. at - 1 : w \in Workers /\ w # at
    BY <1>1 DEF Workers
  <1>5. HashedBelow(at) \cap hashed[at] = {}
    BY <1>1, <1>4 DEF HashedBelow, Disjoint
  <1>6. IsFiniteSet(Nonces)
    <2>1. 0 \in Int /\ NonceSpace - 1 \in Int  BY PoolAssumption
    <2> QED  BY <2>1, FS_Interval DEF Nonces
  <1>7. IsFiniteSet(hashed[at]) /\ IsFiniteSet(HashedBelow(at))
    <2>1. hashed[at] \subseteq Nonces  BY <1>1, WorkerTypes
    <2>2. HashedBelow(at) \subseteq Nonces
      BY <1>4, WorkerTypes DEF HashedBelow
    <2> QED  BY <1>6, <2>1, <2>2, FS_Subset
  <1>8. /\ Cardinality(HashedBelow(at) \cup hashed[at])
              = Cardinality(HashedBelow(at)) + Cardinality(hashed[at])
                - Cardinality(HashedBelow(at) \cap hashed[at])
        /\ Cardinality(HashedBelow(at)) \in Nat /\ Cardinality(hashed[at]) \in Nat
    BY <1>7, FS_Union, FS_CardinalityType
  <1>9. Cardinality(HashedBelow(at) \cap hashed[at]) = 0
    BY <1>5, FS_EmptySet
  <1>10. PICK x \in Nat, y \in Nat :
            x = Cardinality(HashedBelow(at)) /\ y = Cardinality(hashed[at])
    BY <1>8
  <1>11. Cardinality(HashedBelow(at + 1)) = x + y - 0
    BY <1>3, <1>8, <1>9, <1>10
  <1>12. Cardinality(HashedBelow(at + 1)) = x + y  BY <1>11
  <1> QED  BY <1>1, <1>3, <1>10, <1>12

----------------------------------------------------------------------------
(* The invariant is kept.                                                  *)

LEMMA NextFresh ==
    ASSUME TypeOK, Rendezvous, Fresh, [Next]_vars
    PROVE  Fresh'
  <1> SUFFICES ASSUME generation' = 0
               PROVE  /\ caller' = "idle"
                      /\ \A w \in Workers : i'[w] = 0 /\ hashes'[w] = 0 /\ found'[w] = {}
    BY DEF Fresh
  <1>0. generation \in Nat  BY DEF TypeOK, SharedTypeOK
  <1>1. CASE Begin  BY <1>0, <1>1 DEF Begin
  <1>2. CASE Destroy  BY <1>0, <1>2 DEF Destroy
  <1>3. CASE RunStep \/ StopStep \/ RequestStop \/ CallerWakesSpuriously
    <2>1. generation = 0
      BY <1>3 DEF RunStep, StopStep, RequestStop, CallerWakesSpuriously, NotifyWorkers, Await,
         Timeout, Service, Account, Learn, Merge, NotifyStop, Join, plans
    <2>2. caller = "idle"  BY <2>1 DEF Fresh
    <2> QED
      BY <1>3, <2>2 DEF RunStep, StopStep, RequestStop, CallerWakesSpuriously, NotifyWorkers,
         Await, Timeout, Service, Account, Learn, Merge, NotifyStop, Join
  <1>4. ASSUME NEW w \in Workers, WorkerStep(w) \/ WorkerWakesSpuriously(w)
        PROVE  UNCHANGED <<generation, caller, i, hashes, found>>
    <2>1. generation = 0
      BY <1>4 DEF WorkerStep, WorkerWakesSpuriously, WaitForWork, Snapshot, Check, Claim,
         Refill, Hash, Report, plans
    <2>2. pc[w] \in Outside
      BY <1>0, <2>1, InBatch
    <2> QED
      BY <1>4, <2>2 DEF WorkerStep, WorkerWakesSpuriously, WaitForWork, Snapshot, Check, Claim,
         Refill, Hash, Report, Outside, plans, caller_, locals
  <1>5. CASE UNCHANGED vars
    BY <1>5 DEF vars, plans, caller_, locals, Fresh
  <1>6. UNCHANGED <<generation, caller, i, hashes, found>> =>
           /\ caller' = "idle"
           /\ \A w \in Workers : i'[w] = 0 /\ hashes'[w] = 0 /\ found'[w] = {}
    BY DEF Fresh
  <1> QED
    BY <1>1, <1>2, <1>3, <1>4, <1>5, <1>6 DEF Next, CallerStep, Environment, Terminated

(* Steps of the caller while a batch goes on: no worker moves.             *)
LEMMA CallerBatch ==
    ASSUME TypeOK, Rendezvous, Active, InBatchInv,
           RunStep \/ StopStep \/ RequestStop \/ CallerWakesSpuriously \/ UNCHANGED vars
    PROVE  InBatchInv'
  <1>0. nextWork \in Nat  BY BatchTypes
  <1>1. UNCHANGED <<plan, generation, nextWork, request, seen, participating, start, count,
                    offset, i, found, hashes, hashed, results, counts>>
    BY DEF RunStep, StopStep, RequestStop, CallerWakesSpuriously, NotifyWorkers, Await,
       Timeout, Service, Account, Learn, Merge, NotifyStop, Join,
       vars, plans, reports, caller_, locals
  <1>2. cancel => cancel'
    BY DEF RunStep, StopStep, RequestStop, CallerWakesSpuriously, NotifyWorkers, Await,
       Timeout, Service, Account, Learn, Merge, NotifyStop, Join, vars
  <1>3. pc' = pc \/ pc' = Woken
    BY DEF RunStep, StopStep, RequestStop, CallerWakesSpuriously, NotifyWorkers, Await,
       Timeout, Service, Account, Learn, Merge, NotifyStop, Join, vars
  <1>4. SameBatch  BY <1>0, <1>1, <1>2 DEF SameBatch
  <1>5. \A v \in Workers : SameWorker(v)
    BY <1>1, <1>3 DEF SameWorker, Woken
  <1> QED  BY <1>1, <1>4, <1>5, CallerStepKeeps

LEMMA NextBatch ==
    ASSUME TypeOK, Rendezvous, Fresh, Active => InBatchInv, [Next]_vars, Active'
    PROVE  InBatchInv'
  <1>1. CASE Begin  BY <1>1, BeginBatch
  <1>2. CASE Destroy  BY <1>2 DEF Destroy, Active
  <1>3. CASE RunStep \/ StopStep \/ RequestStop \/ CallerWakesSpuriously \/ UNCHANGED vars
    <2>1. Active
      BY <1>3 DEF Active, RunStep, StopStep, RequestStop, CallerWakesSpuriously, NotifyWorkers,
         Await, Timeout, Service, Account, Learn, Merge, NotifyStop, Join, vars, plans
    <2> QED  BY <1>3, <2>1, CallerBatch
  <1>4. ASSUME NEW w \in Workers, WorkerStep(w) \/ WorkerWakesSpuriously(w)
        PROVE  InBatchInv'
    <2>1. Active
      BY <1>4 DEF Active, WorkerStep, WorkerWakesSpuriously, WaitForWork, Snapshot, Check, Claim,
         Refill, Hash, Report, plans
    <2>2. CASE WaitForWork(w)  BY <2>1, <2>2, WaitForWorkBatch
    <2>3. CASE Snapshot(w)     BY <2>1, <2>3, SnapshotBatch
    <2>4. CASE Check(w)        BY <2>1, <2>4, CheckBatch
    <2>5. CASE Claim(w)        BY <2>1, <2>5, ClaimBatch
    <2>6. CASE Refill(w)       BY <2>1, <2>6, RefillBatch
    <2>7. CASE Hash(w)         BY <2>1, <2>7, HashBatch
    <2>8. CASE Report(w)       BY <2>1, <2>8, ReportBatch
    <2>9. CASE WorkerWakesSpuriously(w)
      <3>1. SameBatch /\ request' = request /\ nextWork' = nextWork
        BY <2>1, <2>9, BatchTypes DEF WorkerWakesSpuriously, SameBatch, plans, caller_
      <3>2. \A v \in Workers : SameWorker(v)
        BY <2>9 DEF WorkerWakesSpuriously, SameWorker, TypeOK, WorkerTypeOK, locals, reports
      <3> QED  BY <2>1, <3>1, <3>2, CallerStepKeeps
    <2> QED
      BY <1>4, <2>2, <2>3, <2>4, <2>5, <2>6, <2>7, <2>8, <2>9 DEF WorkerStep
  <1> QED
    BY <1>1, <1>2, <1>3, <1>4 DEF Next, CallerStep, Environment, Terminated

(* What the caller has added up.                                           *)
Accounts == Totals /\ ExactAnswer /\ LearntFromWholeBatch

Waiting == {"notify", "await", "blocked", "serve"}

(* A step that neither hashes nor adds up.                                 *)
LEMMA AccountsStay ==
    ASSUME Accounts, plan' = plan, generation' = generation, hashed' = hashed,
           UNCHANGED <<at, sum, merged, learnt, hashesDone, answer>>,
           caller' = caller \/ {caller, caller'} \subseteq Waiting
    PROVE  Accounts'
  <1>1. /\ AllHashed' = AllHashed
        /\ HashedBelow(at)' = HashedBelow(at)
        /\ BatchNonces' = BatchNonces
        /\ \A ns : Meeting(ns)' = Meeting(ns)
    BY DEF AllHashed, HashedBelow, BatchNonces, Meeting
  <1>2. Totals'  BY <1>1 DEF Accounts, Totals, Waiting
  <1>3. ExactAnswer'  BY <1>1 DEF Accounts, ExactAnswer, Waiting
  <1>4. LearntFromWholeBatch'  BY <1>1 DEF Accounts, LearntFromWholeBatch
  <1> QED  BY <1>2, <1>3, <1>4 DEF Accounts

LEMMA AwaitAccounts == ASSUME TypeOK, Accounts, Await PROVE Accounts'
  <1>1. CASE caller' = "blocked"
    <2>1. caller \in Waiting /\ caller' \in Waiting  BY <1>1 DEF Await, Waiting
    <2> QED
      BY <2>1, AccountsStay DEF Await, plans, loops
  <1>2. CASE caller' = "account"
    <2>1. /\ caller = "await"
          /\ UNCHANGED <<plan, generation, hashed, at, sum, merged, learnt, hashesDone, answer>>
      BY DEF Await, plans, loops
    <2>2. at = 0 /\ sum = 0 /\ merged = {} /\ ~learnt
      BY <2>1 DEF Accounts, Totals, TypeOK, CallerTypeOK
    <2>3. HashedBelow(at)' = {}
      BY <2>1, <2>2, BelowNone DEF HashedBelow
    <2>4. Cardinality(HashedBelow(at)') = 0
      BY <2>3, FS_EmptySet
    <2> QED
      BY <1>2, <2>1, <2>2, <2>4 DEF Accounts, Totals, ExactAnswer, LearntFromWholeBatch
  <1> QED  BY <1>1, <1>2 DEF Await

LEMMA ReportsKept ==
    ASSUME TypeOK, Rendezvous, Fresh, Active => InBatchInv,
           caller \in {"account", "learn", "merge"}
    PROVE  /\ Active /\ InBatchInv /\ Settled
           /\ \A w \in Workers : /\ counts[w] = Cardinality(hashed[w])
                                 /\ results[w] = Meeting(hashed[w])
  <1>1. Settled  BY DEF Settled
  <1>2. Active
    BY DEF Active, Rendezvous, Fresh, TypeOK, SharedTypeOK
  <1>3. \A w \in Workers : w \in CheckedIn  BY <1>1 DEF Rendezvous
  <1> QED  BY <1>1, <1>2, <1>3 DEF InBatchInv, Tally

LEMMA AccountAccounts ==
    ASSUME TypeOK, Rendezvous, Fresh, Active => InBatchInv, Accounts, Account
    PROVE  Accounts'
  <1>0. caller = "account" /\ UNCHANGED <<plan, generation, hashed, learnt, serviceError>>
    BY DEF Account, plans
  <1>1. ~learnt /\ merged = {} /\ sum = Cardinality(HashedBelow(at))
    BY <1>0 DEF Accounts, Totals, TypeOK, CallerTypeOK
  <1>2. Disjoint /\ \A w \in Workers : counts[w] = Cardinality(hashed[w])
    BY <1>0, ReportsKept DEF InBatchInv
  <1>3. CASE at < Threads
    <2>1. /\ sum' = sum + counts[at] /\ at' = at + 1
          /\ UNCHANGED <<caller, answer, hashesDone, merged>>
      BY <1>3 DEF Account, TypeOK, CallerTypeOK
    <2>2. sum' = Cardinality(HashedBelow(at + 1))
      BY <1>1, <1>2, <1>3, <2>1, BelowNext
    <2>3. HashedBelow(at)' = HashedBelow(at + 1)
      BY <1>0, <2>1 DEF HashedBelow
    <2> QED
      BY <1>0, <1>1, <2>1, <2>2, <2>3 DEF Accounts, Totals, ExactAnswer, LearntFromWholeBatch
  <1>4. CASE at = Threads
    <2>1. hashesDone' = sum /\ at' = 0 /\ UNCHANGED <<sum, merged>>
      BY <1>4, PoolAssumption DEF Account
    <2>2. hashesDone' = Cardinality(AllHashed')
      BY <1>0, <1>1, <1>4, <2>1, BelowAll DEF AllHashed
    <2>3. CASE serviceError
      <3>1. caller' = "idle" /\ answer'.kind = "threw"
        BY <1>4, <2>3, PoolAssumption DEF Account
      <3> QED
        BY <1>0, <1>1, <2>2, <3>1 DEF Accounts, Totals, ExactAnswer, LearntFromWholeBatch
    <2>4. CASE ~serviceError
      <3>1. caller' = "learn"
        BY <1>4, <2>4, PoolAssumption DEF Account
      <3> QED
        BY <1>0, <1>1, <2>1, <2>2, <3>1 DEF Accounts, Totals, ExactAnswer, LearntFromWholeBatch
    <2> QED  BY <2>3, <2>4
  <1>9. at < Threads \/ at = Threads
    BY PoolAssumption DEF TypeOK, CallerTypeOK
  <1> QED  BY <1>3, <1>4, <1>9

LEMMA LearnAccounts ==
    ASSUME TypeOK, Rendezvous, Fresh, Active => InBatchInv, Accounts, Learn
    PROVE  Accounts'
  <1>0. /\ caller = "learn" /\ caller' = "merge"
        /\ UNCHANGED <<plan, generation, hashed, at, merged, hashesDone, answer>>
        /\ learnt' = (request.learning /\ ~WasStopped)
    BY DEF Learn, plans, loops
  <1>1. at = 0 /\ merged = {} /\ hashesDone = Cardinality(AllHashed)
    <2>1. generation > 0  BY <1>0, ReportsKept DEF Active
    <2> QED  BY <1>0, <2>1 DEF Accounts, Totals, ExactAnswer
  <1>2. HashedBelow(at)' = {}
    BY <1>0, <1>1, BelowNone DEF HashedBelow
  <1>3. Meeting(HashedBelow(at))' = {}
    BY <1>2 DEF Meeting
  <1>4. learnt' => AllHashed = BatchNonces
    <2>1. AllHashed = BatchNonces \/ Stoppable
      BY <1>0, ReportsKept, Complete
    <2>2. plan.stop = request.stop
      BY <1>0, ReportsKept DEF InBatchInv, Sliced
    <2> QED  BY <1>0, <2>1, <2>2 DEF Stoppable, WasStopped
  <1>5. AllHashed' = AllHashed /\ BatchNonces' = BatchNonces
    BY <1>0 DEF AllHashed, BatchNonces
  <1> QED
    BY <1>0, <1>1, <1>3, <1>4, <1>5 DEF Accounts, Totals, ExactAnswer, LearntFromWholeBatch

LEMMA MergeAccounts ==
    ASSUME TypeOK, Rendezvous, Fresh, Active => InBatchInv, Accounts, Merge
    PROVE  Accounts'
  <1>0. /\ caller = "merge"
        /\ UNCHANGED <<plan, generation, hashed, learnt, hashesDone>>
    BY DEF Merge, plans
  <1>1. /\ merged = Meeting(HashedBelow(at)) /\ hashesDone = Cardinality(AllHashed)
    <2>1. generation > 0  BY <1>0, ReportsKept DEF Active
    <2> QED  BY <1>0, <2>1 DEF Accounts, Totals, ExactAnswer
  <1>2. Disjoint /\ \A w \in Workers : results[w] = Meeting(hashed[w])
    BY <1>0, ReportsKept DEF InBatchInv
  <1>3. /\ AllHashed' = AllHashed /\ BatchNonces' = BatchNonces
        /\ \A ns : Meeting(ns)' = Meeting(ns)
    BY <1>0 DEF AllHashed, BatchNonces, Meeting
  <1>4. CASE at < Threads
    <2>1. /\ merged' = merged \cup results[at] /\ at' = at + 1
          /\ UNCHANGED <<caller, answer>>
      BY <1>4 DEF Merge, TypeOK, CallerTypeOK
    <2>2. HashedBelow(at + 1) = HashedBelow(at) \cup hashed[at] /\ at \in Workers
      BY <1>2, <1>4, BelowNext
    <2>3. merged' = Meeting(HashedBelow(at + 1))
      BY <1>1, <1>2, <2>1, <2>2 DEF Meeting
    <2>4. Meeting(HashedBelow(at))' = Meeting(HashedBelow(at + 1))
      BY <1>0, <2>1 DEF HashedBelow, Meeting
    <2> QED
      BY <1>0, <1>1, <1>3, <2>1, <2>3, <2>4
      DEF Accounts, Totals, ExactAnswer, LearntFromWholeBatch
  <1>5. CASE at = Threads
    <2>1. /\ answer' = [kind |-> "returned", candidates |-> merged]
          /\ caller' = "idle"
      BY <1>5, PoolAssumption DEF Merge
    <2>2. answer'.candidates = AllHashed \cap Solutions[<<plan.key, plan.target>>]
      BY <1>1, <1>5, <2>1, BelowAll DEF Meeting
    <2> QED
      BY <1>0, <1>1, <1>3, <2>1, <2>2 DEF Accounts, Totals, ExactAnswer, LearntFromWholeBatch
  <1>9. at < Threads \/ at = Threads
    BY PoolAssumption DEF TypeOK, CallerTypeOK
  <1> QED  BY <1>4, <1>5, <1>9

LEMMA NextAccounts ==
    ASSUME TypeOK, Rendezvous, Fresh, Active => InBatchInv, Accounts, [Next]_vars
    PROVE  Accounts'
  <1>1. CASE Begin
    BY <1>1 DEF Begin, Accounts, Totals, ExactAnswer, LearntFromWholeBatch
  <1>2. CASE Await    BY <1>2, AwaitAccounts
  <1>3. CASE Account  BY <1>3, AccountAccounts
  <1>4. CASE Learn    BY <1>4, LearnAccounts
  <1>5. CASE Merge    BY <1>5, MergeAccounts
  <1>6. CASE NotifyWorkers \/ Timeout \/ Service \/ RequestStop \/ CallerWakesSpuriously
             \/ UNCHANGED vars
    <2>1. caller' = caller \/ {caller, caller'} \subseteq Waiting
      BY <1>6 DEF NotifyWorkers, Timeout, Service, RequestStop, CallerWakesSpuriously, vars,
         Waiting, caller_
    <2>2. UNCHANGED <<plan, generation, hashed, at, sum, merged, learnt, hashesDone, answer>>
      BY <1>6 DEF NotifyWorkers, Timeout, Service, RequestStop, CallerWakesSpuriously, vars,
         plans, caller_, loops
    <2> QED  BY <2>1, <2>2, AccountsStay
  <1>7. CASE Destroy \/ NotifyStop \/ Join
    <2>1. /\ caller' \in {"stopNotify", "join", "gone"}
          /\ UNCHANGED <<plan, hashed, learnt>>
      BY <1>7 DEF Destroy, NotifyStop, Join, plans
    <2> QED
      BY <2>1 DEF Accounts, Totals, ExactAnswer, LearntFromWholeBatch, AllHashed, BatchNonces
  <1>8. ASSUME NEW w \in Workers, WorkerStep(w) \/ WorkerWakesSpuriously(w)
        PROVE  Accounts'
    <2>1. CASE Hash(w)
      <3>1. pc[w] \notin Outside  BY <2>1 DEF Hash, Outside
      <3>2. caller \in Waiting
        BY <3>1, InBatch DEF Rendezvous, Settled, TypeOK, CallerTypeOK, CallerAt, Waiting
      <3>3. at = 0 /\ sum = 0 /\ merged = {} /\ ~learnt
        BY <3>2 DEF Accounts, Totals, TypeOK, CallerTypeOK, Waiting
      <3>4. UNCHANGED <<caller, at, sum, merged, learnt>>
        BY <2>1 DEF Hash, caller_, loops
      <3> QED
        BY <3>2, <3>3, <3>4 DEF Accounts, Totals, ExactAnswer, LearntFromWholeBatch, Waiting
    <2>2. CASE ~Hash(w)
      <3>1. caller' = caller \/ {caller, caller'} \subseteq Waiting
        BY <1>8, <2>2 DEF WorkerStep, WorkerWakesSpuriously, WaitForWork, Snapshot, Check, Claim,
           Refill, Report, CallerAfterReport, Waiting, caller_
      <3>2. UNCHANGED <<plan, generation, hashed, at, sum, merged, learnt, hashesDone, answer>>
        BY <1>8, <2>2 DEF WorkerStep, WorkerWakesSpuriously, WaitForWork, Snapshot, Check, Claim,
           Refill, Report, plans, caller_, loops
      <3> QED  BY <3>1, <3>2, AccountsStay
    <2> QED  BY <2>1, <2>2
  <1> QED
    BY <1>1, <1>2, <1>3, <1>4, <1>5, <1>6, <1>7, <1>8
    DEF Next, CallerStep, RunStep, StopStep, Environment, Terminated

LEMMA InitIInv == Init => IInv
  <1> SUFFICES ASSUME Init PROVE IInv
    OBVIOUS
  <1>1. TypeOK /\ Rendezvous  BY InitType, InitRendezvous
  <1>2. Fresh /\ ~Active  BY DEF Init, Fresh, Active
  <1>3. Totals /\ ExactAnswer /\ LearntFromWholeBatch
    BY DEF Init, Totals, ExactAnswer, LearntFromWholeBatch
  <1> QED  BY <1>1, <1>2, <1>3 DEF IInv

LEMMA NextIInv == IInv /\ [Next]_vars => IInv'
  <1> SUFFICES ASSUME IInv, [Next]_vars PROVE IInv'
    OBVIOUS
  <1>0. /\ TypeOK /\ Rendezvous /\ Fresh /\ Accounts
        /\ Active => InBatchInv
    BY DEF IInv, Accounts
  <1>1. TypeOK' /\ Rendezvous'  BY <1>0, NextType, NextRendezvous
  <1>2. Fresh'  BY <1>0, NextFresh
  <1>3. Active' => InBatchInv'  BY <1>0, NextBatch
  <1>4. Accounts'  BY <1>0, NextAccounts
  <1> QED  BY <1>1, <1>2, <1>3, <1>4 DEF IInv, Accounts

(* In every reachable state the nonces of the batch are divided among the  *)
(* hashed, the claimed and the unclaimed.                                  *)
THEOREM Inductive == Spec => []IInv
  BY InitIInv, NextIInv, PTL DEF Spec

(* run returns exactly the candidates among the nonces that were hashed,   *)
(* and the number it reports is the number of nonces hashed, each once,    *)
(* also for a batch that is stopped half-way or throws.                    *)
THEOREM AnswerCorrect == Spec => []ExactAnswer
  <1>1. IInv => ExactAnswer  BY DEF IInv
  <1> QED  BY <1>1, Inductive, PTL

(* Throughput is learnt only from batches every nonce of which was hashed. *)
THEOREM LearningCorrect == Spec => []LearntFromWholeBatch
  <1>1. IInv => LearntFromWholeBatch  BY DEF IInv
  <1> QED  BY <1>1, Inductive, PTL

----------------------------------------------------------------------------
(* The pool implements the abstract batch.                                 *)

(* Where the refinement mapping puts the caller.                           *)
LEMMA PhaseOf ==
    /\ caller = "idle" => Phase = "idle"
    /\ caller \in {"notify", "await", "blocked", "serve", "account"} => Phase = "running"
    /\ caller \in {"learn", "merge"} => Phase = "settled"
    /\ caller \in {"stopNotify", "join", "gone"} => Phase = "closed"
  BY DEF Phase

LEMMA PhaseNext ==
    /\ caller' = "idle" => Phase' = "idle"
    /\ caller' \in {"notify", "await", "blocked", "serve", "account"} => Phase' = "running"
    /\ caller' \in {"learn", "merge"} => Phase' = "settled"
    /\ caller' \in {"stopNotify", "join", "gone"} => Phase' = "closed"
  BY DEF Phase

(* The instance has a copy of its own of the operator.                     *)
LEMMA SameCardinality == Abstract!Cardinality(AllHashed) = Cardinality(AllHashed)
  BY DEF Abstract!Cardinality, Cardinality

LEMMA InitRefines == Init => Abstract!Init
  BY PhaseOf DEF Init, Abstract!Init, Batch, AllHashed

(* A step of the pool the abstract batch does not see.                     *)
LEMMA Stutters ==
    ASSUME UNCHANGED <<plan, activeKey, activeTarget, cancel, hashed, hashesDone, answer>>,
           Phase' = Phase
    PROVE  UNCHANGED Abstract!vars
  <1>1. Batch' = Batch  BY DEF Batch, BatchNonces
  <1>2. AllHashed' = AllHashed  BY DEF AllHashed
  <1> QED  BY <1>1, <1>2 DEF Abstract!vars

LEMMA BeginRefines ==
    ASSUME TypeOK, Begin
    PROVE  Abstract!Begin
  <1>1. PICK r \in Requests, preset \in BOOLEAN : \E active \in ActiveChoices(r) :
           /\ request' = r /\ cancel' = preset /\ plan' = PlanFor(r, active)
           /\ activeKey' = r.key /\ activeTarget' = PinnedTarget(r)
    BY DEF Begin
  <1>2. PICK active \in ActiveChoices(r) : plan' = PlanFor(r, active)
    BY <1>1
  <1>3. plan' \in Plan /\ plan' # None /\ r.key \in Keys
    BY <1>2, PlanType, PlanNotNone
  <1>4. plan'.key = r.key /\ plan'.target = PinnedTarget(r)
    BY <1>2 DEF PlanFor
  <1>5. BatchNonces' \subseteq Nonces
    <2>1. plan'.start \in Nat /\ plan'.limit \in Nat
      BY <1>3, PoolAssumption DEF Plan, Nonces
    <2> QED  BY <2>1, NonceAfterType DEF BatchNonces
  <1>6. Batch' = [key |-> plan'.key, target |-> plan'.target, nonces |-> BatchNonces',
                  stop |-> plan'.stop]
    BY <1>3 DEF Batch
  <1>7. Batch' \in Abstract!Batches
    BY <1>3, <1>5, <1>6 DEF Abstract!Batches, Plan
  <1>8. activeKey = Batch'.key => Batch'.target = activeTarget
    BY <1>4, <1>6 DEF PinnedTarget
  <1>9. activeKey' = Batch'.key /\ activeTarget' = Batch'.target
    BY <1>1, <1>4, <1>6
  <1>10. AllHashed' = {}
    BY DEF Begin, AllHashed
  <1>11. /\ caller = "idle" /\ caller' = "notify"
         /\ UNCHANGED <<hashesDone, answer>>
         /\ cancel' \in BOOLEAN
    BY <1>1 DEF Begin
  <1>12. Phase = "idle" /\ Phase' = "running"
    BY <1>11, PhaseOf, PhaseNext
  <1> QED
    BY <1>7, <1>8, <1>9, <1>10, <1>11, <1>12 DEF Abstract!Begin

LEMMA HashRefines ==
    ASSUME IInv, NEW w \in Workers, Hash(w)
    PROVE  [Abstract!Next]_(Abstract!vars)
  <1>0. /\ TypeOK /\ Rendezvous /\ Fresh
        /\ Active => InBatchInv
    BY DEF IInv
  <1>1. pc[w] \notin Outside  BY DEF Hash, Outside
  <1>2. /\ ~stopping /\ generation > 0 /\ ~Settled
    BY <1>0, <1>1, InBatch
  <1>3. InBatchInv /\ Active  BY <1>0, <1>2 DEF Active
  <1>4. InBatchInv'  BY <1>0, <1>3, HashBatch
  <1>5. /\ caller' = caller
        /\ UNCHANGED <<plan, activeKey, activeTarget, cancel, hashesDone, answer>>
    BY DEF Hash, plans, caller_
  <1>6. Phase = "running" /\ Phase' = Phase
    <2>1. caller \in {"notify", "await", "blocked", "serve"}
      BY <1>0, <1>2 DEF Rendezvous, Settled, TypeOK, CallerTypeOK, CallerAt
    <2> QED  BY <1>5, <2>1, PhaseOf, PhaseNext
  <1>7. Batch' = Batch /\ BatchNonces' = BatchNonces
    BY <1>5 DEF Batch, BatchNonces
  <1>8. Batch.nonces = BatchNonces
    BY <1>0, <1>2 DEF Batch, Rendezvous
  <1>9. AllHashed \subseteq AllHashed'
    <2>1. \A v \in Workers : hashed[v] \subseteq hashed'[v]
      BY <1>0 DEF Hash, TypeOK, WorkerTypeOK
    <2> QED  BY <2>1 DEF AllHashed
  <1>10. AllHashed' \subseteq BatchNonces
    BY <1>4, <1>7 DEF AllHashed, InBatchInv, Disjoint
  <1>11. Abstract!HashMore
    BY <1>5, <1>6, <1>7, <1>8, <1>9, <1>10 DEF Abstract!HashMore
  <1> QED  BY <1>11 DEF Abstract!Next

(* The end of run: the sum is published, the answer is returned.           *)
LEMMA SettleRefines ==
    ASSUME IInv, Account, at = Threads
    PROVE  Abstract!Settle
  <1>0. /\ TypeOK /\ Rendezvous /\ Fresh /\ Totals
        /\ Active => InBatchInv
    BY DEF IInv
  <1>1. /\ caller = "account" /\ hashesDone' = sum
        /\ UNCHANGED <<plan, activeKey, activeTarget, cancel, hashed>>
        /\ \/ caller' = "idle" /\ answer' = [kind |-> "threw", candidates |-> {}]
           \/ caller' = "learn" /\ answer' = answer
    BY PoolAssumption DEF Account, plans
  <1>2. Active /\ InBatchInv /\ Settled
    BY <1>0, <1>1, ReportsKept
  <1>3. AllHashed = BatchNonces \/ Stoppable
    BY <1>0, <1>2, Complete
  <1>4. Batch = [key |-> plan.key, target |-> plan.target, nonces |-> BatchNonces,
                 stop |-> plan.stop]
    BY <1>0, <1>2 DEF Batch, Active, Rendezvous
  <1>5. Abstract!Settled
    BY <1>3, <1>4 DEF Abstract!Settled, Stoppable
  <1>6. Batch' = Batch /\ AllHashed' = AllHashed
    BY <1>1 DEF Batch, BatchNonces, AllHashed
  <1>7. hashesDone' = Cardinality(AllHashed)
    BY <1>0, <1>1, BelowAll DEF Totals
  <1>8. Phase = "running"  BY <1>1, PhaseOf
  <1>9. \/ Phase' = "settled" /\ answer' = answer
        \/ Phase' = "idle" /\ answer' = [kind |-> "threw", candidates |-> {}]
    BY <1>1, PhaseNext
  <1>10. UNCHANGED <<Batch, [key |-> activeKey, target |-> activeTarget], cancel, AllHashed>>
    BY <1>1, <1>6
  <1> QED  BY <1>5, <1>7, <1>8, <1>9, <1>10, SameCardinality DEF Abstract!Settle

LEMMA ReturnRefines ==
    ASSUME IInv, Merge, at = Threads
    PROVE  Abstract!Return
  <1>0. /\ TypeOK /\ Rendezvous /\ Fresh /\ Totals
        /\ Active => InBatchInv
    BY DEF IInv
  <1>1. /\ caller = "merge" /\ caller' = "idle"
        /\ answer' = [kind |-> "returned", candidates |-> merged]
        /\ UNCHANGED <<plan, activeKey, activeTarget, cancel, hashed, hashesDone>>
    BY PoolAssumption DEF Merge, plans
  <1>2. Active  BY <1>0, <1>1, ReportsKept
  <1>3. Batch.key = plan.key /\ Batch.target = plan.target
    BY <1>0, <1>2 DEF Batch, Active, Rendezvous
  <1>4. Batch' = Batch /\ AllHashed' = AllHashed
    BY <1>1 DEF Batch, BatchNonces, AllHashed
  <1>5. merged = AllHashed \cap Solutions[<<plan.key, plan.target>>]
    BY <1>0, <1>1, BelowAll DEF Totals, Meeting
  <1>6. Phase = "settled" /\ Phase' = "idle"
    BY <1>1, PhaseOf, PhaseNext
  <1> QED  BY <1>1, <1>3, <1>4, <1>5, <1>6 DEF Abstract!Return

(* The steps between.                                                      *)
LEMMA RunRefines ==
    ASSUME IInv, RunStep \/ CallerWakesSpuriously
    PROVE  [Abstract!Next]_(Abstract!vars)
  <1>0. at < Threads \/ at = Threads
    BY PoolAssumption DEF IInv, TypeOK, CallerTypeOK
  <1>1. CASE Account /\ at = Threads
    BY <1>1, SettleRefines DEF Abstract!Next
  <1>2. CASE Merge /\ at = Threads
    BY <1>2, ReturnRefines DEF Abstract!Next
  <1>3. CASE Service
    <2>1. /\ Phase = "running" /\ Phase' = "running"
          /\ UNCHANGED <<plan, activeKey, activeTarget, hashed, hashesDone, answer>>
      BY <1>3, PhaseOf, PhaseNext DEF Service, plans
    <2>2. cancel' = cancel \/ cancel' = TRUE
      BY <1>3 DEF Service, IInv, TypeOK, SharedTypeOK
    <2>3. CASE cancel' = cancel
      BY <2>1, <2>3, Stutters
    <2>4. CASE cancel' = TRUE
      <3>1. Batch' = Batch /\ AllHashed' = AllHashed
        BY <2>1 DEF Batch, BatchNonces, AllHashed
      <3>2. Abstract!RaiseStop
        BY <2>1, <2>4, <3>1 DEF Abstract!RaiseStop
      <3> QED  BY <3>2 DEF Abstract!Next
    <2> QED  BY <2>2, <2>3, <2>4
  <1>4. CASE \/ NotifyWorkers \/ Await \/ Timeout \/ Learn \/ CallerWakesSpuriously
             \/ (Account /\ at < Threads) \/ (Merge /\ at < Threads)
    <2>1. UNCHANGED <<plan, activeKey, activeTarget, cancel, hashed, hashesDone, answer>>
      BY <1>4, PoolAssumption DEF NotifyWorkers, Await, Timeout, Learn, CallerWakesSpuriously,
         Account, Merge, plans, IInv, TypeOK, CallerTypeOK
    <2>2. Phase' = Phase
      <3>1. \/ {caller, caller'} \subseteq {"notify", "await", "blocked", "serve", "account"}
            \/ {caller, caller'} \subseteq {"learn", "merge"}
        BY <1>4, PoolAssumption DEF NotifyWorkers, Await, Timeout, Learn, CallerWakesSpuriously,
           Account, Merge, IInv, TypeOK, CallerTypeOK
      <3> QED  BY <3>1, PhaseOf, PhaseNext
    <2> QED  BY <2>1, <2>2, Stutters
  <1> QED  BY <1>0, <1>1, <1>2, <1>3, <1>4 DEF RunStep

LEMMA OtherRefines ==
    ASSUME IInv,
           \/ RequestStop \/ Destroy \/ StopStep \/ UNCHANGED vars
           \/ \E w \in Workers : ~Hash(w) /\ (WorkerStep(w) \/ WorkerWakesSpuriously(w))
    PROVE  [Abstract!Next]_(Abstract!vars)
  <1>1. CASE RequestStop
    <2>1. /\ caller' = caller /\ cancel' = TRUE
          /\ caller \notin {"idle", "stopNotify", "join", "gone"}
          /\ UNCHANGED <<plan, activeKey, activeTarget, hashed, hashesDone, answer>>
      BY <1>1 DEF RequestStop, plans, caller_
    <2>2. Phase \in {"running", "settled"} /\ Phase' = Phase
      BY <2>1, PhaseOf, PhaseNext DEF IInv, TypeOK, CallerTypeOK, CallerAt
    <2>3. Batch' = Batch /\ AllHashed' = AllHashed
      BY <2>1 DEF Batch, BatchNonces, AllHashed
    <2>4. Abstract!RaiseStop
      BY <2>1, <2>2, <2>3 DEF Abstract!RaiseStop
    <2> QED  BY <2>4 DEF Abstract!Next
  <1>2. CASE Destroy
    <2>1. /\ Phase = "idle" /\ Phase' = "closed"
          /\ UNCHANGED <<plan, activeKey, activeTarget, cancel, hashed, hashesDone, answer>>
      BY <1>2, PhaseOf, PhaseNext DEF Destroy
    <2>2. Batch' = Batch /\ AllHashed' = AllHashed
      BY <2>1 DEF Batch, BatchNonces, AllHashed
    <2>3. Abstract!Close
      BY <2>1, <2>2 DEF Abstract!Close
    <2> QED  BY <2>3 DEF Abstract!Next
  <1>3. CASE StopStep
    <2>1. /\ Phase = "closed" /\ Phase' = "closed"
          /\ UNCHANGED <<plan, activeKey, activeTarget, cancel, hashed, hashesDone, answer>>
      BY <1>3, PhaseOf, PhaseNext DEF StopStep, NotifyStop, Join, plans
    <2> QED  BY <2>1, Stutters
  <1>4. CASE UNCHANGED vars
    <2>1. UNCHANGED <<plan, activeKey, activeTarget, cancel, hashed, hashesDone, answer, caller>>
      BY <1>4 DEF vars, plans, caller_
    <2>2. Phase' = Phase  BY <2>1 DEF Phase
    <2> QED  BY <2>1, <2>2, Stutters
  <1>5. ASSUME NEW w \in Workers, ~Hash(w), WorkerStep(w) \/ WorkerWakesSpuriously(w)
        PROVE  [Abstract!Next]_(Abstract!vars)
    <2>1. UNCHANGED <<plan, activeKey, activeTarget, cancel, hashed, hashesDone, answer>>
      BY <1>5 DEF WorkerStep, WorkerWakesSpuriously, WaitForWork, Snapshot, Check, Claim,
         Refill, Report, plans, caller_
    <2>2. caller' = caller \/ (caller = "blocked" /\ caller' = "await")
      BY <1>5 DEF WorkerStep, WorkerWakesSpuriously, WaitForWork, Snapshot, Check, Claim,
         Refill, Report, CallerAfterReport, caller_
    <2>3. Phase' = Phase
      <3>1. CASE caller' = caller  BY <3>1 DEF Phase
      <3>2. CASE caller = "blocked" /\ caller' = "await"
        BY <3>2, PhaseOf, PhaseNext
      <3> QED  BY <2>2, <3>1, <3>2
    <2> QED  BY <2>1, <2>3, Stutters
  <1> QED  BY <1>1, <1>2, <1>3, <1>4, <1>5

(* The pool keeps the promise of its header: a batch is hashed nonce by    *)
(* nonce, at most once each, completely unless its stop flag is raised,    *)
(* and it ends with its candidates and its count, returned or thrown.      *)
THEOREM Implements == Spec => ImplementsBatchHash
  <1>1. IInv /\ [Next]_vars => [Abstract!Next]_(Abstract!vars)
    <2> SUFFICES ASSUME IInv, [Next]_vars PROVE [Abstract!Next]_(Abstract!vars)
      OBVIOUS
    <2>1. CASE Begin
      <3>1. TypeOK  BY DEF IInv
      <3> QED  BY <2>1, <3>1, BeginRefines DEF Abstract!Next
    <2>2. ASSUME NEW w \in Workers, Hash(w) PROVE [Abstract!Next]_(Abstract!vars)
      BY <2>2, HashRefines
    <2>3. CASE RunStep \/ CallerWakesSpuriously
      BY <2>3, RunRefines
    <2>4. CASE \/ RequestStop \/ Destroy \/ StopStep \/ UNCHANGED vars
               \/ \E w \in Workers : ~Hash(w) /\ (WorkerStep(w) \/ WorkerWakesSpuriously(w))
      BY <2>4, OtherRefines
    <2> QED
      BY <2>1, <2>2, <2>3, <2>4 DEF Next, CallerStep, Environment, Terminated
  <1> QED
    BY <1>1, InitRefines, Inductive, PTL DEF Spec, ImplementsBatchHash, Abstract!Spec
================================================================================
