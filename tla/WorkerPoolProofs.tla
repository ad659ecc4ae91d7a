--------------------------- MODULE WorkerPoolProofs ---------------------------
(***************************************************************************)
(* Proofs about WorkerPool, for every number of workers, lane width, nonce *)
(* space and set of requests.                                              *)
(***************************************************************************)
EXTENDS WorkerPool, FiniteSetTheorems, TLAPS

(* uint32 arithmetic stays in the nonce space.                             *)
LEMMA NonceAfterType ==
    ASSUME NEW s \in Nat, NEW n \in Nat
    PROVE  NonceAfter(s, n) \in Nonces
  <1>1. NonceSpace \in Nat \ {0}  BY PoolAssumption
  <1>2. s + n \in Nat             OBVIOUS
  <1> QED  BY <1>1, <1>2, Z3 DEF NonceAfter, Nonces

(* The slices of run are natural numbers.                                  *)
LEMMA SliceTypes ==
    ASSUME NEW total \in Nat, NEW active \in Nat \ {0}, NEW w \in Nat
    PROVE  /\ SliceSize(total, active, w) \in Nat
           /\ SliceOffset(total, active, w) \in Nat
  <1>1. total \div active \in Nat  BY Z3
  <1>2. total % active \in Nat     BY Z3
  <1>3. w * (total \div active) \in Nat
    <2> DEFINE d == total \div active
    <2>1. d \in Nat  BY <1>1
    <2> HIDE DEF d
    <2>2. w * d \in Nat  BY <2>1, Z3
    <2> QED  BY <2>2 DEF d
  <1> QED  BY <1>1, <1>2, <1>3 DEF SliceSize, SliceOffset, Smaller

(* The first field of a plan is a header key: None is not a plan.          *)
LEMMA PlanNotNone == None \notin Plan
  BY PoolAssumption

(* The plan run publishes has the type of a plan.                          *)
LEMMA PlanType ==
    ASSUME TypeOK, NEW r \in Requests, NEW active \in ActiveChoices(r)
    PROVE  /\ PlanFor(r, active) \in Plan
           /\ PinnedTarget(r) \in Targets
           /\ r.key \in Keys
  <1> DEFINE total == Threads * r.count
  <1>1. /\ r \in Request
        /\ Threads \in Nat \ {0}
        /\ ShareWork \in BOOLEAN
        /\ None \notin Keys
    BY PoolAssumption
  <1>2. total \in Nat  BY <1>1, Z3 DEF Request
  <1>3. active \in Nat \ {0}  BY <1>1 DEF ActiveChoices
  <1>4. PinnedTarget(r) \in Targets
    BY <1>1 DEF PinnedTarget, Request, TypeOK, SharedTypeOK
  <1>5. \A w \in Workers : /\ SliceSize(total, active, w) \in Nat
                          /\ NonceAfter(r.start, SliceOffset(total, active, w)) \in Nonces
    <2>1. r.start \in Nat  BY <1>1, PoolAssumption DEF Request, Nonces
    <2> SUFFICES ASSUME NEW w \in Workers
                 PROVE  /\ SliceSize(total, active, w) \in Nat
                        /\ NonceAfter(r.start, SliceOffset(total, active, w)) \in Nonces
      OBVIOUS
    <2>2. w \in Nat  BY <1>1 DEF Workers
    <2>3. /\ SliceSize(total, active, w) \in Nat
          /\ SliceOffset(total, active, w) \in Nat
      BY <1>2, <1>3, <2>2, SliceTypes
    <2> QED  BY <2>1, <2>3, NonceAfterType
  <1>6. SharesWork(total, active) \in BOOLEAN  BY <1>1 DEF SharesWork
  <1>7. /\ r.key \in Keys
        /\ r.start \in Nonces
        /\ r.stop \in BOOLEAN
    BY <1>1 DEF Request
  <1> QED
    BY <1>2, <1>4, <1>5, <1>6, <1>7 DEF PlanFor, Plan

----------------------------------------------------------------------------
(* Type correctness.                                                       *)

LEMMA InitType == Init => TypeOK
  <1> SUFFICES ASSUME Init PROVE TypeOK
    OBVIOUS
  <1>0. 0 \in Nonces /\ 0 \in 0 .. Threads
    BY PoolAssumption DEF Nonces
  <1>1. SharedTypeOK  BY PoolAssumption DEF Init, SharedTypeOK
  <1>2. CallerTypeOK  BY <1>0 DEF Init, CallerTypeOK, CallerAt
  <1>3. WorkerTypeOK  BY <1>0 DEF Init, WorkerTypeOK, WorkerAt
  <1> QED  BY <1>1, <1>2, <1>3 DEF TypeOK

(* A worker inside a batch: there is a batch, and it is the published one. *)
LEMMA InBatch ==
    ASSUME TypeOK, Rendezvous, NEW w \in Workers, pc[w] \notin Outside
    PROVE  /\ ~stopping
           /\ generation > 0
           /\ plan \in Plan
           /\ seen[w] = generation
           /\ job[w] = [key |-> plan.key, target |-> plan.target, stop |-> plan.stop]
           /\ ~Settled
           /\ w \notin CheckedIn
  <1>1. ~stopping /\ w \notin CheckedIn /\ ~Settled
    BY DEF Rendezvous, CheckedIn, Outside
  <1>2. generation > 0
    BY <1>1 DEF Rendezvous, TypeOK, SharedTypeOK
  <1> QED
    BY <1>1, <1>2 DEF Rendezvous, CurrentBatchOnly, TypeOK, SharedTypeOK

(* A step keeps the types; a worker takes a batch only once one exists.    *)
LEMMA NextType == TypeOK /\ Rendezvous /\ [Next]_vars => TypeOK'
  <1> SUFFICES ASSUME TypeOK, Rendezvous, [Next]_vars PROVE TypeOK'
    OBVIOUS
  <1> USE PoolAssumption DEF TypeOK
  <1>1. CASE Begin
    <2>1. SharedTypeOK'
      <3>0. PICK r \in Requests, preset \in BOOLEAN :
               \E active \in ActiveChoices(r) :
                  /\ cancel' = preset
                  /\ plan' = PlanFor(r, active)
                  /\ activeKey' = r.key
                  /\ activeTarget' = PinnedTarget(r)
        BY <1>1 DEF Begin
      <3>1. cancel' \in BOOLEAN /\ plan' \in Plan /\ activeTarget' \in Targets /\ activeKey' \in Keys
        BY <3>0, PlanType
      <3> QED  BY <1>1, <3>1 DEF Begin, SharedTypeOK
    <2>2. CallerTypeOK'
      <3>1. 0 \in 0 .. Threads  OBVIOUS
      <3>2. request' \in Requests  BY <1>1 DEF Begin
      <3> QED  BY <1>1, <3>1, <3>2 DEF Begin, CallerTypeOK, CallerAt
    <2>3. WorkerTypeOK'
      BY <1>1 DEF Begin, WorkerTypeOK, plans, reports, caller_, locals, loops, WorkerAt
    <2> QED  BY <2>1, <2>2, <2>3
  <1>2. CASE NotifyWorkers
    <2>1. SharedTypeOK'
      BY <1>2 DEF NotifyWorkers, SharedTypeOK, plans, reports, caller_, locals, loops
    <2>2. CallerTypeOK'
      BY <1>2 DEF NotifyWorkers, CallerTypeOK, plans, reports, caller_, locals, loops, CallerAt
    <2>3. WorkerTypeOK'
      BY <1>2 DEF NotifyWorkers, Woken, WorkerTypeOK, plans, reports, caller_, locals, loops, WorkerAt
    <2> QED  BY <2>1, <2>2, <2>3
  <1>3. CASE Await
    <2>1. SharedTypeOK'
      BY <1>3 DEF Await, SharedTypeOK, plans, reports, caller_, locals, loops
    <2>2. CallerTypeOK'
      BY <1>3 DEF Await, CallerTypeOK, plans, reports, caller_, locals, loops, CallerAt
    <2>3. WorkerTypeOK'
      BY <1>3 DEF Await, WorkerTypeOK, plans, reports, caller_, locals, loops, WorkerAt
    <2> QED  BY <2>1, <2>2, <2>3
  <1>4. CASE Timeout
    <2>1. SharedTypeOK'
      BY <1>4 DEF Timeout, SharedTypeOK, plans, reports, caller_, locals, loops
    <2>2. CallerTypeOK'
      BY <1>4 DEF Timeout, CallerTypeOK, plans, reports, caller_, locals, loops, CallerAt
    <2>3. WorkerTypeOK'
      BY <1>4 DEF Timeout, WorkerTypeOK, plans, reports, caller_, locals, loops, WorkerAt
    <2> QED  BY <2>1, <2>2, <2>3
  <1>5. CASE CallerWakesSpuriously
    <2>1. SharedTypeOK'
      BY <1>5 DEF CallerWakesSpuriously, SharedTypeOK, plans, reports, caller_, locals, loops
    <2>2. CallerTypeOK'
      BY <1>5 DEF CallerWakesSpuriously, CallerTypeOK, plans, reports, caller_, locals, loops, CallerAt
    <2>3. WorkerTypeOK'
      BY <1>5 DEF CallerWakesSpuriously, WorkerTypeOK, plans, reports, caller_, locals, loops, WorkerAt
    <2> QED  BY <2>1, <2>2, <2>3
  <1>6. CASE Service
    <2>1. SharedTypeOK'
      BY <1>6 DEF Service, SharedTypeOK, plans, reports, caller_, locals, loops
    <2>2. CallerTypeOK'
      BY <1>6 DEF Service, CallerTypeOK, plans, reports, caller_, locals, loops, CallerAt
    <2>3. WorkerTypeOK'
      BY <1>6 DEF Service, WorkerTypeOK, plans, reports, caller_, locals, loops, WorkerAt
    <2> QED  BY <2>1, <2>2, <2>3
  <1>7. CASE RequestStop
    <2>1. SharedTypeOK'
      BY <1>7 DEF RequestStop, SharedTypeOK, plans, reports, caller_, locals, loops
    <2>2. CallerTypeOK'
      BY <1>7 DEF RequestStop, CallerTypeOK, plans, reports, caller_, locals, loops, CallerAt
    <2>3. WorkerTypeOK'
      BY <1>7 DEF RequestStop, WorkerTypeOK, plans, reports, caller_, locals, loops, WorkerAt
    <2> QED  BY <2>1, <2>2, <2>3
  <1>8. CASE Account
    <2>1. SharedTypeOK'
      BY <1>8 DEF Account, SharedTypeOK, plans, reports, caller_, locals, loops
    <2>2. CallerTypeOK'
      <3>1. CASE at < Threads
        <4>1. counts[at] \in Nat
          BY <3>1 DEF Workers, SharedTypeOK, CallerTypeOK
        <4> QED  BY <1>8, <3>1, <4>1 DEF Account, CallerTypeOK
      <3>2. CASE at = Threads
        BY <1>8, <3>2 DEF Account, CallerTypeOK, CallerAt
      <3> QED  BY <3>1, <3>2 DEF CallerTypeOK
    <2>3. WorkerTypeOK'
      BY <1>8 DEF Account, WorkerTypeOK, plans, reports, caller_, locals, loops, WorkerAt
    <2> QED  BY <2>1, <2>2, <2>3
  <1>9. CASE Learn
    <2>1. SharedTypeOK'
      BY <1>9 DEF Learn, SharedTypeOK, plans, reports, caller_, locals, loops
    <2>2. CallerTypeOK'
      BY <1>9 DEF Learn, CallerTypeOK, plans, reports, caller_, locals, loops, CallerAt
    <2>3. WorkerTypeOK'
      BY <1>9 DEF Learn, WorkerTypeOK, plans, reports, caller_, locals, loops, WorkerAt
    <2> QED  BY <2>1, <2>2, <2>3
  <1>10. CASE Merge
    <2>1. SharedTypeOK'
      BY <1>10 DEF Merge, SharedTypeOK, plans, reports, caller_, locals, loops
    <2>2. CallerTypeOK'
      <3>1. CASE at < Threads
        <4>1. results[at] \in SUBSET Nonces
          BY <3>1 DEF Workers, SharedTypeOK, CallerTypeOK
        <4>2. merged' \in SUBSET Nonces
          BY <1>10, <3>1, <4>1 DEF Merge, CallerTypeOK
        <4> QED  BY <1>10, <3>1, <4>2 DEF Merge, CallerTypeOK
      <3>2. CASE at = Threads
        BY <1>10, <3>2 DEF Merge, CallerTypeOK, CallerAt
      <3> QED  BY <3>1, <3>2 DEF CallerTypeOK
    <2>3. WorkerTypeOK'
      BY <1>10 DEF Merge, WorkerTypeOK, plans, reports, caller_, locals, loops, WorkerAt
    <2> QED  BY <2>1, <2>2, <2>3
  <1>11. CASE Destroy
    <2>1. SharedTypeOK'
      BY <1>11 DEF Destroy, SharedTypeOK, plans, reports, caller_, locals, loops
    <2>2. CallerTypeOK'
      BY <1>11 DEF Destroy, CallerTypeOK, plans, reports, caller_, locals, loops, CallerAt
    <2>3. WorkerTypeOK'
      BY <1>11 DEF Destroy, WorkerTypeOK, plans, reports, caller_, locals, loops, WorkerAt
    <2> QED  BY <2>1, <2>2, <2>3
  <1>12. CASE NotifyStop
    <2>1. SharedTypeOK'
      BY <1>12 DEF NotifyStop, SharedTypeOK, plans, reports, caller_, locals, loops
    <2>2. CallerTypeOK'
      BY <1>12 DEF NotifyStop, CallerTypeOK, plans, reports, caller_, locals, loops, CallerAt
    <2>3. WorkerTypeOK'
      BY <1>12 DEF NotifyStop, Woken, WorkerTypeOK, plans, reports, caller_, locals, loops, WorkerAt
    <2> QED  BY <2>1, <2>2, <2>3
  <1>13. CASE Join
    <2>1. SharedTypeOK'
      BY <1>13 DEF Join, SharedTypeOK, plans, reports, caller_, locals, loops
    <2>2. CallerTypeOK'
      BY <1>13 DEF Join, CallerTypeOK, plans, reports, caller_, locals, loops, CallerAt
    <2>3. WorkerTypeOK'
      BY <1>13 DEF Join, WorkerTypeOK, plans, reports, caller_, locals, loops, WorkerAt
    <2> QED  BY <2>1, <2>2, <2>3
  <1>14. ASSUME NEW w \in Workers, WaitForWork(w) PROVE TypeOK'
    <2>1. SharedTypeOK'
      BY <1>14 DEF WaitForWork, SharedTypeOK, plans, reports, caller_, locals, loops
    <2>2. CallerTypeOK'
      BY <1>14 DEF WaitForWork, CallerTypeOK, plans, reports, caller_, locals, loops, CallerAt
    <2>3. WorkerTypeOK'
      <3> USE DEF WaitForWork, WorkerTypeOK
      <3>1. CASE stopping
        BY <1>14, <3>1 DEF locals, WorkerAt
      <3>2. CASE ~stopping /\ seen[w] = generation
        BY <1>14, <3>2 DEF locals, WorkerAt
      <3>3. CASE ~stopping /\ seen[w] # generation
        <4>1. generation \in Nat /\ seen[w] \in Nat /\ seen[w] <= generation
          BY DEF SharedTypeOK, Rendezvous
        <4>2. plan \in Plan
          BY <3>3, <4>1 DEF SharedTypeOK, Rendezvous
        <4>3. /\ plan.starts[w] \in Nonces
              /\ plan.sizes[w] \in Nat
              /\ [key |-> plan.key, target |-> plan.target, stop |-> plan.stop] \in Job
          BY <4>2 DEF Plan, Job
        <4>4. /\ pc' \in [Workers -> WorkerAt]
              /\ seen' \in [Workers -> Nat]
          BY <1>14, <3>3, <4>1 DEF WorkerAt
        <4>5. job' \in [Workers -> Job \cup {None}]
          BY <1>14, <3>3, <4>3
        <4>6. /\ start' \in [Workers -> Nonces]
              /\ count' \in [Workers -> Nat]
          BY <1>14, <3>3, <4>3
        <4> QED  BY <1>14, <3>3, <4>4, <4>5, <4>6
      <3> QED  BY <3>1, <3>2, <3>3 DEF SharedTypeOK
    <2> QED  BY <2>1, <2>2, <2>3
  <1>15. ASSUME NEW w \in Workers, WorkerWakesSpuriously(w) PROVE TypeOK'
    <2>1. SharedTypeOK'
      BY <1>15 DEF WorkerWakesSpuriously, SharedTypeOK, plans, reports, caller_, locals, loops
    <2>2. CallerTypeOK'
      BY <1>15 DEF WorkerWakesSpuriously, CallerTypeOK, plans, reports, caller_, locals, loops, CallerAt
    <2>3. WorkerTypeOK'
      BY <1>15 DEF WorkerWakesSpuriously, WorkerTypeOK, plans, reports, caller_, locals, loops, WorkerAt
    <2> QED  BY <2>1, <2>2, <2>3
  <1>16. ASSUME NEW w \in Workers, Snapshot(w) PROVE TypeOK'
    <2>1. SharedTypeOK'
      BY <1>16 DEF Snapshot, SharedTypeOK, plans, reports, caller_, locals, loops
    <2>2. CallerTypeOK'
      BY <1>16 DEF Snapshot, CallerTypeOK, plans, reports, caller_, locals, loops, CallerAt
    <2>3. WorkerTypeOK'
      BY <1>16 DEF Snapshot, WorkerTypeOK, plans, reports, caller_, locals, loops, WorkerAt
    <2> QED  BY <2>1, <2>2, <2>3
  <1>17. ASSUME NEW w \in Workers, Check(w) PROVE TypeOK'
    <2>1. SharedTypeOK'
      BY <1>17 DEF Check, SharedTypeOK, plans, reports, caller_, locals, loops
    <2>2. CallerTypeOK'
      BY <1>17 DEF Check, CallerTypeOK, plans, reports, caller_, locals, loops, CallerAt
    <2>3. WorkerTypeOK'
      BY <1>17 DEF Check, WorkerTypeOK, plans, reports, caller_, locals, loops, WorkerAt
    <2> QED  BY <2>1, <2>2, <2>3
  <1>18. ASSUME NEW w \in Workers, Claim(w) PROVE TypeOK'
    <2>1. SharedTypeOK'
      BY <1>18 DEF Claim, Advanced, SharedTypeOK, plans, reports, caller_, locals, loops
    <2>2. CallerTypeOK'
      BY <1>18 DEF Claim, CallerTypeOK, plans, reports, caller_, locals, loops, CallerAt
    <2>3. WorkerTypeOK'
      <3>1. nextWork \in Nat  BY DEF SharedTypeOK
      <3> QED  BY <1>18, <3>1 DEF Claim, WorkerTypeOK, WorkerAt
    <2> QED  BY <2>1, <2>2, <2>3
  <1>19. ASSUME NEW w \in Workers, Refill(w) PROVE TypeOK'
    <2>1. SharedTypeOK'
      BY <1>19 DEF Refill, SharedTypeOK, plans, reports, caller_, locals, loops
    <2>2. CallerTypeOK'
      BY <1>19 DEF Refill, CallerTypeOK, plans, reports, caller_, locals, loops, CallerAt
    <2>3. WorkerTypeOK'
      <3> USE DEF Refill, WorkerTypeOK
      <3>0. plan.limit \in Nat /\ plan.start \in Nat
        <4>1. pc[w] \notin Outside  BY <1>19 DEF Outside
        <4>2. plan \in Plan  BY <4>1, InBatch
        <4> QED  BY <4>2 DEF Plan, Nonces
      <3>1. CASE offset[w] >= plan.limit
        BY <1>19, <3>0, <3>1 DEF WorkerAt
      <3>2. CASE offset[w] < plan.limit
        <4>1. Smaller(Lanes, plan.limit - offset[w]) \in Nat
          BY <3>0, <3>2 DEF Smaller
        <4>2. NonceAfter(plan.start, offset[w]) \in Nonces
          BY <3>0, NonceAfterType
        <4> QED  BY <1>19, <3>0, <3>2, <4>1, <4>2 DEF WorkerAt, ChunkSize
      <3> QED  BY <3>0, <3>1, <3>2
    <2> QED  BY <2>1, <2>2, <2>3
  <1>20. ASSUME NEW w \in Workers, Hash(w) PROVE TypeOK'
    <2>1. SharedTypeOK'
      BY <1>20 DEF Hash, SharedTypeOK, plans, reports, caller_, locals, loops
    <2>2. CallerTypeOK'
      BY <1>20 DEF Hash, CallerTypeOK, plans, reports, caller_, locals, loops, CallerAt
    <2>3. WorkerTypeOK'
      <3> USE DEF Hash, WorkerTypeOK
      <3>1. CASE UNCHANGED <<i, found, hashes, hashed>>
        BY <1>20, <3>1 DEF WorkerAt
      <3>2. CASE i[w] < count[w] /\ ~Stopped(w) /\ UNCHANGED pc
        <4>1. Group(w) \in Nat
          BY <3>2 DEF Group, Smaller
        <4>2. GroupNonces(w) \subseteq Nonces
          <5>1. SUFFICES ASSUME NEW n \in 0 .. Group(w) - 1
                         PROVE  NonceAfter(start[w], i[w] + n) \in Nonces
            BY DEF GroupNonces
          <5>2. start[w] \in Nat /\ i[w] + n \in Nat
            BY <4>1 DEF Nonces
          <5> QED  BY <5>2, NonceAfterType
        <4>3. hashed' \in [Workers -> SUBSET Nonces]
          BY <1>20, <3>2, <4>2
        <4>4. found' \in [Workers -> SUBSET Nonces]
          BY <1>20, <3>2, <4>2 DEF Kept
        <4>5. hashes' \in [Workers -> Nat] /\ i' \in [Workers -> Nat]
          BY <1>20, <3>2, <4>1
        <4> QED  BY <1>20, <3>2, <4>3, <4>4, <4>5
      <3> QED  BY <1>20, <3>1, <3>2
    <2> QED  BY <2>1, <2>2, <2>3
  <1>21. ASSUME NEW w \in Workers, Report(w) PROVE TypeOK'
    <2>1. SharedTypeOK'
      <3>1. found[w] \in SUBSET Nonces /\ hashes[w] \in Nat
        BY DEF WorkerTypeOK
      <3> QED  BY <1>21, <3>1 DEF Report, SharedTypeOK, plans
    <2>2. CallerTypeOK'
      BY <1>21 DEF Report, CallerAfterReport, CallerTypeOK, plans, reports, caller_, locals, loops, CallerAt
    <2>3. WorkerTypeOK'
      <3> USE DEF Report, WorkerTypeOK
      <3>1. 0 \in Nonces  BY DEF Nonces
      <3>2. /\ pc' \in [Workers -> WorkerAt]
            /\ job' \in [Workers -> Job \cup {None}]
            /\ participating' \in [Workers -> BOOLEAN]
        BY <1>21 DEF WorkerAt
      <3>3. /\ start' \in [Workers -> Nonces]
            /\ count' \in [Workers -> Nat]
            /\ offset' \in [Workers -> Nat]
            /\ i' \in [Workers -> Nat]
        BY <1>21, <3>1
      <3>4. /\ found' \in [Workers -> SUBSET Nonces]
            /\ hashes' \in [Workers -> Nat]
        BY <1>21
      <3> QED  BY <1>21, <3>2, <3>3, <3>4
    <2> QED  BY <2>1, <2>2, <2>3
  <1>22. CASE UNCHANGED vars
    BY <1>22 DEF vars, plans, reports, caller_, locals, loops, SharedTypeOK, CallerTypeOK, WorkerTypeOK
  <1> QED
    BY <1>1, <1>2, <1>3, <1>4, <1>5, <1>6, <1>7, <1>8, <1>9, <1>10, <1>11, <1>12, <1>13, <1>14, <1>15, <1>16, <1>17, <1>18, <1>19, <1>20, <1>21, <1>22
    DEF Next, CallerStep, RunStep, StopStep, WorkerStep, Environment, Terminated

----------------------------------------------------------------------------
(* The rendezvous of the caller and the workers.                           *)

LEMMA WorkersFinite ==
    /\ IsFiniteSet(Workers)
    /\ Cardinality(Workers) = Threads
  BY PoolAssumption, FS_Interval DEF Workers

LEMMA CheckedInFinite ==
    /\ CheckedIn \subseteq Workers
    /\ IsFiniteSet(CheckedIn)
    /\ Cardinality(CheckedIn) \in Nat
  <1>1. CheckedIn \subseteq Workers  BY DEF CheckedIn
  <1> QED  BY <1>1, WorkersFinite, FS_Subset, FS_CardinalityType

LEMMA InitRendezvous == Init => Rendezvous
  <1> SUFFICES ASSUME Init PROVE Rendezvous
    OBVIOUS
  <1>1. CurrentBatchOnly  BY DEF Init, CurrentBatchOnly, Outside
  <1> QED
    BY <1>1 DEF Init, Rendezvous, Settled, CheckedIn, Outside

(* When everybody has checked in, everybody is outside the batch.          *)
LEMMA AllCheckedIn ==
    ASSUME TypeOK, Rendezvous, generation > 0, ~stopping, completed = Threads
    PROVE  \A w \in Workers : w \in CheckedIn
  <1>1. Cardinality(CheckedIn) = Cardinality(Workers)
    BY WorkersFinite DEF Rendezvous
  <1>2. CheckedIn = Workers
    BY <1>1, WorkersFinite, CheckedInFinite, FS_Subset
  <1> QED  BY <1>2

LEMMA NextRendezvous == TypeOK /\ Rendezvous /\ [Next]_vars => Rendezvous'
  <1> SUFFICES ASSUME TypeOK, Rendezvous, [Next]_vars PROVE Rendezvous'
    OBVIOUS
  <1> USE PoolAssumption
  <1>0. /\ generation \in Nat
        /\ seen \in [Workers -> Nat]
        /\ pc \in [Workers -> WorkerAt]
        /\ completed \in Nat
        /\ job \in [Workers -> Job \cup {None}]
        /\ plan \in Plan \cup {None}
        /\ caller \in CallerAt
    BY DEF TypeOK, SharedTypeOK, CallerTypeOK, WorkerTypeOK
  <1>1. CASE Begin
    <2>1. CheckedIn' = {}
      BY <1>0, <1>1 DEF Begin, Rendezvous, CheckedIn, locals
    <2>2. Cardinality(CheckedIn') = 0
      BY <2>1, FS_EmptySet
    <2>3. plan' # None
      <3>1. PICK r \in Requests, preset \in BOOLEAN :
               \E active \in ActiveChoices(r) : plan' = PlanFor(r, active)
        BY <1>1 DEF Begin
      <3>2. plan' \in Plan  BY <3>1, PlanType
      <3> QED  BY <3>2, PlanNotNone
    <2>4. \A w \in Workers : pc[w] \in {"wait", "asleep"}
      BY <1>1 DEF Begin, Rendezvous, Settled, CheckedIn
    <2>5. CurrentBatchOnly'
      BY <1>1, <2>4 DEF Begin, CurrentBatchOnly, Outside, locals
    <2> QED
      BY <1>0, <1>1, <2>2, <2>3, <2>4, <2>5
      DEF Begin, Rendezvous, Settled, Outside, CallerAt, locals
  <1>2. CASE NotifyWorkers
    BY <1>0, <1>2 DEF NotifyWorkers, Woken, Rendezvous, CurrentBatchOnly, CheckedIn, Settled, Outside, CallerAt, WorkerAt,
       plans, reports, caller_, locals, loops
  <1>3. CASE Await
    <2>1. generation > 0 /\ ~stopping
      BY <1>0, <1>3 DEF Await, Rendezvous, Settled
    <2>2. completed = Threads => \A w \in Workers : w \in CheckedIn
      BY <2>1, AllCheckedIn
    <2> QED
      BY <1>0, <1>3, <2>1, <2>2
      DEF Await, Everybody, Rendezvous, CurrentBatchOnly, CheckedIn, Settled, Outside, CallerAt, WorkerAt,
          plans, reports, caller_, locals, loops
  <1>4. CASE Timeout
    BY <1>0, <1>4 DEF Timeout, Rendezvous, CurrentBatchOnly, CheckedIn, Settled, Outside, CallerAt, WorkerAt,
       plans, reports, caller_, locals, loops
  <1>5. CASE CallerWakesSpuriously
    BY <1>0, <1>5 DEF CallerWakesSpuriously, Rendezvous, CurrentBatchOnly, CheckedIn, Settled, Outside, CallerAt, WorkerAt,
       plans, reports, caller_, locals, loops
  <1>6. CASE Service
    BY <1>0, <1>6 DEF Service, Rendezvous, CurrentBatchOnly, CheckedIn, Settled, Outside, CallerAt, WorkerAt,
       plans, reports, caller_, locals, loops
  <1>7. CASE RequestStop
    BY <1>0, <1>7 DEF RequestStop, Rendezvous, CurrentBatchOnly, CheckedIn, Settled, Outside, CallerAt, WorkerAt,
       plans, reports, caller_, locals, loops
  <1>8. CASE Account
    BY <1>0, <1>8 DEF Account, Rendezvous, CurrentBatchOnly, CheckedIn, Settled, Outside, CallerAt, WorkerAt,
       plans, reports, caller_, locals, loops
  <1>9. CASE Learn
    BY <1>0, <1>9 DEF Learn, Rendezvous, CurrentBatchOnly, CheckedIn, Settled, Outside, CallerAt, WorkerAt,
       plans, reports, caller_, locals, loops
  <1>10. CASE Merge
    BY <1>0, <1>10 DEF Merge, Rendezvous, CurrentBatchOnly, CheckedIn, Settled, Outside, CallerAt, WorkerAt,
       plans, reports, caller_, locals, loops
  <1>11. CASE Destroy
    BY <1>0, <1>11 DEF Destroy, Rendezvous, CurrentBatchOnly, CheckedIn, Settled, Outside, CallerAt, WorkerAt,
       plans, reports, caller_, locals, loops
  <1>12. CASE NotifyStop
    BY <1>0, <1>12 DEF NotifyStop, Woken, Rendezvous, CurrentBatchOnly, CheckedIn, Settled, Outside, CallerAt, WorkerAt,
       plans, reports, caller_, locals, loops
  <1>13. CASE Join
    BY <1>0, <1>13 DEF Join, Rendezvous, CurrentBatchOnly, CheckedIn, Settled, Outside, CallerAt, WorkerAt,
       plans, reports, caller_, locals, loops
  <1>14. ASSUME NEW w \in Workers, WaitForWork(w) PROVE Rendezvous'
    <2> USE <1>14 DEF WaitForWork
    <2>1. CASE stopping
      BY <1>0, <2>1 DEF Rendezvous, CurrentBatchOnly, CheckedIn, Settled, Outside, CallerAt, WorkerAt,
         plans, reports, caller_, locals, loops
    <2>2. CASE ~stopping /\ seen[w] = generation
      <3>1. CheckedIn' = CheckedIn
        BY <1>0, <2>2 DEF CheckedIn, plans, locals
      <3> QED
        BY <1>0, <2>2, <3>1 DEF Rendezvous, CurrentBatchOnly, CheckedIn, Settled, Outside, CallerAt, WorkerAt,
           plans, reports, caller_, locals, loops
    <2>3. CASE ~stopping /\ seen[w] # generation
      <3>1. CheckedIn' = CheckedIn
        BY <1>0, <2>3 DEF CheckedIn, plans
      <3>2. ~Settled
        BY <2>3 DEF Rendezvous, CheckedIn
      <3>3. CurrentBatchOnly'
        BY <1>0, <2>3 DEF Rendezvous, CurrentBatchOnly, plans, Outside
      <3> QED
        BY <1>0, <2>3, <3>1, <3>2, <3>3 DEF Rendezvous, Settled,
           plans, reports, caller_, Outside
    <2> QED  BY <2>1, <2>2, <2>3
  <1>15. ASSUME NEW w \in Workers, WorkerWakesSpuriously(w) PROVE Rendezvous'
    BY <1>0, <1>15 DEF WorkerWakesSpuriously, Rendezvous, CurrentBatchOnly, CheckedIn, Settled, Outside, CallerAt, WorkerAt,
       plans, reports, caller_, locals, loops
  <1>16. ASSUME NEW w \in Workers, Snapshot(w) PROVE Rendezvous'
    BY <1>0, <1>16 DEF Snapshot, Rendezvous, CurrentBatchOnly, CheckedIn, Settled, Outside, CallerAt, WorkerAt,
       plans, reports, caller_, locals, loops
  <1>17. ASSUME NEW w \in Workers, Check(w) PROVE Rendezvous'
    BY <1>0, <1>17 DEF Check, Rendezvous, CurrentBatchOnly, CheckedIn, Settled, Outside, CallerAt, WorkerAt,
       plans, reports, caller_, locals, loops
  <1>18. ASSUME NEW w \in Workers, Claim(w) PROVE Rendezvous'
    BY <1>0, <1>18 DEF Claim, Rendezvous, CurrentBatchOnly, CheckedIn, Settled, Outside, CallerAt, WorkerAt,
       plans, reports, caller_, locals, loops
  <1>19. ASSUME NEW w \in Workers, Refill(w) PROVE Rendezvous'
    BY <1>0, <1>19 DEF Refill, Rendezvous, CurrentBatchOnly, CheckedIn, Settled, Outside, CallerAt, WorkerAt,
       plans, reports, caller_, locals, loops
  <1>20. ASSUME NEW w \in Workers, Hash(w) PROVE Rendezvous'
    BY <1>0, <1>20 DEF Hash, Rendezvous, CurrentBatchOnly, CheckedIn, Settled, Outside, CallerAt, WorkerAt,
       plans, reports, caller_, locals, loops
  <1>21. ASSUME NEW w \in Workers, Report(w) PROVE Rendezvous'
    <2>0. pc[w] \notin Outside  BY <1>21 DEF Report, Outside
    <2>1. /\ ~stopping
          /\ generation > 0
          /\ seen[w] = generation
          /\ ~Settled
          /\ w \notin CheckedIn
      BY <2>0, InBatch
    <2>2. CheckedIn' = CheckedIn \cup {w}
      BY <1>0, <1>21, <2>1 DEF Report, CheckedIn, plans
    <2>3. Cardinality(CheckedIn') = Cardinality(CheckedIn) + 1
      BY <2>1, <2>2, CheckedInFinite, FS_AddElement
    <2>4. completed' = Cardinality(CheckedIn')
      BY <1>21, <2>1, <2>3 DEF Report, Rendezvous
    <2>5. CurrentBatchOnly'
      BY <1>0, <1>21 DEF Report, Rendezvous, CurrentBatchOnly, plans, Outside
    <2> QED
      BY <1>0, <1>21, <2>1, <2>4, <2>5
      DEF Report, CallerAfterReport, Rendezvous, Settled, plans, Outside, CallerAt
  <1>22. CASE UNCHANGED vars
    BY <1>22 DEF vars, Rendezvous, CurrentBatchOnly, CheckedIn, Settled, Outside, CallerAt, WorkerAt,
       plans, reports, caller_, locals, loops
  <1> QED
    BY <1>1, <1>2, <1>3, <1>4, <1>5, <1>6, <1>7, <1>8, <1>9, <1>10, <1>11, <1>12, <1>13, <1>14, <1>15, <1>16, <1>17, <1>18, <1>19, <1>20, <1>21, <1>22
    DEF Next, CallerStep, RunStep, StopStep, WorkerStep, Environment, Terminated

----------------------------------------------------------------------------
(* The theorems.                                                           *)

(* Every variable keeps its type, `completed' counts the workers that have *)
(* checked in, and the caller moves on when all have, whatever the         *)
(* requests and the schedule.                                              *)
THEOREM SynchronisedHolds == Spec => []Synchronised
  <1>1. Init => Synchronised
    BY InitType, InitRendezvous DEF Synchronised
  <1>2. Synchronised /\ [Next]_vars => Synchronised'
    BY NextType, NextRendezvous DEF Synchronised
  <1> QED  BY <1>1, <1>2, PTL DEF Spec

(* The caller writes a plan, sums the counts and merges the results only   *)
(* while every worker is outside the batch: the accesses run makes without *)
(* the mutex are free of races.                                            *)
THEOREM HandoverHolds == Spec => []Handover
  <1>1. Synchronised => Handover
    BY DEF Synchronised, Rendezvous, Handover, Settled, CheckedIn, Outside
  <1> QED  BY <1>1, SynchronisedHolds, PTL

(* A worker inside a batch carries the header, the target and the stop     *)
(* pointer of the published batch, never those of an earlier one.          *)
THEOREM CurrentBatchOnlyHolds == Spec => []CurrentBatchOnly
  <1>1. Synchronised => CurrentBatchOnly
    BY DEF Synchronised, Rendezvous
  <1> QED  BY <1>1, SynchronisedHolds, PTL
=============================================================================
