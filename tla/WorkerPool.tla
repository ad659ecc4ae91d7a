------------------------------ MODULE WorkerPool ------------------------------
(***************************************************************************)
(* The persistent CPU worker pool (src/cpu/cpu_worker_pool.cpp,            *)
(* WorkerPool::Impl).  One caller thread publishes a batch under the pool  *)
(* mutex, bumps `generation' and wakes the workers.  Every worker copies   *)
(* part of the plan under the mutex, reads the rest of it without, hashes  *)
(* its fixed slice or refills small chunks from the shared cursor, and     *)
(* checks in.  The caller waits for all of them, running a service         *)
(* callback every 10 ms, and then reads the results without the mutex.     *)
(*                                                                         *)
(* A critical section of the code is one action.  Every access the code    *)
(* makes without the mutex (the cursor, the stop flag, share_batch,        *)
(* work_limit and batch_start, the merging of the results) is a step of    *)
(* its own.  Condition variables are explicit: a thread whose predicate is *)
(* false sleeps until it is notified, times out or wakes spuriously.       *)
(***************************************************************************)
EXTENDS Integers, FiniteSets

CONSTANTS
    Threads,      \* size of the pool, at least 1
    Lanes,        \* nonces hashed together: 1, 2 or 4
    NonceSpace,   \* number of nonces, 2^32 in the code
    ShareWork,    \* share_work: the YERBAS_CPU_WORKSHARE switch
    Keys,         \* header keys: the first 76 bytes of a header
    Targets,      \* share targets
    Solutions,    \* [Keys \X Targets -> SUBSET Nonces]: the nonces that meet it
    Requests,     \* the calls of run the caller may make
    MaxRuns,      \* bound on the number of batches, for model checking
    None          \* no header key yet

Workers == 0 .. Threads - 1
Nonces  == 0 .. NonceSpace - 1

(* The arguments of a call of run: the header without its nonce, the       *)
(* target, the first nonce, the nonces per thread, whether a stop flag and *)
(* whether a service callback is passed, whether throughput is learnt      *)
(* (tuning_measurement_mode is off and runtime_learning_enabled).          *)
Request == [key: Keys, target: Targets, start: Nonces, count: Nat,
            stop: BOOLEAN, service: BOOLEAN, learning: BOOLEAN]

(* What the plan of a batch holds: base_header, target_le, batch_start,    *)
(* work_limit, share_batch, stop_flag, assigned_starts, assigned_counts.   *)
Plan == [key: Keys, target: Targets, start: Nonces, limit: Nat,
         share: BOOLEAN, stop: BOOLEAN,
         starts: [Workers -> Nonces], sizes: [Workers -> Nat]]

(* What a worker copies of it under the mutex, beside its slice.           *)
Job == [key: Keys, target: Targets, stop: BOOLEAN]

ASSUME PoolAssumption ==
    /\ Threads \in Nat \ {0}
    /\ Lanes \in Nat \ {0}
    /\ NonceSpace \in Nat \ {0}
    /\ ShareWork \in BOOLEAN
    /\ Solutions \in [Keys \X Targets -> SUBSET Nonces]
    /\ Requests \subseteq Request
    /\ \A r \in Requests : Threads * r.count <= NonceSpace
    /\ MaxRuns \in Nat
    /\ None \notin Keys
    /\ None \notin Plan

VARIABLES
    \* Written under the mutex.
    stopping, generation, completed, results, counts,
    plan,           \* the published batch, see Plan below
    activeKey,      \* active_header_key, None until active_target_valid
    activeTarget,   \* active_target
    \* Atomics.
    nextWork,       \* next_work, the shared cursor
    cancel,         \* the flag the caller's stop pointer designates
    hashesDone,     \* last_completed_hashes
    \* The caller's stack.
    caller,         \* where the caller is in run or in the destructor
    request,        \* its arguments
    serviceError,   \* the callback threw
    learnt,         \* this run recorded its throughput
    at, sum, merged,\* the loops over the workers' reports
    answer,         \* how the last run ended
    \* The workers' stacks.
    pc, seen, job, participating, start, count, offset, i, found, hashes,
    \* History: the nonces each worker hashed in the current batch.
    hashed

plans   == <<stopping, generation, plan, activeKey, activeTarget>>
reports == <<completed, results, counts>>
loops   == <<at, sum, merged>>
caller_ == <<caller, request, serviceError, learnt, loops, answer, hashesDone>>
locals  == <<seen, job, participating, start, count, offset, i, found, hashes>>
vars    == <<plans, reports, nextWork, cancel, caller_, pc, locals, hashed>>

CallerAt == {"idle", "notify", "await", "blocked", "serve", "account",
             "learn", "merge", "stopNotify", "join", "gone"}
WorkerAt == {"wait", "asleep", "snapshot", "check", "claim", "refill",
             "hash", "report", "exited"}

(* A worker outside the batch: between two batches, or gone.               *)
Outside == {"wait", "asleep", "exited"}

(* Every variable keeps its type, part by part: what the caller and the    *)
(* workers share, the caller's stack, the workers' stacks.                 *)
SharedTypeOK ==
    /\ stopping \in BOOLEAN
    /\ generation \in Nat
    /\ completed \in Nat
    /\ results \in [Workers -> SUBSET Nonces]
    /\ counts \in [Workers -> Nat]
    /\ plan \in Plan \cup {None}
    /\ activeKey \in Keys \cup {None}
    /\ activeKey = None => activeTarget = None
    /\ activeKey # None => activeTarget \in Targets
    /\ nextWork \in Nat
    /\ cancel \in BOOLEAN

CallerTypeOK ==
    /\ caller \in CallerAt
    /\ request \in Requests \cup {None}
    /\ serviceError \in BOOLEAN
    /\ learnt \in BOOLEAN
    /\ at \in 0 .. Threads
    /\ sum \in Nat
    /\ merged \in SUBSET Nonces
    /\ hashesDone \in Nat
    /\ answer \in [kind: {"none", "returned", "threw"},
                   candidates: SUBSET Nonces]

WorkerTypeOK ==
    /\ pc \in [Workers -> WorkerAt]
    /\ seen \in [Workers -> Nat]
    /\ job \in [Workers -> Job \cup {None}]
    /\ participating \in [Workers -> BOOLEAN]
    /\ start \in [Workers -> Nonces]
    /\ count \in [Workers -> Nat]
    /\ offset \in [Workers -> Nat]
    /\ i \in [Workers -> Nat]
    /\ found \in [Workers -> SUBSET Nonces]
    /\ hashes \in [Workers -> Nat]
    /\ hashed \in [Workers -> SUBSET Nonces]

TypeOK == SharedTypeOK /\ CallerTypeOK /\ WorkerTypeOK

----------------------------------------------------------------------------
(* The plan of a batch.                                                    *)

(* Mutant: the start of a slice is kept in 64 bits and never wraps.        *)
MutNonceAfter(s, n) == s + n

(* Nonces are uint32: the n-th one after s wraps.                          *)
NonceAfter(s, n) == (s + n) % NonceSpace

Smaller(a, b) == IF a < b THEN a ELSE b

(* The fixed slices: total / active nonces each, one more for the first    *)
(* total % active workers; the others stay idle.                           *)
SliceSize(total, active, w) ==
    IF w >= active THEN 0
    ELSE (total \div active) + (IF w < total % active THEN 1 ELSE 0)

SliceOffset(total, active, w) ==
    IF w >= active THEN 0
    ELSE w * (total \div active) + Smaller(w, total % active)

(* The smallest fixed slice worth refilling from the shared cursor.        *)
RefillThreshold == 8

SharesWork(total, active) ==
    ShareWork /\ active > 1 /\ (total \div active) >= RefillThreshold

(* Mutant: every batch uses the target it is called with.                  *)
MutPinnedTarget(r) == r.target

(* The target of a batch: pinned when its header key was first seen.       *)
PinnedTarget(r) == IF activeKey = r.key THEN activeTarget ELSE r.target

(* How many workers the rotation plan lets work on this batch: all of them *)
(* unless live throughput is being learnt (module RotationPlan).           *)
ActiveChoices(r) == IF r.learning THEN 1 .. Threads ELSE {Threads}

PlanFor(r, active) ==
    LET total == Threads * r.count
    IN  [key    |-> r.key,
         target |-> PinnedTarget(r),
         start  |-> r.start,
         limit  |-> total,
         share  |-> SharesWork(total, active),
         stop   |-> r.stop,
         starts |-> [w \in Workers |->
                        NonceAfter(r.start, SliceOffset(total, active, w))],
         sizes  |-> [w \in Workers |-> SliceSize(total, active, w)]]

(* The nonces of the published batch.                                      *)
BatchNonces == {NonceAfter(plan.start, n) : n \in 0 .. plan.limit - 1}

----------------------------------------------------------------------------
(* The caller.                                                             *)

(* run, its first critical section: pin the target, plan the slices, reset *)
(* the reports, publish the next generation.  The caller's stop flag may   *)
(* be set before the batch starts.                                         *)
Begin ==
    /\ caller = "idle"
    /\ generation < MaxRuns
    /\ \E r \in Requests, preset \in BOOLEAN : \E active \in ActiveChoices(r) :
          /\ request' = r
          /\ cancel' = preset
          /\ plan' = PlanFor(r, active)
          /\ activeKey' = r.key
          /\ activeTarget' = PinnedTarget(r)
    /\ nextWork' = 0
    /\ completed' = 0
    /\ results' = [w \in Workers |-> {}]
    /\ counts' = [w \in Workers |-> 0]
    /\ generation' = generation + 1
    /\ serviceError' = FALSE
    /\ learnt' = FALSE
    /\ at' = 0
    /\ sum' = 0
    /\ merged' = {}
    /\ hashed' = [w \in Workers |-> {}]
    /\ caller' = "notify"
    /\ UNCHANGED <<stopping, hashesDone, answer, pc, locals>>

(* Mutant: notify_one instead of notify_all.                               *)
MutWoken ==
    LET asleep == {w \in Workers : pc[w] = "asleep"}
    IN  IF asleep = {} THEN pc
        ELSE [pc EXCEPT ![CHOOSE w \in asleep : TRUE] = "wait"]

(* work_ready.notify_all: the workers asleep re-evaluate their predicate.  *)
Woken == [w \in Workers |-> IF pc[w] = "asleep" THEN "wait" ELSE pc[w]]

NotifyWorkers ==
    /\ caller = "notify"
    /\ pc' = Woken
    /\ caller' = "await"
    /\ UNCHANGED <<plans, reports, nextWork, cancel, request, serviceError,
                   learnt, loops, answer, hashesDone, locals, hashed>>

(* Mutant: the barrier opens one worker early.                             *)
MutEverybody == completed >= Threads - 1

(* The predicate of all_done.                                              *)
Everybody == completed = Threads

(* all_done.wait or wait_for, the predicate evaluated under the mutex.     *)
Await ==
    /\ caller = "await"
    /\ caller' = IF Everybody THEN "account" ELSE "blocked"
    /\ UNCHANGED <<plans, reports, nextWork, cancel, request, serviceError,
                   learnt, loops, answer, hashesDone, pc, locals, hashed>>

(* wait_for gives up after 10 ms: the callback runs without the mutex.     *)
(* Once the callback has thrown, the wait has no timeout any more.         *)
Timeout ==
    /\ caller = "blocked"
    /\ request.service
    /\ ~serviceError
    /\ caller' = IF Everybody THEN "await" ELSE "serve"
    /\ UNCHANGED <<plans, reports, nextWork, cancel, request, serviceError,
                   learnt, loops, answer, hashesDone, pc, locals, hashed>>

CallerWakesSpuriously ==
    /\ caller = "blocked"
    /\ caller' = "await"
    /\ UNCHANGED <<plans, reports, nextWork, cancel, request, serviceError,
                   learnt, loops, answer, hashesDone, pc, locals, hashed>>

(* The callback: it may cancel the batch, it may throw, it may do both.    *)
Service ==
    /\ caller = "serve"
    /\ \E stop, throw \in BOOLEAN :
          /\ cancel' = (cancel \/ stop)
          /\ serviceError' = throw
    /\ caller' = "await"
    /\ UNCHANGED <<plans, reports, nextWork, request, learnt, loops, answer,
                   hashesDone, pc, locals, hashed>>

(* Another thread raises the stop flag (Ctrl+C) during the batch.          *)
RequestStop ==
    /\ caller \notin {"idle", "stopNotify", "join", "gone"}
    /\ ~cancel
    /\ cancel' = TRUE
    /\ UNCHANGED <<plans, reports, nextWork, caller_, pc, locals, hashed>>

(* Sum the reported hash counts one by one, without the mutex; then        *)
(* publish the sum and rethrow what the callback threw.                    *)
Account ==
    /\ caller = "account"
    /\ \/ /\ at < Threads
          /\ sum' = sum + counts[at]
          /\ at' = at + 1
          /\ UNCHANGED <<caller, answer, hashesDone, merged>>
       \/ /\ at = Threads
          /\ hashesDone' = sum
          /\ at' = 0
          /\ IF serviceError
             THEN /\ caller' = "idle"
                  /\ answer' = [kind |-> "threw", candidates |-> {}]
             ELSE /\ caller' = "learn"
                  /\ UNCHANGED answer
          /\ UNCHANGED <<sum, merged>>
    /\ UNCHANGED <<plans, reports, nextWork, cancel, request, serviceError,
                   learnt, pc, locals, hashed>>

(* Mutant: the stop flag is not consulted before learning.                 *)
MutWasStopped == FALSE

WasStopped == request.stop /\ cancel

(* The throughput of the batch is recorded unless it was stopped.          *)
Learn ==
    /\ caller = "learn"
    /\ learnt' = (request.learning /\ ~WasStopped)
    /\ caller' = "merge"
    /\ UNCHANGED <<plans, reports, nextWork, cancel, request, serviceError,
                   loops, answer, hashesDone, pc, locals, hashed>>

(* Concatenate the workers' candidates one by one, without the mutex, and  *)
(* return them.                                                            *)
Merge ==
    /\ caller = "merge"
    /\ \/ /\ at < Threads
          /\ merged' = merged \cup results[at]
          /\ at' = at + 1
          /\ UNCHANGED <<caller, answer>>
       \/ /\ at = Threads
          /\ answer' = [kind |-> "returned", candidates |-> merged]
          /\ caller' = "idle"
          /\ UNCHANGED <<at, merged>>
    /\ UNCHANGED <<plans, reports, nextWork, cancel, request, serviceError,
                   learnt, sum, hashesDone, pc, locals, hashed>>

(* The destructor: raise stopping under the mutex, wake everyone, join.    *)
Destroy ==
    /\ caller = "idle"
    /\ stopping' = TRUE
    /\ generation' = generation + 1
    /\ caller' = "stopNotify"
    /\ UNCHANGED <<plan, activeKey, activeTarget, reports, nextWork, cancel,
                   request, serviceError, learnt, loops, answer, hashesDone, pc,
                   locals, hashed>>

NotifyStop ==
    /\ caller = "stopNotify"
    /\ pc' = Woken
    /\ caller' = "join"
    /\ UNCHANGED <<plans, reports, nextWork, cancel, request, serviceError,
                   learnt, loops, answer, hashesDone, locals, hashed>>

Join ==
    /\ caller = "join"
    /\ \A w \in Workers : pc[w] = "exited"
    /\ caller' = "gone"
    /\ UNCHANGED <<plans, reports, nextWork, cancel, request, serviceError,
                   learnt, loops, answer, hashesDone, pc, locals, hashed>>

----------------------------------------------------------------------------
(* A worker.                                                               *)

(* work_ready.wait: leave, take the new batch, or sleep.  The header, the  *)
(* target, the slice and the stop pointer are copied under the mutex.      *)
WaitForWork(w) ==
    /\ pc[w] = "wait"
    /\ \/ /\ stopping
          /\ pc' = [pc EXCEPT ![w] = "exited"]
          /\ UNCHANGED locals
       \/ /\ ~stopping
          /\ seen[w] # generation
          /\ pc' = [pc EXCEPT ![w] = "snapshot"]
          /\ seen' = [seen EXCEPT ![w] = generation]
          /\ job' = [job EXCEPT ![w] = [key |-> plan.key,
                                        target |-> plan.target,
                                        stop |-> plan.stop]]
          /\ start' = [start EXCEPT ![w] = plan.starts[w]]
          /\ count' = [count EXCEPT ![w] = plan.sizes[w]]
          /\ UNCHANGED <<participating, offset, i, found, hashes>>
       \/ /\ ~stopping
          /\ seen[w] = generation
          /\ pc' = [pc EXCEPT ![w] = "asleep"]
          /\ UNCHANGED locals
    /\ UNCHANGED <<plans, reports, nextWork, cancel, caller_, hashed>>

WorkerWakesSpuriously(w) ==
    /\ pc[w] = "asleep"
    /\ pc' = [pc EXCEPT ![w] = "wait"]
    /\ UNCHANGED <<plans, reports, nextWork, cancel, caller_, locals, hashed>>

(* share_batch is read without the mutex.                                  *)
Snapshot(w) ==
    /\ pc[w] = "snapshot"
    /\ participating' = [participating EXCEPT ![w] = plan.share /\ count[w] # 0]
    /\ pc' = [pc EXCEPT ![w] = IF participating'[w] THEN "check" ELSE "hash"]
    /\ UNCHANGED <<plans, reports, nextWork, cancel, caller_, seen, job, start,
                   count, offset, i, found, hashes, hashed>>

Stopped(w) == job[w].stop /\ cancel

(* The head of the refill loop: a stopped worker claims nothing more.      *)
Check(w) ==
    /\ pc[w] = "check"
    /\ pc' = [pc EXCEPT ![w] = IF Stopped(w) THEN "report" ELSE "claim"]
    /\ UNCHANGED <<plans, reports, nextWork, cancel, caller_, locals, hashed>>

Advanced == nextWork + Lanes

(* next_work.fetch_add(chunk).                                             *)
Claim(w) ==
    /\ pc[w] = "claim"
    /\ offset' = [offset EXCEPT ![w] = nextWork]
    /\ nextWork' = Advanced
    /\ pc' = [pc EXCEPT ![w] = "refill"]
    /\ UNCHANGED <<plans, reports, cancel, caller_, seen, job, participating,
                   start, count, i, found, hashes, hashed>>

(* What a claim at an offset below the limit grants.                       *)
ChunkSize(off) == Smaller(Lanes, plan.limit - off)

(* work_limit and batch_start are read without the mutex.                  *)
Refill(w) ==
    /\ pc[w] = "refill"
    /\ \/ /\ offset[w] >= plan.limit
          /\ pc' = [pc EXCEPT ![w] = "report"]
          /\ UNCHANGED <<start, count, i>>
       \/ /\ offset[w] < plan.limit
          /\ start' = [start EXCEPT ![w] = NonceAfter(plan.start, offset[w])]
          /\ count' = [count EXCEPT ![w] = ChunkSize(offset[w])]
          /\ i' = [i EXCEPT ![w] = 0]
          /\ pc' = [pc EXCEPT ![w] = "hash"]
    /\ UNCHANGED <<plans, reports, nextWork, cancel, caller_, seen, job,
                   participating, offset, found, hashes, hashed>>

(* The lane group a worker hashes next.                                    *)
Group(w) == Smaller(Lanes, count[w] - i[w])
GroupNonces(w) == {NonceAfter(start[w], i[w] + n) : n \in 0 .. Group(w) - 1}

(* Mutant: candidates are tested against the caller's target argument.     *)
MutKept(w) == GroupNonces(w) \cap Solutions[<<job[w].key, request.target>>]

(* The candidates among them: hash_meets_target with the copied target.    *)
Kept(w) == GroupNonces(w) \cap Solutions[<<job[w].key, job[w].target>>]

(* One turn of the hashing loop: it ends at the end of the slice or chunk  *)
(* and when stopped, else it hashes a lane group and keeps the candidates. *)
Hash(w) ==
    /\ pc[w] = "hash"
    /\ \/ /\ i[w] >= count[w] \/ Stopped(w)
          /\ pc' = [pc EXCEPT ![w] = IF participating[w] THEN "check" ELSE "report"]
          /\ UNCHANGED <<i, found, hashes, hashed>>
       \/ /\ i[w] < count[w]
          /\ ~Stopped(w)
          /\ hashed' = [hashed EXCEPT ![w] = @ \cup GroupNonces(w)]
          /\ found' = [found EXCEPT ![w] = @ \cup Kept(w)]
          /\ hashes' = [hashes EXCEPT ![w] = @ + Group(w)]
          /\ i' = [i EXCEPT ![w] = @ + Group(w)]
          /\ UNCHANGED pc
    /\ UNCHANGED <<plans, reports, nextWork, cancel, caller_, seen, job,
                   participating, start, count, offset>>

(* Mutant: nobody notifies all_done.                                       *)
MutCallerAfterReport == caller

(* The last worker in notifies the caller, if it sleeps.                   *)
CallerAfterReport ==
    IF completed + 1 = Threads /\ caller = "blocked" THEN "await" ELSE caller

(* Check in; the last one in notifies the caller.  The locals of the batch *)
(* end here.                                                               *)
Report(w) ==
    /\ pc[w] = "report"
    /\ results' = [results EXCEPT ![w] = found[w]]
    /\ counts' = [counts EXCEPT ![w] = hashes[w]]
    /\ completed' = completed + 1
    /\ caller' = CallerAfterReport
    /\ pc' = [pc EXCEPT ![w] = "wait"]
    /\ job' = [job EXCEPT ![w] = None]
    /\ participating' = [participating EXCEPT ![w] = FALSE]
    /\ start' = [start EXCEPT ![w] = 0]
    /\ count' = [count EXCEPT ![w] = 0]
    /\ offset' = [offset EXCEPT ![w] = 0]
    /\ i' = [i EXCEPT ![w] = 0]
    /\ found' = [found EXCEPT ![w] = {}]
    /\ hashes' = [hashes EXCEPT ![w] = 0]
    /\ UNCHANGED <<plans, nextWork, cancel, request, serviceError, learnt,
                   loops, answer, hashesDone, seen, hashed>>

----------------------------------------------------------------------------
Init ==
    /\ stopping = FALSE
    /\ generation = 0
    /\ completed = 0
    /\ results = [w \in Workers |-> {}]
    /\ counts = [w \in Workers |-> 0]
    /\ plan = None
    /\ activeKey = None
    /\ activeTarget = None
    /\ nextWork = 0
    /\ cancel = FALSE
    /\ hashesDone = 0
    /\ caller = "idle"
    /\ request = None
    /\ serviceError = FALSE
    /\ learnt = FALSE
    /\ at = 0
    /\ sum = 0
    /\ merged = {}
    /\ answer = [kind |-> "none", candidates |-> {}]
    /\ pc = [w \in Workers |-> "wait"]
    /\ seen = [w \in Workers |-> 0]
    /\ job = [w \in Workers |-> None]
    /\ participating = [w \in Workers |-> FALSE]
    /\ start = [w \in Workers |-> 0]
    /\ count = [w \in Workers |-> 0]
    /\ offset = [w \in Workers |-> 0]
    /\ i = [w \in Workers |-> 0]
    /\ found = [w \in Workers |-> {}]
    /\ hashes = [w \in Workers |-> 0]
    /\ hashed = [w \in Workers |-> {}]

RunStep == \/ NotifyWorkers \/ Await \/ Timeout \/ Service
           \/ Account \/ Learn \/ Merge
StopStep == NotifyStop \/ Join
CallerStep == \/ Begin \/ RunStep \/ Destroy \/ StopStep

WorkerStep(w) == \/ WaitForWork(w) \/ Snapshot(w) \/ Check(w) \/ Claim(w)
                 \/ Refill(w) \/ Hash(w) \/ Report(w)

Environment == \/ RequestStop
               \/ CallerWakesSpuriously
               \/ \E w \in Workers : WorkerWakesSpuriously(w)

(* The pool is destroyed: nothing runs any more.                           *)
Terminated == caller = "gone" /\ UNCHANGED vars

Next == \/ CallerStep
        \/ \E w \in Workers : WorkerStep(w)
        \/ Environment
        \/ Terminated

Spec == Init /\ [][Next]_vars

(* The scheduler runs every runnable thread; the callback returns.  Nobody *)
(* is obliged to start a batch, to destroy the pool, to stop a batch or to *)
(* wake without reason.                                                    *)
Fairness == /\ WF_vars(RunStep) /\ WF_vars(StopStep)
            /\ \A w \in Workers : WF_vars(WorkerStep(w))

FairSpec == Spec /\ Fairness

----------------------------------------------------------------------------
(* Properties.                                                             *)

(* The unlocked reads of share_batch, work_limit and batch_start (lines    *)
(* 475-482) and the unlocked merge of the results (680-756) are safe only  *)
(* because no worker is inside a batch when the caller writes the next     *)
(* plan or reads the results.                                              *)
Handover ==
    caller \in {"idle", "account", "learn", "merge", "gone"} =>
        \A w \in Workers : pc[w] \in Outside

(* A worker inside a batch works on the published one: it never carries    *)
(* the header, the target or the stop pointer of an earlier batch, and it  *)
(* never reports into a later batch's results.                             *)
CurrentBatchOnly ==
    \A w \in Workers : pc[w] \notin Outside =>
        /\ seen[w] = generation
        /\ job[w] = [key |-> plan.key, target |-> plan.target, stop |-> plan.stop]

(* The workers that have checked in and not left again.                    *)
CheckedIn == {w \in Workers : pc[w] \in {"wait", "asleep"} /\ seen[w] = generation}

(* Between two batches, and while run reads the results.                   *)
Settled == caller \in {"idle", "account", "learn", "merge"}

(* Why Handover and CurrentBatchOnly hold: `completed' counts the workers  *)
(* that have checked in, so the caller leaves its wait only when everybody *)
(* has; a worker that has not is still waiting for the generation.         *)
Rendezvous ==
    /\ stopping <=> caller \in {"stopNotify", "join", "gone"}
    /\ \A w \in Workers : /\ seen[w] <= generation
                          /\ stopping => pc[w] \in Outside
                          /\ ~stopping => pc[w] # "exited"
    /\ CurrentBatchOnly
    /\ Settled => \A w \in Workers : w \in CheckedIn
    /\ generation = 0 => Settled
    /\ generation > 0 /\ ~stopping => /\ plan # None
                                      /\ completed = Cardinality(CheckedIn)

(* Synchronised: the inductive invariant of the pool. A step that reads a  *)
(* plan has one only because of who has checked in.                        *)
Synchronised == TypeOK /\ Rendezvous

AllHashed == UNION {hashed[w] : w \in Workers}

(* run returns exactly the nonces that were hashed and meet the target the *)
(* batch was published with, and last_hashes_done is the number of nonces  *)
(* hashed, for a batch that completes, is stopped half-way or throws.      *)
ExactAnswer ==
    /\ caller \in {"idle", "learn", "merge"} /\ generation > 0 =>
          hashesDone = Cardinality(AllHashed)
    /\ caller = "idle" /\ answer.kind = "returned" =>
          answer.candidates = AllHashed \cap Solutions[<<plan.key, plan.target>>]

(* Throughput is learnt from whole batches only: a stopped one would teach *)
(* the rotation policy a rate it never had.                                *)
LearntFromWholeBatch == learnt => AllHashed = BatchNonces

(* What the caller sees is the abstract batch: see module BatchHash.       *)
Phase ==
    CASE caller = "idle" -> "idle"
      [] caller \in {"notify", "await", "blocked", "serve", "account"} -> "running"
      [] caller \in {"learn", "merge"} -> "settled"
      [] caller \in {"stopNotify", "join", "gone"} -> "closed"

Batch ==
    IF plan = None THEN None
    ELSE [key |-> plan.key, target |-> plan.target, nonces |-> BatchNonces,
          stop |-> plan.stop]

Abstract == INSTANCE BatchHash WITH
    phase <- Phase, batch <- Batch, stop <- cancel, done <- AllHashed,
    pinned <- [key |-> activeKey, target |-> activeTarget],
    reported <- hashesDone, answer <- answer

(* The pool implements the abstract batch: it hashes each nonce at most    *)
(* once, all of them unless stopped, answers with the candidates among     *)
(* them, and reports what it hashed whichever way run ends.                *)
ImplementsBatchHash == Abstract!Spec

(* Every run returns to its caller: no wakeup is lost, also when the       *)
(* callback throws and the wait has no timeout left.                       *)
RunReturns == caller = "notify" ~> caller = "idle"

(* The destructor joins every worker.                                      *)
DestructorJoins == stopping ~> caller = "gone"
=============================================================================
