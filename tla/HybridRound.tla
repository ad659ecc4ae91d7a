------------------------------ MODULE HybridRound ------------------------------
(***************************************************************************)
(* A mining round of the Stratum thread (src/stratum/stratum.cpp,          *)
(* mine_hybrid_round, mine_gpu_batch, mine_cpu_batch, upload_gpu_job, and  *)
(* the part of run_session that calls them).                               *)
(*                                                                         *)
(* The thread launches a scan on every idle GPU, hashes CPU batches while  *)
(* they run, takes results as they come, relaunches, and submits what was  *)
(* found.  It reads the socket (pump_socket_messages) in the middle of all *)
(* of this, from the pool's callback too: a new job can replace the one    *)
(* being mined at each of these points, and everything the round captured  *)
(* when it began is then stale.                                            *)
(*                                                                         *)
(* A scan slot is atomic here (module ScanSlots, which GpuScan implements) *)
(* and the CPU batch is what module BatchHash promises: it hashes a part   *)
(* of its nonces and says how many.  A step of the thread goes from one    *)
(* read of the socket, or of a GPU, to the next.                           *)
(***************************************************************************)
EXTENDS Integers, FiniteSets

CONSTANTS
    NumGpus,          \* gpu_workers_.size()
    GpuSpace,         \* kHybridCpuStart: nonces below it are the GPUs'
    NonceSpace,       \* kNonceSpace
    Extranonces,      \* number of values of the extranonce2 field
    Sizes,            \* batch sizes of a scan
    CpuTotal,         \* nonces of a CPU batch: threads * per_thread
    MaxCandidates,    \* bound on the candidates of one scan or batch
    MaxGenerations,   \* bound on the number of jobs received
    Modes,            \* of "service", "blocking" (both hybrid) and "gpu"
    None

Gpus == 1 .. NumGpus

(* The header that is hashed is that of a job and an extranonce2.          *)
Header == [generation: Nat, extranonce2: 0 .. Extranonces - 1]

Taken == 0      \* a task that is completed; a batch size is never 0

(* The locals of a round, what it submits, and its CPU batch.              *)
Round == [generation: Nat, extranonce2: 0 .. Extranonces - 1,
          pending: [Gpus -> Sizes \cup {Taken}], stale: BOOLEAN]

Held == [header: Header, left: 1 .. MaxCandidates]

Batch == [header: Header, start: GpuSpace .. NonceSpace - 1,
          done: 0 .. CpuTotal, found: 0 .. MaxCandidates,
          cancel: BOOLEAN, ok: BOOLEAN]

ASSUME HybridRoundAssumption ==
    /\ NumGpus \in Nat \ {0}
    /\ GpuSpace \in Nat /\ NonceSpace \in Nat
    /\ GpuSpace < NonceSpace
    /\ Extranonces \in Nat /\ Extranonces > 1
    /\ Sizes # {} /\ Sizes \subseteq 1 .. GpuSpace \div NumGpus
    /\ CpuTotal \in 1 .. NonceSpace - GpuSpace
    /\ MaxCandidates \in Nat /\ MaxGenerations \in Nat
    /\ Modes \subseteq {"service", "blocking", "gpu"}
    /\ None \notin Header \cup Round \cup Held \cup Batch

VARIABLES
    mode,             \* configuration: hybrid with or without service, GPU only
    stop,             \* yerbas::stop_requested
    \* The session.
    generation,       \* MiningJob::generation; stands for job_.job_id too
    valid,            \* job_.valid, authorized and with a target
    extranonce2,      \* extranonce2_counter_, as the field shows it
    nonce,            \* nonce_, the next nonce of the CPU
    loaded,           \* generation gpu_job_loaded_ was set for, 0 for false
    \* The GPUs.
    header,           \* what upload_gpu_job put on the engine
    size,             \* engine->batch_size
    next,             \* next_nonce
    slot,             \* the scan in flight
    \* The Stratum thread.
    at,               \* where it is
    on,               \* the GPU consume_ready looks at
    round,            \* the locals of mine_hybrid_round
    held,             \* candidates being submitted
    batch,            \* the CPU batch that runs, or whose candidates are sent
    \* History.
    dead,             \* the socket has failed
    wrapped,          \* the CPU has wrapped its region since the upload
    covered,          \* CPU nonces below it are used up for this header
    balance           \* GPU hashes computed and not counted in hashes_done_

session == <<mode, generation, valid, extranonce2, nonce, loaded>>
gpus    == <<header, size, next, slot>>
thread  == <<at, on, round, held, batch>>
history == <<dead, wrapped, covered, balance>>
vars    == <<stop, session, gpus, thread, history>>

Idle == [state |-> "idle"]

Running(hdr, start, count) ==
    [state |-> "running", generation |-> hdr.generation, header |-> hdr,
     start |-> start, size |-> count]

Done(scan, candidates, failed) ==
    [state |-> "done", generation |-> scan.generation, header |-> scan.header,
     start |-> scan.start, size |-> scan.size, candidates |-> candidates,
     failed |-> failed]

(* The socket is read here: the thread may receive any messages first.     *)
PumpAt == {"session", "round", "candidate", "service", "afterCpu",
           "cpuCandidate"}

ThreadAt == PumpAt \cup
    {"upload", "begin", "consume", "gpuSubmit", "cpuStart", "cpu",
     "cpuSubmit", "drain", "reset", "stopped"}

Slots ==
    LET Nonces == 0 .. NonceSpace - 1
    IN  {Idle}
        \cup [state: {"running"}, generation: Nat, header: Header,
              start: Nonces, size: Sizes]
        \cup [state: {"done"}, generation: Nat, header: Header,
              start: Nonces, size: Sizes, candidates: 0 .. MaxCandidates,
              failed: BOOLEAN]

TypeOK ==
    /\ mode \in Modes /\ stop \in BOOLEAN
    /\ generation \in Nat /\ valid \in BOOLEAN
    /\ extranonce2 \in 0 .. Extranonces - 1
    /\ nonce \in 0 .. NonceSpace - 1
    /\ loaded \in {0, generation}
    /\ header \in [Gpus -> Header \cup {None}]
    /\ size \in [Gpus -> Sizes]
    /\ next \in [Gpus -> 0 .. GpuSpace]
    /\ slot \in [Gpus -> Slots]
    /\ at \in ThreadAt /\ on \in 1 .. NumGpus + 1
    /\ round \in Round \cup {None}
    /\ held \in Held \cup {None}
    /\ batch \in Batch \cup {None}
    /\ dead \in BOOLEAN /\ wrapped \in BOOLEAN
    /\ covered \in GpuSpace .. NonceSpace
    /\ balance \in Int
--------------------------------------------------------------------------------
(* Regions and headers                                                     *)

RegionStart(g) == (g - 1) * (GpuSpace \div NumGpus)

RegionEnd(g) ==
    IF g = NumGpus THEN GpuSpace - 1 ELSE g * (GpuSpace \div NumGpus) - 1

CurrentHeader == [generation |-> generation, extranonce2 |-> extranonce2]

(* Mutant: no new extranonce2, neither for a clean job nor at the wrap.    *)
MutNextExtranonce == extranonce2

NextExtranonce == (extranonce2 + 1) % Extranonces

(* Mutant: region_end is taken for the first nonce after the region.       *)
MutLeavesRegion(g, count) == next[g] + count - 1 > RegionEnd(g) + 1

(* A scan of `count` nonces would leave the region: it starts over.        *)
LeavesRegion(g, count) == next[g] + count - 1 > RegionEnd(g)

ScanStart(g, count) ==
    IF LeavesRegion(g, count) THEN RegionStart(g) ELSE next[g]

(* launch_next_scan and dispatch_gpu_scan: the ticket is stamped with the  *)
(* current generation, the engine hashes the header it was given.          *)
Launched(g, count) ==
    [Running(header[g], ScanStart(g, count), count)
        EXCEPT !.generation = generation]

(* Mutant: the checks after a read of the socket look at the flag only.    *)
MutStale == round.stale

Stale == round.stale \/ generation # round.generation

Remaining == \E g \in Gpus : round.pending[g] # Taken
--------------------------------------------------------------------------------
(* Elsewhere: the user, the GPUs' host threads, the CPU pool's workers     *)

RequestStop ==
    /\ ~stop
    /\ stop' = TRUE
    /\ UNCHANGED <<session, gpus, thread, history>>

FinishScan(g) ==
    /\ slot[g].state = "running"
    /\ \/ \E candidates \in 0 .. MaxCandidates :
             slot' = [slot EXCEPT ![g] = Done(@, candidates, FALSE)]
          /\ balance' = balance + slot[g].size
       \/ /\ slot' = [slot EXCEPT ![g] = Done(@, 0, TRUE)]
          /\ UNCHANGED balance
    /\ UNCHANGED <<stop, session, header, size, next, thread,
                   dead, wrapped, covered>>

PoolRunning == batch # None /\ at \notin {"cpuCandidate", "cpuSubmit"}

HashOne ==
    /\ PoolRunning
    /\ batch.done < CpuTotal
    /\ \E found \in {batch.found, batch.found + 1} :
          /\ found <= MaxCandidates
          /\ batch' = [batch EXCEPT !.done = @ + 1, !.found = found]
    /\ UNCHANGED <<stop, session, gpus, at, on, round, held, history>>
--------------------------------------------------------------------------------
(* Leaving the round                                                       *)

Leave(to) ==
    /\ at' = to
    /\ round' = None
    /\ held' = None
    /\ batch' = None
    /\ UNCHANGED on

(* An exception goes through the round and the session without a drain.    *)
Throw == Leave("reset")

(* Inside the pool's callback a failure is remembered and cancels the      *)
(* batch; outside it ends the round, which drains the GPUs.                *)
Fail ==
    IF PoolRunning
    THEN /\ batch' = [batch EXCEPT !.ok = FALSE, !.cancel = TRUE]
         /\ at' = "cpu"
         /\ held' = None
         /\ UNCHANGED <<on, round>>
    ELSE Leave(IF at = "session" THEN "reset" ELSE "drain")

Continue ==
    IF Remaining
    THEN at' = "round" /\ UNCHANGED <<on, round, held, batch>>
    ELSE Leave("session")
--------------------------------------------------------------------------------
(* What a read of the socket may bring                                     *)

(* mining.notify.  A clean job also takes the next extranonce2.            *)
Notify ==
    /\ at \in PumpAt
    /\ generation < MaxGenerations
    /\ generation' = generation + 1
    /\ valid' = TRUE
    /\ nonce' = GpuSpace
    /\ loaded' = 0
    /\ extranonce2' \in {extranonce2, NextExtranonce}
    /\ wrapped' = FALSE
    /\ covered' = GpuSpace
    /\ UNCHANGED <<mode, stop, gpus, thread, dead, balance>>

(* A mining.notify that does not decode: same generation, no valid job.    *)
BadNotify ==
    /\ at \in PumpAt
    /\ valid
    /\ valid' = FALSE
    /\ UNCHANGED <<mode, stop, generation, extranonce2, nonce, loaded,
                   gpus, thread, history>>

(* handle_message throws (a target that is too long): out of everything.   *)
PumpThrows ==
    /\ at \in PumpAt
    /\ Throw
    /\ UNCHANGED <<stop, session, gpus, history>>

SocketFails ==
    /\ at \in PumpAt \cup {"gpuSubmit", "cpuSubmit"}
    /\ dead' = TRUE
    /\ Fail
    /\ UNCHANGED <<stop, session, gpus, wrapped, covered, balance>>
--------------------------------------------------------------------------------
(* run_session                                                             *)

(* The reset at the head of a session.  The assignment of false to         *)
(* gpu_job_loaded_ keeps a flag set in the current generation.             *)
Reset ==
    /\ at = "reset"
    /\ valid' = FALSE
    /\ dead' = FALSE
    /\ at' = "session"
    /\ UNCHANGED <<stop, mode, generation, extranonce2, nonce, loaded, gpus,
                   on, round, held, batch, wrapped, covered, balance>>

SessionEnds ==
    /\ at = "session"
    /\ stop
    /\ at' = "stopped"
    /\ UNCHANGED <<stop, session, gpus, on, round, held, batch, history>>

(* The developer-fee window opens or closes: drain and reconnect.          *)
FeeSwitch ==
    /\ at = "session"
    /\ Leave("drain")
    /\ UNCHANGED <<stop, session, gpus, history>>

SessionPumped ==
    /\ at = "session"
    /\ valid
    /\ at' = IF loaded = 0 THEN "upload" ELSE "begin"
    /\ UNCHANGED <<stop, session, gpus, on, round, held, batch, history>>

(* drain_gpu_scans waits for every scan and abandons its result.           *)
Drainable == \A g \in Gpus : slot[g].state # "running"

(* Mutant: the drain leaves published results in their slots.              *)
MutDrained == slot

Drained == [g \in Gpus |-> Idle]

Drain ==
    /\ at = "drain"
    /\ Drainable
    /\ slot' = Drained
    /\ at' = "reset"
    /\ UNCHANGED <<stop, session, header, size, next, on, round, held, batch,
                   history>>

(* upload_gpu_job: the engines get the current header one by one; the last *)
(* statements run only if no engine threw.                                 *)
Upload ==
    /\ at = "upload"
    /\ Drainable
    /\ slot' = Drained
    /\ \E uploaded \in 0 .. NumGpus :
          /\ header' = [g \in Gpus |->
                           IF g <= uploaded THEN CurrentHeader ELSE header[g]]
          /\ next' = [g \in Gpus |->
                         IF g <= uploaded THEN RegionStart(g) ELSE next[g]]
          /\ size' \in [Gpus -> Sizes]
          /\ \A g \in Gpus : g > uploaded => size'[g] = size[g]
          /\ IF uploaded = NumGpus
             THEN at' = "begin" /\ loaded' = generation /\ nonce' = GpuSpace
             ELSE at' = "reset" /\ UNCHANGED <<loaded, nonce>>
    /\ UNCHANGED <<stop, mode, generation, valid, extranonce2, on, round,
                   held, batch, history>>
--------------------------------------------------------------------------------
(* mine_hybrid_round, mine_gpu_batch                                       *)

(* scan_active: the last round may have left a scan in flight.             *)
Active(g) == slot[g] # Idle

(* Mutant: launch_next_scan returns the learned batch.                     *)
MutTaskCount(g, launched) == size[g]

(* The hashes the task will be credited with: those of the scan launched,  *)
(* or the engine's batch size when a scan is in flight already.            *)
TaskCount(g, launched) == IF Active(g) THEN size[g] ELSE launched

BeginRound ==
    /\ at = "begin"
    /\ IF stop
       THEN at' = "session" /\ UNCHANGED <<gpus, round>>
       ELSE \E count \in [Gpus -> Sizes] :
               /\ \A g \in Gpus : \/ count[g] = size[g]
                                  \/ ~Active(g) /\ count[g] < size[g]
               /\ slot' = [g \in Gpus |-> IF Active(g)
                                          THEN slot[g]
                                          ELSE Launched(g, count[g])]
               /\ next' = [g \in Gpus |->
                              IF Active(g)
                              THEN next[g]
                              ELSE ScanStart(g, count[g]) + count[g]]
               /\ size' = count
               /\ round' = [generation |-> generation,
                            extranonce2 |-> extranonce2,
                            pending |-> [g \in Gpus |-> TaskCount(g, count[g])],
                            stale |-> FALSE]
               /\ at' = "round"
               /\ UNCHANGED header
    /\ UNCHANGED <<stop, session, on, held, batch, history>>

(* After a read of the socket: notice a new job, then look at the GPUs.    *)
LookAtGpus ==
    /\ at \in {"round", "service"}
    /\ round' = [round EXCEPT !.stale = Stale]
    /\ at' = "consume"
    /\ on' = 1
    /\ UNCHANGED <<stop, session, gpus, held, batch, history>>

(* Mutant: the round looks for results of tasks it has completed only.      *)
MutReady(g) == round.pending[g] = Taken /\ slot[g].state = "done"

(* gpu_scan_ready for a task that is not completed.                        *)
Ready(g) == round.pending[g] # Taken /\ slot[g].state = "done"

SkipGpu ==
    /\ at = "consume" /\ on \in Gpus
    /\ ~Ready(on)
    /\ on' = on + 1
    /\ UNCHANGED <<stop, session, gpus, at, round, held, batch, history>>

(* take_gpu_scan_result rethrows the error of the scan.                    *)
TakeError ==
    /\ at = "consume" /\ on \in Gpus
    /\ Ready(on) /\ slot[on].failed
    /\ slot' = [slot EXCEPT ![on] = Idle]
    /\ \E restored \in Sizes : size' = [size EXCEPT ![on] = restored]
    /\ Throw
    /\ UNCHANGED <<stop, session, header, next, history>>

(* result_stale                                                            *)
ResultStale(g) == Stale \/ slot[g].generation # round.generation

(* Mutant: a fresh result has its GPU relaunched although the miner stops. *)
MutRelaunches(g) == ~ResultStale(g)

Relaunches(g) == ~ResultStale(g) /\ ~stop

(* The result is counted, the batch size adapted.  A fresh result has its  *)
(* GPU relaunched at once and its candidates submitted.                    *)
Consume ==
    /\ at = "consume" /\ on \in Gpus
    /\ Ready(on) /\ ~slot[on].failed
    /\ balance' = balance - round.pending[on]
    /\ \E count \in Sizes :
          LET scan     == slot[on]
              relaunch == Relaunches(on)
              submits  == ~ResultStale(on) /\ scan.candidates > 0
          IN  /\ size' = [size EXCEPT ![on] = count]
              /\ slot' = [slot EXCEPT ![on] =
                             IF relaunch THEN Launched(on, count) ELSE Idle]
              /\ next' = IF relaunch
                         THEN [next EXCEPT ![on] = ScanStart(on, count) + count]
                         ELSE next
              /\ round' = [round EXCEPT !.pending[on] = Taken,
                                        !.stale = ~relaunch]
              /\ IF submits
                 THEN /\ held' = [header |-> scan.header,
                                  left |-> scan.candidates]
                      /\ at' = "candidate"
                      /\ UNCHANGED on
                 ELSE on' = on + 1 /\ UNCHANGED <<at, held>>
    /\ UNCHANGED <<stop, session, header, batch, dead, wrapped, covered>>

CandidatePumped ==
    /\ at = "candidate"
    /\ round' = [round EXCEPT !.stale = Stale]
    /\ IF Stale
       THEN held' = None /\ at' = "consume" /\ on' = on + 1
       ELSE at' = "gpuSubmit" /\ UNCHANGED <<held, on>>
    /\ UNCHANGED <<stop, session, gpus, batch, history>>

GpuSubmit ==
    /\ at = "gpuSubmit"
    /\ IF held.left = 1
       THEN held' = None /\ at' = "consume" /\ on' = on + 1
       ELSE /\ held' = [held EXCEPT !.left = @ - 1]
            /\ at' = "candidate"
            /\ UNCHANGED on
    /\ UNCHANGED <<stop, session, gpus, round, batch, history>>

(* consume_ready returns to the pool's callback, or to the round, which    *)
(* fills the time until the next result with a CPU batch.                  *)
CancelsBatch == stop \/ generation # batch.header.generation

ConsumeReturns ==
    /\ at = "consume"
    /\ on = NumGpus + 1
    /\ IF batch # None
       THEN /\ at' = "cpu"
            /\ batch' = [batch EXCEPT !.cancel = @ \/ CancelsBatch]
            /\ UNCHANGED <<on, round, held>>
       ELSE IF mode # "gpu" /\ Remaining /\ ~round.stale /\ ~stop
       THEN at' = "cpuStart" /\ UNCHANGED <<on, round, held, batch>>
       ELSE Continue
    /\ UNCHANGED <<stop, session, gpus, history>>
--------------------------------------------------------------------------------
(* mine_cpu_batch                                                          *)

CpuRegionStart == GpuSpace

(* The next batch would leave the nonce space.                             *)
CpuWraps(from) == from + CpuTotal > NonceSpace

CpuStart ==
    /\ at = "cpuStart"
    /\ LET from  == IF nonce < CpuRegionStart THEN CpuRegionStart ELSE nonce
           wraps == CpuWraps(from)
           start == IF wraps THEN CpuRegionStart ELSE from
       IN  IF stop
           THEN /\ at' = "afterCpu"
                /\ UNCHANGED <<extranonce2, nonce, batch, wrapped, covered>>
           ELSE /\ extranonce2' = IF wraps THEN NextExtranonce ELSE extranonce2
                /\ wrapped' = (wrapped \/ wraps)
                /\ IF valid
                   THEN /\ batch' = [header |-> [generation |-> generation,
                                                 extranonce2 |-> extranonce2'],
                                     start |-> start, done |-> 0, found |-> 0,
                                     cancel |-> FALSE, ok |-> TRUE]
                        /\ nonce' = (start + CpuTotal) % NonceSpace
                        /\ covered' = start + CpuTotal
                        /\ at' = "cpu"
                   ELSE /\ at' = "afterCpu"
                        /\ nonce' = start
                        /\ covered' = IF wraps THEN GpuSpace ELSE covered
                        /\ UNCHANGED batch
    /\ UNCHANGED <<stop, mode, generation, valid, loaded, gpus, on, round,
                   held, dead, balance>>

(* progress: the pool calls back, unless an earlier call failed.           *)
(* Mutant: a failure of the callback is not sticky.                        *)
MutMayService == TRUE

MayService == batch.ok

Service ==
    /\ at = "cpu"
    /\ mode = "service"
    /\ batch.done < CpuTotal
    /\ MayService
    /\ at' = "service"
    /\ UNCHANGED <<stop, session, gpus, on, round, held, batch, history>>

(* The pool returns; candidates of an old job are discarded.               *)
BatchReturns ==
    /\ at = "cpu"
    /\ batch.done = CpuTotal \/ batch.cancel
    /\ IF ~batch.ok
       THEN Leave("drain")
       ELSE /\ IF generation # batch.header.generation \/ batch.found = 0
               THEN batch' = None /\ at' = "afterCpu"
               ELSE at' = "cpuCandidate" /\ UNCHANGED batch
            /\ UNCHANGED <<on, round, held>>
    /\ UNCHANGED <<stop, session, gpus, history>>

(* The job is still the one the CPU hashed.                                *)
CpuCurrent == generation = batch.header.generation

CpuCandidatePumped ==
    /\ at = "cpuCandidate"
    /\ IF CpuCurrent
       THEN at' = "cpuSubmit" /\ UNCHANGED batch
       ELSE at' = "afterCpu" /\ batch' = None
    /\ UNCHANGED <<stop, session, gpus, on, round, held, history>>

CpuSubmit ==
    /\ at = "cpuSubmit"
    /\ IF batch.found = 1
       THEN batch' = None /\ at' = "afterCpu"
       ELSE batch' = [batch EXCEPT !.found = @ - 1] /\ at' = "cpuCandidate"
    /\ UNCHANGED <<stop, session, gpus, on, round, held, history>>

AfterCpuPumped ==
    /\ at = "afterCpu"
    /\ IF Remaining
       THEN /\ round' = [round EXCEPT !.stale = Stale]
            /\ at' = "round"
            /\ UNCHANGED <<on, held, batch>>
       ELSE Leave("session")
    /\ UNCHANGED <<stop, session, gpus, history>>
--------------------------------------------------------------------------------
Init ==
    /\ mode \in Modes /\ stop = FALSE
    /\ generation = 0 /\ valid = FALSE /\ extranonce2 = 0
    /\ nonce = GpuSpace /\ loaded = 0
    /\ header = [g \in Gpus |-> None]
    /\ size \in [Gpus -> Sizes]
    /\ next = [g \in Gpus |-> 0]
    /\ slot = [g \in Gpus |-> Idle]
    /\ at = "session" /\ on = 1
    /\ round = None /\ held = None /\ batch = None
    /\ dead = FALSE /\ wrapped = FALSE /\ covered = GpuSpace /\ balance = 0

(* What the thread does by itself, the socket bringing nothing.            *)
ThreadStep ==
    \/ Reset \/ SessionEnds \/ SessionPumped \/ Drain \/ Upload
    \/ BeginRound \/ LookAtGpus \/ SkipGpu \/ TakeError \/ Consume
    \/ CandidatePumped \/ GpuSubmit \/ ConsumeReturns
    \/ CpuStart \/ Service \/ BatchReturns \/ CpuCandidatePumped \/ CpuSubmit
    \/ AfterCpuPumped

Environment ==
    \/ RequestStop \/ Notify \/ BadNotify \/ PumpThrows \/ SocketFails
    \/ FeeSwitch

Next ==
    \/ ThreadStep \/ Environment \/ HashOne
    \/ \E g \in Gpus : FinishScan(g)

Spec == Init /\ [][Next]_vars

(* The threads are scheduled, the kernels return.  The pool, the user and  *)
(* the network owe nothing.                                                *)
FairSpec ==
    /\ Spec
    /\ WF_vars(ThreadStep)
    /\ WF_vars(HashOne)
    /\ \A g \in Gpus : WF_vars(FinishScan(g))
--------------------------------------------------------------------------------
(* Properties                                                              *)

(* What is about to be sent to the pool was hashed for the job the message *)
(* will name (submit_share reads job_ when it sends) and with the          *)
(* extranonce2 it will carry, however many jobs arrived in the meantime.   *)
(* A GPU share may carry another extranonce2 once the CPU has used up its  *)
(* half of the nonces and taken the next one without a new upload.         *)
SubmitsWhatWasHashed ==
    /\ at = "gpuSubmit" =>
          /\ held.header.generation = generation
          /\ held.header.extranonce2 = round.extranonce2 \/ wrapped
    /\ at = "cpuSubmit" => batch.header = CurrentHeader

(* The engines and the CPU work in disjoint parts of the nonce space: each *)
(* scan stays in its GPU's region, the CPU batch above all of them, whole  *)
(* batches included at the ends of the regions.                            *)
RegionsApart ==
    /\ \A g \in Gpus : slot[g] # Idle =>
          /\ slot[g].start >= RegionStart(g)
          /\ slot[g].start + slot[g].size - 1 <= RegionEnd(g)
    /\ batch # None =>
          /\ batch.start >= GpuSpace
          /\ batch.start + CpuTotal <= NonceSpace

(* The hashes of the scans whose results have not been taken.              *)
Uncollected ==
    {hash \in Gpus \X (1 .. GpuSpace) :
        LET scan == slot[hash[1]]
        IN  scan.state = "done" /\ ~scan.failed /\ hash[2] <= scan.size}

(* hashes_done_ is never credited with hashes no GPU has computed, over    *)
(* shortened scans, rounds that end early and results left behind.         *)
CountedWasComputed == balance >= Cardinality(Uncollected)

(* A round gives up its candidates as stale only for a reason: the job it  *)
(* mines has been replaced, or the miner is stopping.  In particular no    *)
(* scan of an earlier job makes a round stale that has just begun.         *)
StaleForAReason ==
    round # None /\ round.stale => generation # round.generation \/ stop

(* After a failure of the socket the session only winds down: the thread   *)
(* waits for the batch and the scans in flight, it reads, launches and     *)
(* submits nothing more.                                                   *)
SilentAfterFailure == dead => at \in {"cpu", "drain", "reset"}

(* The CPU never hashes a nonce twice under one header: a batch begins     *)
(* where the last one ended or the extranonce2 changes.  (A batch that     *)
(* ends exactly at the end of the nonce space is the exception: nonce_ is  *)
(* then 0, which is taken for a cursor below the CPU region.)              *)
CpuNoncesFresh ==
    [][batch = None /\ batch' # None /\ batch'.header = CurrentHeader
         => batch'.start >= covered \/ covered = NonceSpace]_vars

(* A stop request is honoured at the next decision: no CPU batch begins    *)
(* after it and no GPU whose result is taken is launched again.            *)
NothingStartsAfterStop ==
    [][stop => /\ batch' # None => batch # None
               /\ \A g \in Gpus : slot[g].state = "done"
                                     => slot'[g].state # "running"]_vars

(* A round ends, whatever the pool sends: the CPU batches it is filled     *)
(* with do not keep it from the GPU results it waits for, and a result is  *)
(* never waited for that no one will produce.                              *)
RoundReturns == (round # None) ~> (round = None)

(* "Work completed on an old job remains in total compute counters."       *)
(* (docs/development/HYBRID_COMPLETION_SERVICE.md:7)  Not so for a scan    *)
(* whose result a drain abandons, as the upload of the next job does.      *)
OldJobWorkCounted ==
    [][\A g \in Gpus :
          /\ slot[g].state = "done" /\ ~slot[g].failed
          /\ slot[g].generation # generation
          /\ slot'[g] # slot[g]
          => balance' = balance - slot[g].size]_vars
================================================================================
