-------------------------------- MODULE GpuScan --------------------------------
(***************************************************************************)
(* The hand-off between the Stratum thread, which schedules GPU scans, and *)
(* the host thread of each GPU, which runs them (src/stratum/stratum.cpp,  *)
(* struct GpuScanState, start_gpu_worker to take_gpu_scan_result,          *)
(* drain_gpu_scans, upload_gpu_job, stop_gpu_workers).                     *)
(*                                                                         *)
(* A GPU has one slot: the flags work_pending, busy and result_ready, the  *)
(* ticket of the scan (job generation, nonces, batch sizes) and its result.*)
(* The slot has a mutex and one condition variable that both threads wait  *)
(* on.  The engine (its uploaded job and its active batch size) is touched *)
(* by both threads WITHOUT the mutex: only the discipline of the calls     *)
(* keeps them apart.                                                       *)
(*                                                                         *)
(* A critical section is one action; so is every access to the engine.     *)
(* Which scans a mining round launches and what it does with the results   *)
(* is left open here: the scheduler may call in any order the code allows. *)
(***************************************************************************)
EXTENDS Integers

CONSTANTS
    NumGpus,      \* number of GPUs, at least 1
    Batches,      \* batch sizes the controller may pick
    Starts,       \* start nonces
    MaxJobs,      \* bound on the number of mining.notify, for model checking
    None          \* no scan

Gpus == 1 .. NumGpus

(* What dispatch_gpu_scan writes down about a scan: MiningJob::generation, *)
(* start_nonce, hash_count, learned_batch, transition_shaped.              *)
Ticket == [job: Nat, start: Starts, size: Batches, learned: Batches,
           shaped: BOOLEAN]

(* What the engine really hashed: its job, the start nonce it was given,   *)
(* its active batch size.                                                  *)
Scan == [job: Nat, start: Starts, size: Batches]

(* What take_gpu_scan_result returns, or rethrows.                         *)
ScanResult == [ticket: Ticket, result: Scan \cup {None}, error: BOOLEAN]

ASSUME GpuScanAssumption ==
    /\ NumGpus \in Nat \ {0}
    /\ Batches \subseteq Nat \ {0}
    /\ Batches # {}
    /\ MaxJobs \in Nat
    /\ None \notin Ticket
    /\ None \notin Scan
    /\ None \notin ScanResult
    /\ None \notin Starts

VARIABLES
    \* The slot of each GPU, under its mutex.
    stop, workPending, busy, resultReady,
    ticket,         \* the metadata of the last scan dispatched
    result,         \* candidates: what the scan that produced them hashed
    error,          \* the scan threw
    \* The engine of each GPU, without mutex.
    engineJob,      \* the generation of the uploaded job, 0 for none
    batch,          \* batch_size
    \* The host thread of each GPU.
    pc,
    startNonce,     \* the start nonce it picked up
    scanning,       \* what engine->scan works on
    \* The Stratum thread.
    sched,          \* where it is
    on,             \* the GPU it deals with
    generation,     \* MiningJob::generation
    jobValid,       \* job_.valid: mining is allowed
    jobLoaded,      \* the generation gpu_job_loaded_ was set for
    taken,          \* the ticket, result and error take_gpu_scan_result holds
    losing,         \* the drain ends the session, no upload follows
    \* History: the batch size the controller chose last for each GPU.
    chosen

slots    == <<stop, workPending, busy, resultReady, ticket, result, error>>
engines  == <<engineJob, batch, chosen>>
threads  == <<pc, startNonce, scanning>>
session  == <<generation, jobValid, jobLoaded>>
control  == <<sched, on, taken, losing>>
vars     == <<slots, engines, threads, session, control>>

ThreadAt == {"wait", "asleep", "begin", "scan", "notify", "exited"}
SchedAt  == {"free", "dispatch", "dispatchBlocked", "dispatchNotify",
             "take", "takeBlocked", "takeNotify", "restore", "adapt",
             "drain", "drainBlocked", "drainNotify", "upload",
             "stop", "stopNotify", "join", "gone"}

SlotTypeOK ==
    /\ stop \in [Gpus -> BOOLEAN]
    /\ workPending \in [Gpus -> BOOLEAN]
    /\ busy \in [Gpus -> BOOLEAN]
    /\ resultReady \in [Gpus -> BOOLEAN]
    /\ ticket \in [Gpus -> Ticket \cup {None}]
    /\ result \in [Gpus -> Scan \cup {None}]
    /\ error \in [Gpus -> BOOLEAN]

EngineTypeOK ==
    /\ engineJob \in [Gpus -> Nat]
    /\ batch \in [Gpus -> Batches]
    /\ chosen \in [Gpus -> Batches]
    /\ pc \in [Gpus -> ThreadAt]
    /\ startNonce \in [Gpus -> Starts \cup {None}]
    /\ scanning \in [Gpus -> Scan \cup {None}]

SchedTypeOK ==
    /\ sched \in SchedAt
    /\ on \in Gpus
    /\ generation \in Nat
    /\ jobValid \in BOOLEAN
    /\ jobLoaded \in Nat
    /\ taken \in ScanResult \cup {None}
    /\ losing \in BOOLEAN

(* Every variable keeps its type; a batch size is never 0, which           *)
(* set_active_batch_size refuses.                                          *)
TypeOK == SlotTypeOK /\ EngineTypeOK /\ SchedTypeOK

----------------------------------------------------------------------------
(* The host thread of GPU g.                                               *)

(* notify_all on the slot: its host thread re-evaluates its predicate.     *)
Woken(g) == IF pc[g] = "asleep" THEN [pc EXCEPT ![g] = "wait"] ELSE pc

(* Mutant: the thread stays for its last result to be taken.               *)
MutLeaves(g) == stop[g] /\ ~workPending[g] /\ ~resultReady[g]

Leaves(g) == stop[g] /\ ~workPending[g]

(* cv.wait, and the critical section that follows it: pick the scan up.    *)
WaitForWork(g) ==
    /\ pc[g] = "wait"
    /\ \/ /\ Leaves(g)
          /\ pc' = [pc EXCEPT ![g] = "exited"]
          /\ UNCHANGED <<workPending, busy, startNonce>>
       \/ /\ workPending[g]
          /\ startNonce' = [startNonce EXCEPT ![g] = ticket[g].start]
          /\ workPending' = [workPending EXCEPT ![g] = FALSE]
          /\ busy' = [busy EXCEPT ![g] = TRUE]
          /\ pc' = [pc EXCEPT ![g] = "begin"]
       \/ /\ ~workPending[g] /\ ~Leaves(g)
          /\ pc' = [pc EXCEPT ![g] = "asleep"]
          /\ UNCHANGED <<workPending, busy, startNonce>>
    /\ UNCHANGED <<stop, resultReady, ticket, result, error, engines, scanning,
                   session, control>>

WakesSpuriously(g) ==
    /\ pc[g] = "asleep"
    /\ pc' = [pc EXCEPT ![g] = "wait"]
    /\ UNCHANGED <<slots, engines, startNonce, scanning, session, control>>

(* engine->scan starts: it reads the job and the batch size.               *)
BeginScan(g) ==
    /\ pc[g] = "begin"
    /\ scanning' = [scanning EXCEPT ![g] =
          [job |-> engineJob[g], start |-> startNonce[g], size |-> batch[g]]]
    /\ pc' = [pc EXCEPT ![g] = "scan"]
    /\ UNCHANGED <<slots, engines, startNonce, session, control>>

(* engine->scan returns or throws; the result is published.                *)
Publish(g) ==
    /\ pc[g] = "scan"
    /\ \E threw \in BOOLEAN :
          /\ error' = [error EXCEPT ![g] = threw]
          /\ result' = [result EXCEPT ![g] = IF threw THEN None ELSE scanning[g]]
    /\ busy' = [busy EXCEPT ![g] = FALSE]
    /\ resultReady' = [resultReady EXCEPT ![g] = TRUE]
    /\ pc' = [pc EXCEPT ![g] = "notify"]
    /\ UNCHANGED <<stop, workPending, ticket, engines, startNonce, scanning,
                   session, control>>

(* Mutant: the scan thread forgets to notify.                              *)
MutSchedulerWoken(g) == sched

(* notify_all by the host thread: the scheduler, if it sleeps on this slot.*)
SchedulerWoken(g) ==
    CASE sched = "drainBlocked" /\ on = g -> "drain"
      [] sched = "dispatchBlocked" /\ on = g -> "dispatch"
      [] sched = "takeBlocked" /\ on = g -> "take"
      [] OTHER -> sched

NotifyResult(g) ==
    /\ pc[g] = "notify"
    /\ pc' = [pc EXCEPT ![g] = "wait"]
    /\ sched' = SchedulerWoken(g)
    /\ UNCHANGED <<slots, engines, startNonce, scanning, session, on, taken, losing>>

----------------------------------------------------------------------------
(* The Stratum thread: the session around the scans.                       *)

(* mining.notify, handled by a pump anywhere the thread is in control.     *)
Notify ==
    /\ sched = "free"
    /\ generation < MaxJobs
    /\ generation' = generation + 1
    /\ jobValid' = TRUE
    /\ UNCHANGED <<slots, engines, threads, jobLoaded, control>>

(* A malformed mining.notify, or run_session starts over: no mining before *)
(* the next job.  Scans in flight stay in flight.                          *)
LoseJob ==
    /\ sched = "free"
    /\ jobValid
    /\ jobValid' = FALSE
    /\ UNCHANGED <<slots, engines, threads, generation, jobLoaded, control>>

(* Mutant: the probe of a running scan forgets the published result.       *)
MutActive(g) == busy[g] \/ workPending[g]

(* scan_active.                                                            *)
Active(g) == busy[g] \/ workPending[g] \/ resultReady[g]

(* A round starts with the current job uploaded; it launches a scan on     *)
(* every GPU that has none.                                                *)
RoundLaunch(g) ==
    /\ sched = "free"
    /\ jobValid
    /\ jobLoaded = generation
    /\ ~Active(g)
    /\ on' = g
    /\ sched' = "dispatch"
    /\ UNCHANGED <<slots, engines, threads, session, taken, losing>>

----------------------------------------------------------------------------
(* dispatch_gpu_scan.                                                      *)

(* The predicate of its wait.                                              *)
SlotFree(g) == ~busy[g] /\ ~workPending[g] /\ ~resultReady[g]

(* transition_batch_for_worker and the opening hedge shorten a scan, never *)
(* below one hash nor above the learned batch.                             *)
Shapes(learned) == {b \in Batches : b <= learned}

Dispatch ==
    /\ sched = "dispatch"
    /\ \/ /\ ~SlotFree(on)
          /\ sched' = "dispatchBlocked"
          /\ UNCHANGED <<workPending, ticket, error, engines>>
       \/ /\ SlotFree(on)
          /\ \E size \in Shapes(batch[on]), start \in Starts :
                /\ batch' = [batch EXCEPT ![on] = size]
                /\ ticket' = [ticket EXCEPT ![on] =
                      [job |-> generation, start |-> start, size |-> size,
                       learned |-> batch[on], shaped |-> size < batch[on]]]
          /\ error' = [error EXCEPT ![on] = FALSE]
          /\ workPending' = [workPending EXCEPT ![on] = TRUE]
          /\ sched' = "dispatchNotify"
          /\ UNCHANGED <<engineJob, chosen>>
    /\ UNCHANGED <<stop, busy, resultReady, result, threads, session, on, taken,
                   losing>>

(* cv.notify_one.                                                          *)
DispatchNotify ==
    /\ sched = "dispatchNotify"
    /\ pc' = Woken(on)
    /\ sched' = "free"
    /\ UNCHANGED <<slots, engines, startNonce, scanning, session, on, taken, losing>>

----------------------------------------------------------------------------
(* gpu_scan_ready and take_gpu_scan_result.                                *)

(* A round consumes a result that is ready.                                *)
Poll(g) ==
    /\ sched = "free"
    /\ resultReady[g]
    /\ on' = g
    /\ sched' = "take"
    /\ UNCHANGED <<slots, engines, threads, session, taken, losing>>

Take ==
    /\ sched = "take"
    /\ \/ /\ ~resultReady[on]
          /\ sched' = "takeBlocked"
          /\ UNCHANGED <<resultReady, result, error, taken>>
       \/ /\ resultReady[on]
          /\ taken' = [ticket |-> ticket[on], result |-> result[on], error |-> error[on]]
          /\ result' = [result EXCEPT ![on] = None]
          /\ error' = [error EXCEPT ![on] = FALSE]
          /\ resultReady' = [resultReady EXCEPT ![on] = FALSE]
          /\ sched' = "takeNotify"
    /\ UNCHANGED <<stop, workPending, busy, ticket, engines, threads, session, on,
                   losing>>

TakeNotify ==
    /\ sched = "takeNotify"
    /\ pc' = Woken(on)
    /\ sched' = "restore"
    /\ UNCHANGED <<slots, engines, startNonce, scanning, session, on, taken, losing>>

(* Mutant: a shortened scan leaves its batch behind.                       *)
MutRestored == batch

(* After a shortened scan the engine goes back to the learned batch.       *)
Restored ==
    IF taken.ticket.shaped
    THEN [batch EXCEPT ![on] = taken.ticket.learned] ELSE batch

(* Then the error of the scan is rethrown: nobody drains, the session ends *)
(* and the other GPUs' scans stay in flight.                               *)
Restore ==
    /\ sched = "restore"
    /\ batch' = Restored
    /\ IF taken.error
       THEN /\ sched' = "free"
            /\ jobValid' = FALSE
            /\ taken' = None
       ELSE /\ sched' = "adapt"
            /\ UNCHANGED <<jobValid, taken>>
    /\ UNCHANGED <<slots, engineJob, chosen, threads, generation, jobLoaded, on, losing>>

(* Mutant: a result taken after a new job still launches the next scan.    *)
MutFresh == jobLoaded > 0

(* The result is of the round's job, and that is still the current one.    *)
Fresh == taken.ticket.job = generation /\ jobLoaded = generation

(* adapt_gpu_batch_after_scan may move the learned batch; it reads the     *)
(* engine's, so that has to be the learned one again.  The round then      *)
(* launches the next scan at once if the result is fresh, unless Ctrl+C.   *)
Adapt ==
    /\ sched = "adapt"
    /\ \/ UNCHANGED <<batch, chosen>>
       \/ \E b \in Batches : /\ batch' = [batch EXCEPT ![on] = b]
                             /\ chosen' = [chosen EXCEPT ![on] = b]
    /\ \/ sched' = "free"
       \/ Fresh /\ sched' = "dispatch"
    /\ taken' = None
    /\ UNCHANGED <<slots, engineJob, threads, session, on, losing>>

----------------------------------------------------------------------------
(* drain_gpu_scans and upload_gpu_job.                                     *)

(* The drain before an upload, when a new job is to be mined, or the drain *)
(* of a session that ends: the fee switch, a failed pump or submit.        *)
CallDrain ==
    /\ sched = "free"
    /\ \/ jobValid /\ jobLoaded # generation /\ losing' = FALSE
       \/ losing' = TRUE
    /\ on' = 1
    /\ sched' = "drain"
    /\ UNCHANGED <<slots, engines, threads, session, taken>>

(* Mutant: a scan that is pending but not yet picked up is not waited for. *)
MutDrainable(g) == resultReady[g] \/ ~busy[g]

(* The predicate of its wait.                                              *)
Drainable(g) == resultReady[g] \/ (~busy[g] /\ ~workPending[g])

(* One GPU after the other: wait for the scan in flight, drop its result.  *)
Drain ==
    /\ sched = "drain"
    /\ \/ /\ ~Drainable(on)
          /\ sched' = "drainBlocked"
          /\ UNCHANGED <<resultReady, result, error>>
       \/ /\ Drainable(on)
          /\ result' = [result EXCEPT ![on] = None]
          /\ error' = [error EXCEPT ![on] = FALSE]
          /\ resultReady' = [resultReady EXCEPT ![on] = FALSE]
          /\ sched' = "drainNotify"
    /\ UNCHANGED <<stop, workPending, busy, ticket, engines, threads, session, on,
                   taken, losing>>

DrainNotify ==
    /\ sched = "drainNotify"
    /\ pc' = Woken(on)
    /\ IF on < NumGpus
       THEN on' = on + 1 /\ sched' = "drain" /\ UNCHANGED jobValid
       ELSE /\ on' = 1
            /\ sched' = IF losing THEN "free" ELSE "upload"
            /\ jobValid' = (jobValid /\ ~losing)
    /\ UNCHANGED <<slots, engines, startNonce, scanning, generation, jobLoaded,
                   taken, losing>>

(* A condition variable may wake the scheduler without reason.             *)
SchedulerWakesSpuriously ==
    /\ sched \in {"drainBlocked", "dispatchBlocked", "takeBlocked"}
    /\ sched' = SchedulerWoken(on)
    /\ UNCHANGED <<slots, engines, threads, session, on, taken, losing>>

(* Upload the job to one engine after the other and seed its batch size;   *)
(* any of them may throw, which ends the session with the job not loaded.  *)
Upload ==
    /\ sched = "upload"
    /\ \/ /\ \E b \in Batches :
                /\ batch' = [batch EXCEPT ![on] = b]
                /\ chosen' = [chosen EXCEPT ![on] = b]
          /\ engineJob' = [engineJob EXCEPT ![on] = generation]
          /\ IF on < NumGpus
             THEN on' = on + 1 /\ UNCHANGED <<sched, jobLoaded>>
             ELSE on' = 1 /\ sched' = "free" /\ jobLoaded' = generation
          /\ UNCHANGED jobValid
       \/ /\ on' = 1
          /\ sched' = "free"
          /\ jobValid' = FALSE
          /\ UNCHANGED <<engines, jobLoaded>>
    /\ UNCHANGED <<slots, threads, generation, taken, losing>>

----------------------------------------------------------------------------
(* ~Client: stop_gpu_workers.                                              *)

CallStop ==
    /\ sched = "free"
    /\ on' = 1
    /\ sched' = "stop"
    /\ UNCHANGED <<slots, engines, threads, session, taken, losing>>

RaiseStop ==
    /\ sched = "stop"
    /\ stop' = [stop EXCEPT ![on] = TRUE]
    /\ sched' = "stopNotify"
    /\ UNCHANGED <<workPending, busy, resultReady, ticket, result, error, engines,
                   threads, session, on, taken, losing>>

StopNotify ==
    /\ sched = "stopNotify"
    /\ pc' = Woken(on)
    /\ IF on < NumGpus
       THEN on' = on + 1 /\ sched' = "stop"
       ELSE on' = 1 /\ sched' = "join"
    /\ UNCHANGED <<slots, engines, startNonce, scanning, session, taken, losing>>

Join ==
    /\ sched = "join"
    /\ pc[on] = "exited"
    /\ IF on < NumGpus
       THEN on' = on + 1 /\ UNCHANGED sched
       ELSE on' = 1 /\ sched' = "gone"
    /\ UNCHANGED <<slots, engines, threads, session, taken, losing>>

----------------------------------------------------------------------------

Init ==
    /\ stop = [g \in Gpus |-> FALSE]
    /\ workPending = [g \in Gpus |-> FALSE]
    /\ busy = [g \in Gpus |-> FALSE]
    /\ resultReady = [g \in Gpus |-> FALSE]
    /\ ticket = [g \in Gpus |-> None]
    /\ result = [g \in Gpus |-> None]
    /\ error = [g \in Gpus |-> FALSE]
    /\ engineJob = [g \in Gpus |-> 0]
    /\ batch \in [Gpus -> Batches]
    /\ chosen = batch
    /\ pc = [g \in Gpus |-> "wait"]
    /\ startNonce = [g \in Gpus |-> None]
    /\ scanning = [g \in Gpus |-> None]
    /\ sched = "free"
    /\ on = 1
    /\ generation = 0
    /\ jobValid = FALSE
    /\ jobLoaded = 0
    /\ taken = None
    /\ losing = FALSE

ThreadStep(g) == WaitForWork(g) \/ BeginScan(g) \/ Publish(g) \/ NotifyResult(g)

(* The steps of a call the scheduler has begun.                            *)
CallStep == \/ Dispatch \/ DispatchNotify \/ Take \/ TakeNotify \/ Restore
            \/ Adapt \/ Drain \/ DrainNotify \/ Upload
            \/ RaiseStop \/ StopNotify \/ Join

(* What it begins when it is in control.                                   *)
Decision == \/ Notify \/ LoseJob \/ CallDrain \/ CallStop
            \/ \E g \in Gpus : RoundLaunch(g) \/ Poll(g)

Environment == SchedulerWakesSpuriously \/ \E g \in Gpus : WakesSpuriously(g)

(* The client is destroyed.                                                *)
Terminated == sched = "gone" /\ UNCHANGED vars

Next == CallStep \/ Decision \/ (\E g \in Gpus : ThreadStep(g)) \/ Environment
        \/ Terminated

Spec == Init /\ [][Next]_vars

(* Runnable threads run and a scan returns.  What the scheduler decides to *)
(* do next is its own affair, and nobody is obliged to wake without reason.*)
Fairness == WF_vars(CallStep) /\ \A g \in Gpus : WF_vars(ThreadStep(g))

FairSpec == Spec /\ Fairness

----------------------------------------------------------------------------
(* Properties.                                                             *)

(* The engine is not synchronised: nobody but its scan may touch a job or  *)
(* a batch size from the moment a scan is picked up until it is published. *)
EngineQuiet ==
    [][\A g \in Gpus : pc[g] \in {"begin", "scan"} =>
          batch'[g] = batch[g] /\ engineJob'[g] = engineJob[g]]_vars

(* What a scan hashed is what its ticket says: the nonces and the number   *)
(* of hashes the scheduler accounts, and the job generation it compares    *)
(* with the current one before it submits anything.                        *)
Matches(t, scan) ==
    scan.job = t.job /\ scan.start = t.start /\ scan.size = t.size

ResultMatches ==
    /\ \A g \in Gpus : resultReady[g] /\ ~error[g] => Matches(ticket[g], result[g])
    /\ taken # None /\ ~taken.error => Matches(taken.ticket, taken.result)

(* The one scheduler thread never sleeps on a slot only it could free:     *)
(* dispatch_gpu_scan and take_gpu_scan_result wait on predicates that hold *)
(* whenever they are called.                                               *)
SchedulerNeverStuck == sched \notin {"dispatchBlocked", "takeBlocked"}

(* A shortened scan is a one-shot: the batch size the next scan of the job *)
(* starts from is the one the controller chose, never the shortened one.   *)
LearnedBatchKept ==
    \A g \in Gpus : workPending[g] => ticket[g].learned = chosen[g]

(* Why all of this holds.  The slot and its thread agree on where a scan   *)
(* is, and the engine stays as the ticket says from launch to delivery.    *)
SlotConsistent ==
    \A g \in Gpus :
        /\ busy[g] <=> pc[g] \in {"begin", "scan"}
        /\ workPending[g] => ~busy[g] /\ ~resultReady[g]
        /\ busy[g] => ~resultReady[g]
        /\ Active(g) => /\ ticket[g] # None
                        /\ ticket[g].size = batch[g]
                        /\ ticket[g].job = engineJob[g]
        /\ busy[g] => startNonce[g] = ticket[g].start
        /\ pc[g] = "scan" => scanning[g] # None /\ Matches(ticket[g], scanning[g])

Draining == sched \in {"drain", "drainBlocked", "drainNotify"}
Taking   == sched \in {"takeNotify", "restore"}

(* The scheduler calls only where the code allows: it dispatches on a GPU  *)
(* it just found or made idle, takes a result it saw ready, and uploads    *)
(* when every slot has been drained.                                       *)
CallConsistent ==
    /\ sched = "dispatch" => ~Active(on) /\ jobLoaded = generation
    /\ sched = "take" => resultReady[on]
    /\ Taking \/ sched = "adapt" => ~Active(on) /\ taken # None
    /\ Draining => \A g \in Gpus : g < on => ~Active(g)
    /\ sched = "drainNotify" => ~Active(on)
    /\ sched = "upload" => \A g \in Gpus : ~Active(g)
    /\ sched = "upload" => \A g \in Gpus : g < on => engineJob[g] = generation
    /\ (Draining /\ ~losing) \/ sched = "upload" => jobLoaded # generation
    /\ jobLoaded <= generation
    /\ jobLoaded = generation => \A g \in Gpus : engineJob[g] = generation

Shaped(t) == t.size <= t.learned /\ (t.shaped <=> t.size < t.learned)

(* Where the learned batch is: in the ticket of a scan in flight or just   *)
(* taken, else in the engine.  A drain leaves it nowhere, but ends the     *)
(* session or precedes an upload.                                          *)
LearnConsistent ==
    /\ \A g \in Gpus : Active(g) => ticket[g].learned = chosen[g] /\ Shaped(ticket[g])
    /\ Taking => /\ taken.ticket.learned = chosen[on]
                 /\ taken.ticket.size = batch[on]
                 /\ Shaped(taken.ticket)
    /\ sched \in {"adapt", "dispatch"} => batch[on] = chosen[on]
    /\ sched = "upload" => \A g \in Gpus : g < on => batch[g] = chosen[g]
    /\ jobValid /\ jobLoaded = generation /\ ~Draining =>
          \A g \in Gpus : ~Active(g) /\ ~(Taking /\ on = g) => batch[g] = chosen[g]

(* The three together, and what is published.                              *)
Consistent ==
    /\ SlotConsistent
    /\ CallConsistent
    /\ LearnConsistent
    /\ ResultMatches
    /\ SchedulerNeverStuck

(* IInv: the inductive invariant. What a step picks up has a type only     *)
(* because the slot and its thread are consistent, so both go together.    *)
IInv == TypeOK /\ Consistent

(* Every drain returns, whatever the scans do.                             *)
DrainReturns == sched = "drain" ~> sched \in {"free", "upload"}

(* The destructor joins every host thread, also with scans in flight.      *)
StopJoins == sched = "stop" ~> sched = "gone"

(* What the hand-off is for: one slot per GPU, see module ScanSlots.       *)
Slot ==
    [g \in Gpus |->
        IF resultReady[g]
        THEN [state |-> "done", ticket |-> ticket[g], scan |-> result[g],
              failed |-> error[g]]
        ELSE [state |-> IF workPending[g] \/ busy[g] THEN "running" ELSE "idle",
              ticket |-> IF workPending[g] \/ busy[g] THEN ticket[g] ELSE None,
              scan |-> None, failed |-> FALSE]]

Engine == [g \in Gpus |-> [job |-> engineJob[g], size |-> batch[g]]]

Abstract == INSTANCE ScanSlots WITH slot <- Slot, engine <- Engine, held <- taken

(* The two threads implement the slots: a launched scan is finished once,  *)
(* delivered or abandoned once, and its result is that of its own ticket.  *)
ImplementsScanSlots == Abstract!Spec
=============================================================================
