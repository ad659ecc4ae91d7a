---------------------------- MODULE GpuScanProofs ----------------------------
(***************************************************************************)
(* Proofs about GpuScan, for every number of GPUs, batch sizes, start      *)
(* nonces and jobs.                                                        *)
(***************************************************************************)
EXTENDS GpuScan, TLAPS

LEMMA FirstGpu == 1 \in Gpus
  BY GpuScanAssumption DEF Gpus

LEMMA NextGpu ==
    ASSUME NEW g \in Gpus, g < NumGpus
    PROVE  g + 1 \in Gpus
  BY GpuScanAssumption DEF Gpus

(* Type correctness: the initial states.                                   *)
LEMMA InitType == Init => TypeOK
  <1> SUFFICES ASSUME Init PROVE TypeOK
    OBVIOUS
  <1>1. SlotTypeOK    BY DEF Init, SlotTypeOK
  <1>2. EngineTypeOK  BY DEF Init, EngineTypeOK, ThreadAt
  <1>3. SchedTypeOK   BY FirstGpu DEF Init, SchedTypeOK, SchedAt
  <1> QED  BY <1>1, <1>2, <1>3 DEF TypeOK

(* A ticket in flight is a ticket.                                         *)
LEMMA TicketInFlight ==
    ASSUME IInv, NEW g \in Gpus, Active(g)
    PROVE  ticket[g] \in Ticket
  BY DEF IInv, TypeOK, SlotTypeOK, Consistent, SlotConsistent

(* What a scan starts on: an engine job, a start nonce, a batch size.      *)
LEMMA ScanStarts ==
    ASSUME IInv, NEW g \in Gpus, BeginScan(g)
    PROVE  [job |-> engineJob[g], start |-> startNonce[g], size |-> batch[g]] \in Scan
  <1>1. busy[g]  BY DEF BeginScan, IInv, Consistent, SlotConsistent
  <1>2. startNonce[g] \in Starts
    BY <1>1, TicketInFlight DEF Active, Ticket, IInv, Consistent, SlotConsistent
  <1> QED  BY <1>2 DEF Scan, IInv, TypeOK, EngineTypeOK

(* A step of a host thread keeps the types.                                *)
LEMMA ThreadType ==
    ASSUME IInv, NEW g \in Gpus, ThreadStep(g) \/ WakesSpuriously(g)
    PROVE  TypeOK'
  <1>0. TypeOK  BY DEF IInv
  <1> USE DEF TypeOK, SlotTypeOK, EngineTypeOK, SchedTypeOK, ThreadAt, SchedAt
  <1>1. CASE WaitForWork(g)
    <2>1. workPending[g] => ticket[g].start \in Starts
      BY TicketInFlight DEF Active, Ticket
    <2> QED  BY <1>0, <1>1, <2>1 DEF WaitForWork, slots, engines, session, control
  <1>2. CASE BeginScan(g)
    BY <1>0, <1>2, ScanStarts DEF BeginScan, slots, engines, session, control
  <1>3. CASE Publish(g)
    BY <1>0, <1>3 DEF Publish, engines, session, control
  <1>4. CASE NotifyResult(g)
    BY <1>0, <1>4 DEF NotifyResult, SchedulerWoken, slots, engines, session
  <1>5. CASE WakesSpuriously(g)
    BY <1>0, <1>5 DEF WakesSpuriously, slots, engines, session, control
  <1> QED  BY <1>1, <1>2, <1>3, <1>4, <1>5 DEF ThreadStep

(* What the scheduler has taken is a ticket.                               *)
LEMMA TicketTaken ==
    ASSUME IInv, Taking
    PROVE  taken.ticket \in Ticket
  BY DEF IInv, TypeOK, SchedTypeOK, ScanResult, Consistent, CallConsistent

(* Any other step, of the scheduler or none, keeps the types.              *)
LEMMA SchedulerType ==
    ASSUME IInv, CallStep \/ Decision \/ SchedulerWakesSpuriously
    PROVE  TypeOK'
  <1>0. TypeOK  BY DEF IInv
  <1> USE DEF TypeOK, SlotTypeOK, EngineTypeOK, SchedTypeOK, SchedAt,
              slots, engines, threads, session, control
  <1>a. \A g \in Gpus : Woken(g) \in [Gpus -> ThreadAt]
    BY <1>0 DEF Woken, ThreadAt
  <1>1. CASE Dispatch
    <2>1. CASE SlotFree(on)
      <3>1. PICK size \in Shapes(batch[on]) : \E start \in Starts :
               /\ batch' = [batch EXCEPT ![on] = size]
               /\ ticket' = [ticket EXCEPT ![on] =
                     [job |-> generation, start |-> start, size |-> size,
                      learned |-> batch[on], shaped |-> size < batch[on]]]
        BY <1>1, <2>1 DEF Dispatch
      <3>2. PICK start \in Starts :
               ticket' = [ticket EXCEPT ![on] =
                     [job |-> generation, start |-> start, size |-> size,
                      learned |-> batch[on], shaped |-> size < batch[on]]]
        BY <3>1
      <3>3. size \in Batches  BY DEF Shapes
      <3>4. [job |-> generation, start |-> start, size |-> size,
             learned |-> batch[on], shaped |-> size < batch[on]] \in Ticket
        BY <1>0, <3>3 DEF Ticket
      <3>5. ticket' \in [Gpus -> Ticket \cup {None}]
        BY <1>0, <3>2, <3>4
      <3>6. batch' \in [Gpus -> Batches]
        BY <1>0, <3>1, <3>3
      <3> QED  BY <1>0, <1>1, <2>1, <3>5, <3>6 DEF Dispatch
    <2>2. CASE ~SlotFree(on)
      BY <1>0, <1>1, <2>2 DEF Dispatch
    <2> QED  BY <2>1, <2>2
  <1>2. CASE DispatchNotify
    BY <1>0, <1>a, <1>2 DEF DispatchNotify
  <1>3. CASE Take
    <2>1. resultReady[on] => ticket[on] \in Ticket
      BY <1>0, TicketInFlight DEF Active
    <2>2. CASE resultReady[on]
      <3>1. [ticket |-> ticket[on], result |-> result[on], error |-> error[on]]
               \in ScanResult
        BY <1>0, <2>1, <2>2 DEF ScanResult
      <3> QED  BY <1>0, <1>3, <2>2, <3>1 DEF Take
    <2> QED  BY <1>0, <1>3, <2>2 DEF Take
  <1>4. CASE TakeNotify
    BY <1>0, <1>a, <1>4 DEF TakeNotify
  <1>5. CASE Restore
    <2>1. taken.ticket.learned \in Batches
      BY <1>5, TicketTaken DEF Restore, Taking, Ticket
    <2>2. Restored \in [Gpus -> Batches]  BY <1>0, <2>1 DEF Restored
    <2> QED  BY <1>0, <1>5, <2>2 DEF Restore
  <1>6. CASE Adapt
    BY <1>0, <1>6 DEF Adapt
  <1>7. CASE Drain
    BY <1>0, <1>7 DEF Drain
  <1>8. CASE DrainNotify
    BY <1>0, <1>a, <1>8, FirstGpu, NextGpu DEF DrainNotify
  <1>9. CASE Upload
    <2>0. /\ sched' \in {sched, "free"} /\ on' \in Gpus
          /\ jobValid' \in {jobValid, FALSE} /\ jobLoaded' \in {jobLoaded, generation}
          /\ UNCHANGED <<slots, threads, generation, taken, losing>>
      <3>1. /\ sched' \in {sched, "free"}
            /\ on' = 1 \/ (on < NumGpus /\ on' = on + 1)
            /\ jobValid' \in {jobValid, FALSE} /\ jobLoaded' \in {jobLoaded, generation}
            /\ UNCHANGED <<slots, threads, generation, taken, losing>>
        BY <1>9 DEF Upload
      <3>2. on' \in Gpus
        BY <1>0, <3>1, FirstGpu, NextGpu
      <3> QED  BY <3>1, <3>2
    <2>a. SchedTypeOK' /\ SlotTypeOK'
      BY <1>0, <2>0
    <2>1. CASE UNCHANGED <<engines, jobLoaded>>
      BY <1>0, <2>0, <2>1, <2>a
    <2>2. ASSUME NEW b \in Batches,
                 batch' = [batch EXCEPT ![on] = b],
                 chosen' = [chosen EXCEPT ![on] = b],
                 engineJob' = [engineJob EXCEPT ![on] = generation]
          PROVE  TypeOK'
      <3>1. /\ batch' \in [Gpus -> Batches]
            /\ chosen' \in [Gpus -> Batches]
            /\ engineJob' \in [Gpus -> Nat]
        BY <1>0, <2>2
      <3> QED  BY <1>0, <2>0, <2>a, <3>1
    <2> QED  BY <1>9, <2>1, <2>2 DEF Upload
  <1>10. CASE RaiseStop
    BY <1>0, <1>10 DEF RaiseStop
  <1>11. CASE StopNotify
    BY <1>0, <1>a, <1>11, FirstGpu, NextGpu DEF StopNotify
  <1>12. CASE Join
    BY <1>0, <1>12, FirstGpu, NextGpu DEF Join
  <1>13. CASE Notify \/ LoseJob
    <2>1. generation + 1 \in Nat  BY <1>0
    <2> QED  BY <1>0, <1>13, <2>1 DEF Notify, LoseJob
  <1>14. CASE CallDrain \/ CallStop
    BY <1>0, <1>14, FirstGpu DEF CallDrain, CallStop
  <1>15. ASSUME NEW g \in Gpus, RoundLaunch(g) \/ Poll(g)
         PROVE  TypeOK'
    BY <1>0, <1>15 DEF RoundLaunch, Poll
  <1>16. CASE SchedulerWakesSpuriously
    BY <1>0, <1>16 DEF SchedulerWakesSpuriously, SchedulerWoken
  <1> QED
    BY <1>1, <1>2, <1>3, <1>4, <1>5, <1>6, <1>7, <1>8, <1>9, <1>10, <1>11, <1>12,
       <1>13, <1>14, <1>15, <1>16 DEF CallStep, Decision

----------------------------------------------------------------------------
(* The slots and their threads.                                            *)

LEMMA InitConsistent == Init => Consistent
  BY FirstGpu DEF Init, Consistent, SlotConsistent, CallConsistent, LearnConsistent,
     ResultMatches, SchedulerNeverStuck, Active, Draining, Taking

(* A step of a host thread keeps the slots consistent.                     *)
LEMMA ThreadSlot ==
    ASSUME IInv, NEW g \in Gpus, ThreadStep(g) \/ WakesSpuriously(g)
    PROVE  SlotConsistent'
  <1>0. TypeOK /\ SlotConsistent  BY DEF IInv, Consistent
  <1> USE DEF TypeOK, SlotTypeOK, EngineTypeOK, SlotConsistent, Active, Matches
  <1>1. CASE WaitForWork(g)
    BY <1>0, <1>1 DEF WaitForWork, engines
  <1>2. CASE BeginScan(g)
    <2>1. /\ scanning'[g] = [job |-> engineJob[g], start |-> startNonce[g], size |-> batch[g]]
          /\ \A h \in Gpus : h # g => scanning'[h] = scanning[h] /\ pc'[h] = pc[h]
          /\ pc[g] = "begin" /\ pc'[g] = "scan"
      BY <1>0, <1>2 DEF BeginScan
    <2>2. scanning'[g] # None
      BY <1>2, <2>1, ScanStarts, GpuScanAssumption
    <2>3. Matches(ticket[g], scanning'[g])
      BY <1>0, <2>1
    <2>4. UNCHANGED <<slots, engines, startNonce>>
      BY <1>2 DEF BeginScan
    <2> QED  BY <1>0, <2>1, <2>2, <2>3, <2>4 DEF engines, slots
  <1>3. CASE Publish(g)
    BY <1>0, <1>3 DEF Publish, engines
  <1>4. CASE NotifyResult(g)
    BY <1>0, <1>4 DEF NotifyResult, engines, slots
  <1>5. CASE WakesSpuriously(g)
    BY <1>0, <1>5 DEF WakesSpuriously, engines, slots
  <1> QED  BY <1>1, <1>2, <1>3, <1>4, <1>5 DEF ThreadStep

(* It leaves the scheduler's own state alone, and Active changes nowhere.  *)
LEMMA ThreadRest ==
    ASSUME IInv, NEW g \in Gpus, ThreadStep(g) \/ WakesSpuriously(g)
    PROVE  CallConsistent' /\ LearnConsistent' /\ ResultMatches' /\ SchedulerNeverStuck'
  <1>0. TypeOK /\ Consistent  BY DEF IInv
  <1>1. \A h \in Gpus : Active(h)' <=> Active(h)
    BY <1>0 DEF Active, ThreadStep, WaitForWork, BeginScan, Publish, NotifyResult,
       WakesSpuriously, slots, TypeOK, SlotTypeOK, Consistent, SlotConsistent
  <1>2. UNCHANGED <<engines, session, on, taken, losing, ticket>>
    BY DEF ThreadStep, WaitForWork, BeginScan, Publish, NotifyResult,
       WakesSpuriously, slots, control
  <1>3. sched' = sched \/ (sched = "drainBlocked" /\ sched' = "drain")
    BY <1>0 DEF ThreadStep, WaitForWork, BeginScan, Publish, NotifyResult,
       WakesSpuriously, slots, control, SchedulerWoken, Consistent, SchedulerNeverStuck
  <1>4. \A h \in Gpus : resultReady[h] => resultReady'[h] /\ error'[h] = error[h]
                                            /\ result'[h] = result[h]
    BY <1>0 DEF ThreadStep, WaitForWork, BeginScan, Publish, NotifyResult,
       WakesSpuriously, slots, TypeOK, SlotTypeOK, Consistent, SlotConsistent
  <1>5. CallConsistent'
    BY <1>0, <1>1, <1>2, <1>3, <1>4
       DEF Consistent, CallConsistent, Draining, Taking, engines, session, TypeOK, SchedTypeOK
  <1>6. LearnConsistent'
    BY <1>0, <1>1, <1>2, <1>3
       DEF Consistent, LearnConsistent, Draining, Taking, engines, session
  <1>7. ResultMatches'
    <2>1. \A h \in Gpus : ~resultReady[h] /\ resultReady'[h] /\ ~error'[h] =>
             h = g /\ pc[g] = "scan" /\ result'[g] = scanning[g]
      BY <1>0 DEF ThreadStep, WaitForWork, BeginScan, Publish, NotifyResult,
         WakesSpuriously, slots, TypeOK, SlotTypeOK
    <2> QED
      BY <1>0, <1>2, <1>4, <2>1 DEF Consistent, SlotConsistent, ResultMatches, Matches
  <1>8. SchedulerNeverStuck'
    BY <1>0, <1>3 DEF Consistent, SchedulerNeverStuck
  <1> QED  BY <1>5, <1>6, <1>7, <1>8

----------------------------------------------------------------------------
(* What the scheduler's steps do.                                          *)

(* dispatch_gpu_scan never waits, and launches a scan no longer than the   *)
(* learned batch.                                                          *)
LEMMA DispatchLaunches ==
    ASSUME IInv, Dispatch
    PROVE  /\ ~Active(on)
           /\ sched' = "dispatchNotify"
           /\ ticket'[on] \in Ticket
           /\ ticket'[on].job = generation
           /\ ticket'[on].size = batch'[on]
           /\ ticket'[on].learned = batch[on]
           /\ Shaped(ticket'[on])
           /\ \A g \in Gpus : g # on => ticket'[g] = ticket[g] /\ batch'[g] = batch[g]
  <1>0. TypeOK  BY DEF IInv
  <1>1. ~Active(on) /\ SlotFree(on)
    BY DEF IInv, Consistent, CallConsistent, Dispatch, Active, SlotFree
  <1>2. PICK size \in Shapes(batch[on]) : \E start \in Starts :
           /\ batch' = [batch EXCEPT ![on] = size]
           /\ ticket' = [ticket EXCEPT ![on] =
                 [job |-> generation, start |-> start, size |-> size,
                  learned |-> batch[on], shaped |-> size < batch[on]]]
    BY <1>1 DEF Dispatch
  <1>3. PICK start \in Starts :
           ticket' = [ticket EXCEPT ![on] =
                 [job |-> generation, start |-> start, size |-> size,
                  learned |-> batch[on], shaped |-> size < batch[on]]]
    BY <1>2
  <1>4. /\ size \in Batches
        /\ size <= batch[on]
    BY DEF Shapes
  <1>5. /\ batch[on] \in Batches
        /\ generation \in Nat
        /\ on \in Gpus
    BY <1>0 DEF TypeOK, EngineTypeOK, SchedTypeOK
  <1>6. /\ batch'[on] = size
        /\ \A g \in Gpus : g # on => batch'[g] = batch[g]
    BY <1>0, <1>2 DEF TypeOK, EngineTypeOK, SchedTypeOK
  <1>7. /\ ticket'[on] = [job |-> generation, start |-> start, size |-> size,
                          learned |-> batch[on], shaped |-> size < batch[on]]
        /\ \A g \in Gpus : g # on => ticket'[g] = ticket[g]
    BY <1>0, <1>3 DEF TypeOK, SlotTypeOK, SchedTypeOK
  <1>8. ticket'[on] \in Ticket
    BY <1>4, <1>5, <1>7 DEF Ticket
  <1>9. Shaped(ticket'[on])
    <2>1. /\ ticket'[on].size = size
          /\ ticket'[on].learned = batch[on]
      BY <1>7
    <2>2. ticket'[on].shaped = (size < batch[on])
      <3> DEFINE t == [job |-> generation, start |-> start, size |-> size,
                       learned |-> batch[on], shaped |-> size < batch[on]]
      <3>1. t.shaped = (size < batch[on])  OBVIOUS
      <3> QED  BY <1>7, <3>1, Zenon
    <2> QED  BY <1>4, <2>1, <2>2, Zenon DEF Shaped
  <1>10. sched' = "dispatchNotify"
    BY <1>1 DEF Dispatch
  <1> QED  BY <1>1, <1>6, <1>7, <1>8, <1>9, <1>10

(* take_gpu_scan_result never waits, and holds what was published.         *)
LEMMA TakeHolds ==
    ASSUME IInv, Take
    PROVE  /\ resultReady[on]
           /\ sched' = "takeNotify"
           /\ taken' # None
           /\ taken' = [ticket |-> ticket[on], result |-> result[on], error |-> error[on]]
  <1>1. resultReady[on] /\ TypeOK
    BY DEF IInv, Consistent, CallConsistent, Take
  <1>2. ticket[on] \in Ticket
    BY <1>1, TicketInFlight DEF Active, TypeOK, SchedTypeOK
  <1>3. [ticket |-> ticket[on], result |-> result[on], error |-> error[on]] \in ScanResult
    BY <1>1, <1>2 DEF ScanResult, TypeOK, SlotTypeOK, SchedTypeOK
  <1> QED  BY <1>1, <1>3, GpuScanAssumption DEF Take

(* Restoring the learned batch touches no other engine.                    *)
LEMMA RestoresOne ==
    ASSUME IInv, Restore
    PROVE  /\ \A g \in Gpus : g # on => batch'[g] = batch[g]
           /\ batch'[on] = taken.ticket.learned
           /\ batch' \in [Gpus -> Batches]
  <1>0. TypeOK /\ taken.ticket \in Ticket
    BY TicketTaken DEF IInv, Restore, Taking
  <1>1. /\ Shaped(taken.ticket)
        /\ taken.ticket.size = batch[on]
    BY DEF IInv, Consistent, LearnConsistent, Restore, Taking
  <1>2. taken.ticket.size \in Nat /\ taken.ticket.learned \in Nat /\ taken.ticket.learned \in Batches
    BY <1>0, GpuScanAssumption DEF Ticket
  <1>3. ~taken.ticket.shaped => batch[on] = taken.ticket.learned
    BY <1>1, <1>2 DEF Shaped
  <1> QED
    BY <1>0, <1>2, <1>3 DEF Restore, Restored, TypeOK, EngineTypeOK, SchedTypeOK

(* The GPUs before the next one of a loop.                                 *)
LEMMA Before ==
    /\ \A g \in Gpus : ~(g < 1)
    /\ \A g, h \in Gpus : g < h + 1 <=> g < h \/ g = h
    /\ \A g, h \in Gpus : ~(h < NumGpus) => g < h \/ g = h
  BY GpuScanAssumption DEF Gpus

(* Only a drain sleeps.                                                    *)
LEMMA WakesDrain ==
    ASSUME IInv, SchedulerWakesSpuriously
    PROVE  /\ sched = "drainBlocked" /\ sched' = "drain"
           /\ UNCHANGED <<slots, engines, threads, session, on, taken, losing>>
  BY DEF IInv, Consistent, SchedulerNeverStuck, SchedulerWakesSpuriously, SchedulerWoken

(* A step of the scheduler keeps the slots consistent.                     *)
LEMMA SchedulerSlot ==
    ASSUME IInv, CallStep \/ Decision \/ SchedulerWakesSpuriously
    PROVE  SlotConsistent'
  <1>0. TypeOK /\ Consistent  BY DEF IInv
  <1> USE DEF TypeOK, SlotTypeOK, EngineTypeOK, SchedTypeOK, Consistent, SlotConsistent,
              Active, slots, engines, threads, session, control,
              Matches, CallConsistent, Taking, SlotFree, Drainable
  <1>1. CASE Dispatch
    BY <1>0, <1>1, DispatchLaunches, GpuScanAssumption DEF Dispatch
  <1>2. CASE DispatchNotify
    BY <1>0, <1>2 DEF DispatchNotify, Woken
  <1>3. CASE Take
    BY <1>0, <1>3, TakeHolds DEF Take
  <1>4. CASE TakeNotify
    BY <1>0, <1>4 DEF TakeNotify, Woken
  <1>5. CASE Restore
    <2>1. /\ UNCHANGED <<busy, workPending, resultReady, ticket, engineJob, pc,
                         startNonce, scanning>>
          /\ ~Active(on)
      BY <1>0, <1>5 DEF Restore
    <2>2. \A g \in Gpus : g # on => batch'[g] = batch[g]
      BY <1>5, RestoresOne
    <2> QED  BY <1>0, <2>1, <2>2
  <1>6. CASE Adapt
    BY <1>0, <1>6 DEF Adapt, Fresh
  <1>7. CASE Drain
    BY <1>0, <1>7 DEF Drain
  <1>8. CASE DrainNotify
    BY <1>0, <1>8, Before, NextGpu DEF DrainNotify, Woken
  <1>9. CASE Upload
    BY <1>0, <1>9, Before, NextGpu DEF Upload
  <1>10. CASE RaiseStop
    BY <1>0, <1>10 DEF RaiseStop
  <1>11. CASE StopNotify
    BY <1>0, <1>11 DEF StopNotify, Woken
  <1>12. CASE Join
    BY <1>0, <1>12 DEF Join
  <1>13. CASE Notify
    BY <1>0, <1>13 DEF Notify
  <1>14. CASE LoseJob
    BY <1>0, <1>14 DEF LoseJob
  <1>15. CASE CallDrain
    BY <1>0, <1>15, Before DEF CallDrain
  <1>16. CASE CallStop
    BY <1>0, <1>16 DEF CallStop
  <1>17. ASSUME NEW g \in Gpus, RoundLaunch(g) \/ Poll(g)
         PROVE  SlotConsistent'
    BY <1>0, <1>17 DEF RoundLaunch, Poll
  <1>18. CASE SchedulerWakesSpuriously
    BY <1>0, <1>18, WakesDrain
  <1> QED
    BY <1>1, <1>2, <1>3, <1>4, <1>5, <1>6, <1>7, <1>8, <1>9, <1>10, <1>11, <1>12, <1>13, <1>14, <1>15, <1>16, <1>17, <1>18 DEF CallStep, Decision

(* It calls only where the code allows.                                    *)
LEMMA SchedulerCall ==
    ASSUME IInv, CallStep \/ Decision \/ SchedulerWakesSpuriously
    PROVE  CallConsistent'
  <1>0. TypeOK /\ Consistent  BY DEF IInv
  <1> USE DEF TypeOK, SlotTypeOK, EngineTypeOK, SchedTypeOK, Consistent, SlotConsistent,
              Active, slots, engines, threads, session, control,
              CallConsistent, Taking, Draining, SlotFree, Drainable
  <1>1. CASE Dispatch
    BY <1>0, <1>1, DispatchLaunches, GpuScanAssumption DEF Dispatch
  <1>2. CASE DispatchNotify
    BY <1>0, <1>2 DEF DispatchNotify, Woken
  <1>3. CASE Take
    BY <1>0, <1>3, TakeHolds DEF Take
  <1>4. CASE TakeNotify
    BY <1>0, <1>4 DEF TakeNotify, Woken
  <1>5. CASE Restore
    BY <1>0, <1>5, RestoresOne DEF Restore
  <1>6. CASE Adapt
    BY <1>0, <1>6 DEF Adapt, Fresh
  <1>7. CASE Drain
    BY <1>0, <1>7 DEF Drain
  <1>8. CASE DrainNotify
    BY <1>0, <1>8, Before, NextGpu DEF DrainNotify, Woken
  <1>9. CASE Upload
    BY <1>0, <1>9, Before, NextGpu DEF Upload
  <1>10. CASE RaiseStop
    BY <1>0, <1>10 DEF RaiseStop
  <1>11. CASE StopNotify
    BY <1>0, <1>11 DEF StopNotify, Woken
  <1>12. CASE Join
    BY <1>0, <1>12 DEF Join
  <1>13. CASE Notify
    BY <1>0, <1>13 DEF Notify
  <1>14. CASE LoseJob
    BY <1>0, <1>14 DEF LoseJob
  <1>15. CASE CallDrain
    BY <1>0, <1>15, Before DEF CallDrain
  <1>16. CASE CallStop
    BY <1>0, <1>16 DEF CallStop
  <1>17. ASSUME NEW g \in Gpus, RoundLaunch(g) \/ Poll(g)
         PROVE  CallConsistent'
    BY <1>0, <1>17 DEF RoundLaunch, Poll
  <1>18. CASE SchedulerWakesSpuriously
    BY <1>0, <1>18, WakesDrain
  <1> QED
    BY <1>1, <1>2, <1>3, <1>4, <1>5, <1>6, <1>7, <1>8, <1>9, <1>10, <1>11, <1>12, <1>13, <1>14, <1>15, <1>16, <1>17, <1>18 DEF CallStep, Decision

(* It keeps the learned batch.                                             *)
LEMMA SchedulerLearn ==
    ASSUME IInv, CallStep \/ Decision \/ SchedulerWakesSpuriously
    PROVE  LearnConsistent'
  <1>0. TypeOK /\ Consistent  BY DEF IInv
  <1> USE DEF TypeOK, SlotTypeOK, EngineTypeOK, SchedTypeOK, Consistent, SlotConsistent,
              Active, slots, engines, threads, session, control,
              CallConsistent, LearnConsistent, Shaped, Taking, Draining, SlotFree, Drainable
  <1>1. CASE Dispatch
    BY <1>0, <1>1, DispatchLaunches, GpuScanAssumption DEF Dispatch
  <1>2. CASE DispatchNotify
    BY <1>0, <1>2 DEF DispatchNotify, Woken
  <1>3. CASE Take
    BY <1>0, <1>3, TakeHolds DEF Take
  <1>4. CASE TakeNotify
    BY <1>0, <1>4 DEF TakeNotify, Woken
  <1>5. CASE Restore
    <2>1. batch'[on] = chosen[on] /\ ~Active(on)
      BY <1>0, <1>5, RestoresOne DEF Restore
    <2>2. \A g \in Gpus : g # on => batch'[g] = batch[g]
      BY <1>5, RestoresOne
    <2>3. sched' = "adapt" \/ (sched' = "free" /\ ~jobValid')
      BY <1>5 DEF Restore
    <2>4. UNCHANGED <<slots, chosen, on, generation, jobLoaded>> /\ (jobValid' => jobValid)
      BY <1>5 DEF Restore
    <2>5. \A g \in Gpus : Active(g) => ticket[g].learned = chosen[g] /\ Shaped(ticket[g])
      BY <1>0
    <2>6. jobValid /\ jobLoaded = generation =>
             \A g \in Gpus : ~Active(g) /\ g # on => batch[g] = chosen[g]
      BY <1>0, <1>5 DEF Restore
    <2> QED  BY <2>1, <2>2, <2>3, <2>4, <2>5, <2>6
  <1>6. CASE Adapt
    BY <1>0, <1>6 DEF Adapt, Fresh
  <1>7. CASE Drain
    BY <1>0, <1>7 DEF Drain
  <1>8. CASE DrainNotify
    BY <1>0, <1>8, Before, NextGpu DEF DrainNotify, Woken
  <1>9. CASE Upload
    BY <1>0, <1>9, Before, NextGpu DEF Upload
  <1>10. CASE RaiseStop
    BY <1>0, <1>10 DEF RaiseStop
  <1>11. CASE StopNotify
    BY <1>0, <1>11 DEF StopNotify, Woken
  <1>12. CASE Join
    BY <1>0, <1>12 DEF Join
  <1>13. CASE Notify
    BY <1>0, <1>13 DEF Notify
  <1>14. CASE LoseJob
    BY <1>0, <1>14 DEF LoseJob
  <1>15. CASE CallDrain
    BY <1>0, <1>15, Before DEF CallDrain
  <1>16. CASE CallStop
    BY <1>0, <1>16 DEF CallStop
  <1>17. ASSUME NEW g \in Gpus, RoundLaunch(g) \/ Poll(g)
         PROVE  LearnConsistent'
    BY <1>0, <1>17 DEF RoundLaunch, Poll
  <1>18. CASE SchedulerWakesSpuriously
    BY <1>0, <1>18, WakesDrain
  <1> QED
    BY <1>1, <1>2, <1>3, <1>4, <1>5, <1>6, <1>7, <1>8, <1>9, <1>10, <1>11, <1>12, <1>13, <1>14, <1>15, <1>16, <1>17, <1>18 DEF CallStep, Decision

(* The results it holds or leaves in the slots match their tickets.        *)
LEMMA SchedulerResult ==
    ASSUME IInv, CallStep \/ Decision \/ SchedulerWakesSpuriously
    PROVE  ResultMatches'
  <1>0. TypeOK /\ Consistent  BY DEF IInv
  <1> USE DEF TypeOK, SlotTypeOK, EngineTypeOK, SchedTypeOK, Consistent, SlotConsistent,
              Active, slots, engines, threads, session, control,
              ResultMatches, Matches
  <1>1. CASE Dispatch
    BY <1>0, <1>1, DispatchLaunches, GpuScanAssumption DEF Dispatch
  <1>2. CASE DispatchNotify
    BY <1>0, <1>2 DEF DispatchNotify, Woken
  <1>3. CASE Take
    BY <1>0, <1>3, TakeHolds DEF Take
  <1>4. CASE TakeNotify
    BY <1>0, <1>4 DEF TakeNotify, Woken
  <1>5. CASE Restore
    BY <1>0, <1>5, RestoresOne DEF Restore
  <1>6. CASE Adapt
    BY <1>0, <1>6 DEF Adapt, Fresh
  <1>7. CASE Drain
    BY <1>0, <1>7 DEF Drain
  <1>8. CASE DrainNotify
    BY <1>0, <1>8, Before, NextGpu DEF DrainNotify, Woken
  <1>9. CASE Upload
    BY <1>0, <1>9, Before, NextGpu DEF Upload
  <1>10. CASE RaiseStop
    BY <1>0, <1>10 DEF RaiseStop
  <1>11. CASE StopNotify
    BY <1>0, <1>11 DEF StopNotify, Woken
  <1>12. CASE Join
    BY <1>0, <1>12 DEF Join
  <1>13. CASE Notify
    BY <1>0, <1>13 DEF Notify
  <1>14. CASE LoseJob
    BY <1>0, <1>14 DEF LoseJob
  <1>15. CASE CallDrain
    BY <1>0, <1>15, Before DEF CallDrain
  <1>16. CASE CallStop
    BY <1>0, <1>16 DEF CallStop
  <1>17. ASSUME NEW g \in Gpus, RoundLaunch(g) \/ Poll(g)
         PROVE  ResultMatches'
    BY <1>0, <1>17 DEF RoundLaunch, Poll
  <1>18. CASE SchedulerWakesSpuriously
    BY <1>0, <1>18, WakesDrain
  <1> QED
    BY <1>1, <1>2, <1>3, <1>4, <1>5, <1>6, <1>7, <1>8, <1>9, <1>10, <1>11, <1>12, <1>13, <1>14, <1>15, <1>16, <1>17, <1>18 DEF CallStep, Decision

(* It never sleeps on a slot only it could free.                           *)
LEMMA SchedulerStuck ==
    ASSUME IInv, CallStep \/ Decision \/ SchedulerWakesSpuriously
    PROVE  SchedulerNeverStuck'
  <1>0. TypeOK /\ Consistent  BY DEF IInv
  <1> USE DEF TypeOK, SlotTypeOK, EngineTypeOK, SchedTypeOK, Consistent, SlotConsistent,
              Active, slots, engines, threads, session, control,
              CallConsistent, SchedulerNeverStuck, SlotFree, Drainable
  <1>1. CASE Dispatch
    BY <1>0, <1>1, DispatchLaunches, GpuScanAssumption DEF Dispatch
  <1>2. CASE DispatchNotify
    BY <1>0, <1>2 DEF DispatchNotify, Woken
  <1>3. CASE Take
    BY <1>0, <1>3, TakeHolds DEF Take
  <1>4. CASE TakeNotify
    BY <1>0, <1>4 DEF TakeNotify, Woken
  <1>5. CASE Restore
    BY <1>0, <1>5, RestoresOne DEF Restore
  <1>6. CASE Adapt
    BY <1>0, <1>6 DEF Adapt, Fresh
  <1>7. CASE Drain
    BY <1>0, <1>7 DEF Drain
  <1>8. CASE DrainNotify
    BY <1>0, <1>8, Before, NextGpu DEF DrainNotify, Woken
  <1>9. CASE Upload
    BY <1>0, <1>9, Before, NextGpu DEF Upload
  <1>10. CASE RaiseStop
    BY <1>0, <1>10 DEF RaiseStop
  <1>11. CASE StopNotify
    BY <1>0, <1>11 DEF StopNotify, Woken
  <1>12. CASE Join
    BY <1>0, <1>12 DEF Join
  <1>13. CASE Notify
    BY <1>0, <1>13 DEF Notify
  <1>14. CASE LoseJob
    BY <1>0, <1>14 DEF LoseJob
  <1>15. CASE CallDrain
    BY <1>0, <1>15, Before DEF CallDrain
  <1>16. CASE CallStop
    BY <1>0, <1>16 DEF CallStop
  <1>17. ASSUME NEW g \in Gpus, RoundLaunch(g) \/ Poll(g)
         PROVE  SchedulerNeverStuck'
    BY <1>0, <1>17 DEF RoundLaunch, Poll
  <1>18. CASE SchedulerWakesSpuriously
    BY <1>0, <1>18, WakesDrain
  <1> QED
    BY <1>1, <1>2, <1>3, <1>4, <1>5, <1>6, <1>7, <1>8, <1>9, <1>10, <1>11, <1>12, <1>13, <1>14, <1>15, <1>16, <1>17, <1>18 DEF CallStep, Decision

----------------------------------------------------------------------------
(* The theorems.                                                           *)

LEMMA Inductive == IInv /\ [Next]_vars => IInv'
  <1> SUFFICES ASSUME IInv, [Next]_vars PROVE IInv'
    OBVIOUS
  <1>1. ASSUME NEW g \in Gpus, ThreadStep(g) \/ WakesSpuriously(g)
        PROVE  IInv'
    BY <1>1, ThreadType, ThreadSlot, ThreadRest DEF IInv, Consistent
  <1>2. CASE CallStep \/ Decision \/ SchedulerWakesSpuriously
    BY <1>2, SchedulerType, SchedulerSlot, SchedulerCall, SchedulerLearn,
       SchedulerResult, SchedulerStuck DEF IInv, Consistent
  <1>3. CASE UNCHANGED vars
    BY <1>3 DEF IInv, TypeOK, SlotTypeOK, EngineTypeOK, SchedTypeOK, Consistent,
       SlotConsistent, CallConsistent, LearnConsistent, ResultMatches,
       SchedulerNeverStuck, Active, Draining, Taking,
       vars, slots, engines, threads, session, control
  <1> QED  BY <1>1, <1>2, <1>3 DEF Next, Environment, Terminated

(* The slot, its thread and the scheduler agree on every scan, and every   *)
(* variable keeps its type; no batch size is ever 0.                       *)
THEOREM Invariant == Spec => []IInv
  <1>1. Init => IInv  BY InitType, InitConsistent DEF IInv
  <1> QED  BY <1>1, Inductive, PTL DEF Spec

(* A result carries the job, the nonces and the number of hashes of its    *)
(* own ticket, from its publication until the scheduler has dealt with it. *)
THEOREM ResultMatchesHolds == Spec => []ResultMatches
  <1>1. IInv => ResultMatches  BY DEF IInv, Consistent
  <1> QED  BY <1>1, Invariant, PTL

(* The scheduler never sleeps on a slot only it could free.                *)
THEOREM SchedulerNeverStuckHolds == Spec => []SchedulerNeverStuck
  <1>1. IInv => SchedulerNeverStuck  BY DEF IInv, Consistent
  <1> QED  BY <1>1, Invariant, PTL

(* The next scan of a job starts from the batch the controller chose.      *)
THEOREM LearnedBatchKeptHolds == Spec => []LearnedBatchKept
  <1>1. IInv => LearnedBatchKept
    BY DEF IInv, Consistent, LearnConsistent, LearnedBatchKept, Active
  <1> QED  BY <1>1, Invariant, PTL

(* Nobody touches the job or the batch size of an engine that scans.       *)
THEOREM EngineQuietHolds == Spec => EngineQuiet
  <1>1. IInv /\ [Next]_vars =>
           [\A g \in Gpus : pc[g] \in {"begin", "scan"} =>
               batch'[g] = batch[g] /\ engineJob'[g] = engineJob[g]]_vars
    <2> SUFFICES ASSUME IInv, Next, NEW g \in Gpus, pc[g] \in {"begin", "scan"}
                 PROVE  batch'[g] = batch[g] /\ engineJob'[g] = engineJob[g]
      OBVIOUS
    <2>0. TypeOK /\ busy[g] /\ Active(g)
      BY DEF IInv, Consistent, SlotConsistent, Active
    <2>1. CASE Dispatch
      BY <2>0, <2>1, DispatchLaunches DEF Dispatch
    <2>2. CASE Restore
      <3>1. ~Active(on)  BY <2>2 DEF IInv, Consistent, CallConsistent, Restore, Taking
      <3> QED  BY <2>0, <2>2, <3>1, RestoresOne DEF Restore
    <2>3. CASE Adapt
      <3>1. ~Active(on)  BY <2>3 DEF IInv, Consistent, CallConsistent, Adapt, Taking
      <3> QED  BY <2>0, <2>3, <3>1 DEF Adapt, TypeOK, EngineTypeOK
    <2>4. CASE Upload
      BY <2>0, <2>4 DEF IInv, Consistent, CallConsistent, Upload
    <2>5. CASE UNCHANGED engines
      BY <2>5 DEF engines
    <2> QED
      BY <2>1, <2>2, <2>3, <2>4, <2>5
         DEF Next, CallStep, Decision, Environment, Terminated, ThreadStep,
             DispatchNotify, Take, TakeNotify, Drain, DrainNotify, RaiseStop,
             StopNotify, Join, Notify, LoseJob, CallDrain, CallStop, RoundLaunch,
             Poll, WaitForWork, BeginScan, Publish, NotifyResult, WakesSpuriously,
             SchedulerWakesSpuriously, vars
  <1> QED  BY <1>1, Invariant, PTL DEF Spec, EngineQuiet

----------------------------------------------------------------------------
(* The hand-off implements the slots.                                      *)

(* Where the refinement mapping puts the slot of a GPU.                    *)
LEMMA SlotOf ==
    ASSUME NEW g \in Gpus
    PROVE  /\ resultReady[g] => Slot[g] = [state |-> "done", ticket |-> ticket[g],
                                          scan |-> result[g], failed |-> error[g]]
           /\ ~resultReady[g] /\ (workPending[g] \/ busy[g]) =>
                 Slot[g] = Abstract!Running(ticket[g])
           /\ ~Active(g) => Slot[g] = Abstract!Idle
  BY DEF Slot, Active, Abstract!Running, Abstract!Idle

(* The same after a step.                                                  *)
LEMMA SlotNext ==
    ASSUME NEW g \in Gpus
    PROVE  /\ resultReady'[g] => Slot'[g] = [state |-> "done", ticket |-> ticket'[g],
                                           scan |-> result'[g], failed |-> error'[g]]
           /\ ~resultReady'[g] /\ (workPending'[g] \/ busy'[g]) =>
                 Slot'[g] = Abstract!Running(ticket'[g])
           /\ ~resultReady'[g] /\ ~workPending'[g] /\ ~busy'[g] => Slot'[g] = Abstract!Idle
  BY DEF Slot, Abstract!Running, Abstract!Idle

(* A step that leaves the slots of the other GPUs alone.                   *)
LEMMA OneSlot ==
    ASSUME NEW g \in Gpus,
           \A h \in Gpus : h # g =>
               /\ resultReady'[h] = resultReady[h]
               /\ workPending'[h] = workPending[h]
               /\ busy'[h] = busy[h]
               /\ ticket'[h] = ticket[h]
               /\ result'[h] = result[h]
               /\ error'[h] = error[h]
    PROVE  Slot' = [Slot EXCEPT ![g] = Slot'[g]]
  <1>1. \A h \in Gpus : h # g => Slot'[h] = Slot[h]
    BY DEF Slot
  <1>2. Slot = [h \in Gpus |-> Slot[h]] /\ Slot' = [h \in Gpus |-> Slot'[h]]
    BY DEF Slot
  <1> QED  BY <1>1, <1>2

(* A step that changes no flag, ticket or result changes no slot.          *)
LEMMA SameSlots ==
    ASSUME UNCHANGED <<resultReady, workPending, busy, ticket, result, error>>
    PROVE  Slot' = Slot
  BY DEF Slot

(* The initial slots are idle.                                             *)
LEMMA InitRefines == Init => Abstract!Init
  <1> SUFFICES ASSUME Init PROVE Abstract!Init
    OBVIOUS
  <1>1. Slot = [g \in Gpus |-> Abstract!Idle]
    BY DEF Init, Slot, Abstract!Idle
  <1>2. Engine \in [Gpus -> [job: {0}, size: Batches]]
    BY DEF Init, Engine
  <1> QED  BY <1>1, <1>2 DEF Init, Abstract!Init, Abstract!Gpus, Gpus

(* A host thread finishes the scan of its slot, once.                      *)
LEMMA ThreadRefines ==
    ASSUME IInv, NEW g \in Gpus, ThreadStep(g) \/ WakesSpuriously(g)
    PROVE  [Abstract!Next]_(Abstract!vars)
  <1>0. TypeOK /\ SlotConsistent  BY DEF IInv, Consistent
  <1>1. UNCHANGED <<engineJob, batch, taken>>
    BY DEF ThreadStep, WaitForWork, BeginScan, Publish, NotifyResult,
       WakesSpuriously, engines, control
  <1>2. Engine' = Engine  BY <1>1 DEF Engine
  <1>3. CASE Publish(g)
    <2>1. busy[g] /\ ~resultReady[g] /\ Matches(ticket[g], scanning[g])
      BY <1>0, <1>3 DEF Publish, SlotConsistent
    <2>2. Slot[g] = Abstract!Running(ticket[g])
      BY <2>1, SlotOf
    <2>3. resultReady'[g] /\ ticket'[g] = ticket[g]
      BY <1>0, <1>3 DEF Publish, TypeOK, SlotTypeOK
    <2>4. PICK threw \in BOOLEAN :
             /\ error' = [error EXCEPT ![g] = threw]
             /\ result' = [result EXCEPT ![g] = IF threw THEN None ELSE scanning[g]]
      BY <1>3 DEF Publish
    <2>5. /\ error'[g] = threw
          /\ result'[g] = IF threw THEN None ELSE scanning[g]
      BY <1>0, <2>4 DEF TypeOK, SlotTypeOK
    <2>6. scanning[g] = [job |-> ticket[g].job, start |-> ticket[g].start,
                         size |-> ticket[g].size]
      <3>1. scanning[g] \in Scan
        BY <1>0, <1>3, GpuScanAssumption DEF Publish, SlotConsistent, TypeOK, EngineTypeOK
      <3> QED  BY <2>1, <3>1 DEF Matches, Scan
    <2>7. Slot'[g] = Abstract!Done(ticket[g], threw)
      BY <2>3, <2>5, <2>6, SlotNext DEF Abstract!Done
    <2>8. Slot' = [Slot EXCEPT ![g] = Slot'[g]]
      BY <1>0, <1>3, OneSlot DEF Publish, TypeOK, SlotTypeOK
    <2>9. Abstract!Finish(g)
      BY <1>1, <1>2, <2>2, <2>7, <2>8 DEF Abstract!Finish, Abstract!Running
    <2> QED  BY <2>9 DEF Abstract!Next, Abstract!Gpus, Gpus
  <1>4. CASE ~Publish(g)
    <2>1. Slot' = Slot
      <3>1. CASE WaitForWork(g) /\ workPending[g]
        <4>1. /\ Slot[g] = Abstract!Running(ticket[g])
              /\ Slot'[g] = Abstract!Running(ticket[g])
          BY <1>0, <3>1, SlotOf, SlotNext
             DEF WaitForWork, SlotConsistent, TypeOK, SlotTypeOK
        <4>2. Slot' = [Slot EXCEPT ![g] = Slot'[g]]
          BY <1>0, <3>1, OneSlot DEF WaitForWork, TypeOK, SlotTypeOK
        <4>3. Slot = [Slot EXCEPT ![g] = Slot[g]]  BY DEF Slot
        <4> QED  BY <4>1, <4>2, <4>3
      <3>2. CASE ~(WaitForWork(g) /\ workPending[g])
        BY <1>4, <3>2, SameSlots
           DEF ThreadStep, WaitForWork, BeginScan, NotifyResult, WakesSpuriously, slots
      <3> QED  BY <3>1, <3>2
    <2> QED  BY <1>1, <1>2, <2>1 DEF Abstract!vars
  <1> QED  BY <1>3, <1>4

(* A step of the scheduler launches, delivers or abandons one scan, or     *)
(* configures the engine of an idle slot, or changes none of this.         *)
LEMMA SchedulerRefines ==
    ASSUME IInv, CallStep \/ Decision \/ SchedulerWakesSpuriously
    PROVE  [Abstract!Next]_(Abstract!vars)
  <1>0. /\ TypeOK
        /\ Consistent
        /\ on \in Gpus
    BY DEF IInv, TypeOK, SchedTypeOK
  <1>a. \A g \in Gpus : Engine[g] = [job |-> engineJob[g], size |-> batch[g]]
                       /\ Engine'[g] = [job |-> engineJob'[g], size |-> batch'[g]]
    BY DEF Engine
  <1>b. TypeOK'  BY SchedulerType
  <1>c. \A g \in Gpus : Engine'[g] \in [job: Nat, size: Batches]
    <2> SUFFICES ASSUME NEW g \in Gpus
                 PROVE  Engine'[g] \in [job: Nat, size: Batches]
      OBVIOUS
    <2>1. engineJob'[g] \in Nat /\ batch'[g] \in Batches
      BY <1>b DEF TypeOK, EngineTypeOK
    <2>2. Engine'[g] = [job |-> engineJob'[g], size |-> batch'[g]]
      BY <1>a
    <2> HIDE DEF Engine
    <2> QED  BY <2>1, <2>2
  <1>d. (\A g \in Gpus : g # on => batch'[g] = batch[g] /\ engineJob'[g] = engineJob[g])
           => Engine' = [Engine EXCEPT ![on] = Engine'[on]]
    <2>1. Engine = [g \in Gpus |-> Engine[g]] /\ Engine' = [g \in Gpus |-> Engine'[g]]
      BY DEF Engine
    <2> QED  BY <1>a, <2>1
  <1>1. CASE Dispatch
    <2>1. Slot[on] = Abstract!Idle
      BY <1>0, <1>1, DispatchLaunches, SlotOf
    <2>2. workPending'[on] /\ ~resultReady'[on] /\ engineJob' = engineJob /\ taken' = taken
      BY <1>0, <1>1, DispatchLaunches
         DEF Dispatch, TypeOK, SlotTypeOK, Active
    <2>3. Slot'[on] = Abstract!Running(ticket'[on])
      BY <1>0, <2>2, SlotNext
    <2>4. Slot' = [Slot EXCEPT ![on] = Slot'[on]]
      BY <1>0, <1>1, DispatchLaunches, OneSlot DEF Dispatch, TypeOK, SlotTypeOK
    <2>5. Engine' = [Engine EXCEPT ![on] = Engine'[on]]
      BY <1>1, <1>d, <2>2, DispatchLaunches
    <2>6. ticket'[on].job = engineJob[on]
      BY <1>0, <1>1, DispatchLaunches DEF Consistent, CallConsistent, Dispatch
    <2>7. Slot'[on].ticket = ticket'[on] /\ ticket'[on] \in Abstract!Ticket
      BY <1>1, <2>3, DispatchLaunches DEF Abstract!Running, Abstract!Ticket, Ticket
    <2>8. /\ Engine'[on].job = Engine[on].job
          /\ Engine[on].job = ticket'[on].job
          /\ Engine'[on].size = ticket'[on].size
      <3>1. /\ Engine'[on] = [job |-> engineJob'[on], size |-> batch'[on]]
            /\ Engine[on] = [job |-> engineJob[on], size |-> batch[on]]
        BY <1>0, <1>a
      <3>2. ticket'[on].size = batch'[on]  BY <1>1, DispatchLaunches
      <3> QED  BY <2>2, <2>6, <3>1, <3>2
    <2>9. Abstract!Launch(on)
      BY <1>0, <1>c, <2>1, <2>2, <2>3, <2>4, <2>5, <2>7, <2>8
         DEF Abstract!Launch, Abstract!Reconfigured
    <2> QED  BY <1>0, <2>9 DEF Abstract!Next, Abstract!Gpus, Gpus
  <1>2. CASE Take
    <2>1. Slot[on] = [state |-> "done", ticket |-> ticket[on],
                      scan |-> result[on], failed |-> error[on]]
      BY <1>0, <1>2, TakeHolds, SlotOf
    <2>2. ~resultReady'[on] /\ ~workPending'[on] /\ ~busy'[on]
      BY <1>0, <1>2, TakeHolds DEF Take, TypeOK, SlotTypeOK, Consistent, SlotConsistent
    <2>3. Slot'[on] = Abstract!Idle
      BY <1>0, <2>2, SlotNext
    <2>4. Slot' = [Slot EXCEPT ![on] = Slot'[on]]
      BY <1>0, <1>2, TakeHolds, OneSlot DEF Take, TypeOK, SlotTypeOK
    <2>5. Engine' = Engine  BY <1>2 DEF Take, engines, Engine
    <2>6. Abstract!Deliver(on)
      BY <1>2, <2>1, <2>3, <2>4, <2>5, TakeHolds DEF Abstract!Deliver
    <2> QED  BY <1>0, <2>6 DEF Abstract!Next, Abstract!Gpus, Gpus
  <1>3. CASE Drain /\ resultReady[on]
    <2>1. Slot[on] = [state |-> "done", ticket |-> ticket[on],
                      scan |-> result[on], failed |-> error[on]]
      BY <1>0, <1>3, SlotOf
    <2>2. ~resultReady'[on] /\ ~workPending'[on] /\ ~busy'[on]
      BY <1>0, <1>3 DEF Drain, Drainable, TypeOK, SlotTypeOK, Consistent, SlotConsistent
    <2>3. Slot'[on] = Abstract!Idle
      BY <1>0, <2>2, SlotNext
    <2>4. Slot' = [Slot EXCEPT ![on] = Slot'[on]]
      BY <1>0, <1>3, OneSlot DEF Drain, Drainable, TypeOK, SlotTypeOK
    <2>5. Engine' = Engine /\ taken' = taken
      BY <1>3 DEF Drain, engines, Engine
    <2>6. Abstract!Abandon(on)
      BY <2>1, <2>3, <2>4, <2>5 DEF Abstract!Abandon
    <2> QED  BY <1>0, <2>6 DEF Abstract!Next, Abstract!Gpus, Gpus
  <1>4. CASE Drain /\ ~resultReady[on]
    <2>1. /\ workPending' = workPending /\ busy' = busy /\ ticket' = ticket
          /\ engineJob' = engineJob /\ batch' = batch /\ taken' = taken
      BY <1>0, <1>4 DEF Drain, engines
    <2>2. \A g \in Gpus : resultReady[g] => result'[g] = result[g] /\ error'[g] = error[g]
      BY <1>0, <1>4 DEF Drain, TypeOK, SlotTypeOK
    <2>3. \A g \in Gpus : resultReady'[g] = resultReady[g]
      BY <1>0, <1>4 DEF Drain, TypeOK, SlotTypeOK
    <2>4. Slot' = Slot  BY <2>1, <2>2, <2>3 DEF Slot
    <2>5. Engine' = Engine  BY <2>1 DEF Engine
    <2> QED  BY <2>1, <2>4, <2>5 DEF Abstract!vars
  <1>5. CASE Restore \/ Adapt \/ Upload
    <2>1. ~Active(on)
      BY <1>0, <1>5 DEF Restore, Adapt, Upload, Taking, Consistent, CallConsistent
    <2>2. Slot[on] = Abstract!Idle  BY <1>0, <2>1, SlotOf
    <2>3. Slot' = Slot
      BY <1>5, SameSlots DEF Restore, Adapt, Upload, slots
    <2>4. \A g \in Gpus : g # on => batch'[g] = batch[g] /\ engineJob'[g] = engineJob[g]
      BY <1>0, <1>5, RestoresOne DEF Restore, Adapt, Upload, engines, TypeOK, EngineTypeOK
    <2>5. taken' = taken \/ taken' = None
      BY <1>5 DEF Restore, Adapt, Upload
    <2>6. Abstract!Configure(on)
      BY <1>0, <1>c, <1>d, <2>2, <2>3, <2>4, <2>5
         DEF Abstract!Configure, Abstract!Reconfigured
    <2> QED  BY <1>0, <2>6 DEF Abstract!Next, Abstract!Gpus, Gpus
  <1>6. CASE UNCHANGED <<slots, engineJob, batch, taken>>
    <2>1. Slot' = Slot  BY <1>6, SameSlots DEF slots
    <2>2. Engine' = Engine  BY <1>6 DEF Engine
    <2> QED  BY <1>6, <2>1, <2>2 DEF Abstract!vars
  <1>7. CASE RaiseStop
    <2>1. Slot' = Slot  BY <1>7, SameSlots DEF RaiseStop
    <2>2. Engine' = Engine /\ taken' = taken  BY <1>7 DEF RaiseStop, engines, Engine
    <2> QED  BY <2>1, <2>2 DEF Abstract!vars
  <1>8. CASE DispatchNotify \/ TakeNotify \/ DrainNotify \/ StopNotify \/ Join
    BY <1>6, <1>8 DEF DispatchNotify, TakeNotify, DrainNotify, StopNotify, Join, engines
  <1>9. CASE Decision
    BY <1>6, <1>9 DEF Decision, Notify, LoseJob, CallDrain, CallStop, RoundLaunch, Poll,
                      engines, control
  <1>10. CASE SchedulerWakesSpuriously
    BY <1>6, <1>10 DEF SchedulerWakesSpuriously, engines
  <1> QED
    BY <1>1, <1>2, <1>3, <1>4, <1>5, <1>7, <1>8, <1>9, <1>10 DEF CallStep

(* The two threads of every GPU implement its slot: a launched scan is     *)
(* finished once, on what its ticket says, and delivered or abandoned once.*)
THEOREM Implements == Spec => ImplementsScanSlots
  <1>1. IInv /\ [Next]_vars => [Abstract!Next]_(Abstract!vars)
    <2> SUFFICES ASSUME IInv, [Next]_vars PROVE [Abstract!Next]_(Abstract!vars)
      OBVIOUS
    <2>1. CASE UNCHANGED vars
      <3>1. Slot' = Slot  BY <2>1, SameSlots DEF vars, slots
      <3>2. Engine' = Engine /\ taken' = taken
        BY <2>1 DEF vars, engines, control, Engine
      <3> QED  BY <3>1, <3>2 DEF Abstract!vars
    <2>2. CASE Next /\ ~UNCHANGED vars
      BY <2>2, ThreadRefines, SchedulerRefines DEF Next, Environment, Terminated
    <2> QED  BY <2>1, <2>2
  <1> QED
    BY <1>1, InitRefines, Invariant, PTL DEF Spec, ImplementsScanSlots, Abstract!Spec
=============================================================================
