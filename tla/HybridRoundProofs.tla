--------------------------- MODULE HybridRoundProofs ---------------------------
(***************************************************************************)
(* Proofs about HybridRound, for every number of GPUs, nonce space, region *)
(* of the GPUs, set of batch sizes, CPU batch and number of jobs.          *)
(***************************************************************************)
EXTENDS HybridRound, FiniteSetTheorems, TLAPS

(* Where the thread has no round.                                          *)
Outside == {"session", "upload", "begin", "drain", "reset", "stopped"}

(* Where the thread is decides what it holds.                              *)
Control ==
    /\ at \in Outside => round = None /\ held = None /\ batch = None
    /\ at \notin Outside => round # None
    /\ held # None <=> at \in {"candidate", "gpuSubmit"}
    /\ held # None => on \in Gpus
    /\ at \in {"cpu", "service", "cpuCandidate", "cpuSubmit"} => batch # None
    /\ at \in {"round", "cpuStart", "afterCpu"} => batch = None
    /\ at \in {"cpuCandidate", "cpuSubmit"} => batch.found > 0

(* While the flag of the upload is set, the engines and the scans in       *)
(* flight are those of the current job.                                    *)
GpuLoaded(g) ==
    /\ header[g] # None /\ header[g].generation = generation
    /\ header[g].extranonce2 = extranonce2 \/ wrapped
    /\ next[g] >= RegionStart(g)
    /\ slot[g] # Idle => slot[g].generation = generation

Loading ==
    /\ valid => generation > 0
    /\ at = "upload" => generation > 0 /\ loaded = 0
    /\ at = "begin" => loaded # 0
    /\ loaded # 0 => \A g \in Gpus : GpuLoaded(g)
    /\ \A g \in Gpus : slot[g] # Idle => slot[g].header = header[g]

(* A round that has not been replaced mines the job that is loaded.        *)
RoundLoaded ==
    round # None =>
        /\ round.generation <= generation
        /\ generation = round.generation =>
                loaded # 0 /\ (round.extranonce2 = extranonce2 \/ wrapped)

(* A round that has been replaced notices before it decides anything.      *)
RoundNotices ==
    /\ at \in {"consume", "gpuSubmit", "cpuStart"} =>
            round.stale \/ generation = round.generation
    /\ at = "gpuSubmit" => generation = round.generation
    /\ at = "cpuStart" => ~round.stale

RoundOwn == RoundLoaded /\ RoundNotices

(* The candidates held, unless the job has been replaced since.            *)
HeldOwn ==
    held # None /\ generation = round.generation =>
        /\ held.header.generation = generation
        /\ held.header.extranonce2 = extranonce2 \/ wrapped

(* The CPU batch.                                                          *)
BatchOwn ==
    batch # None =>
        /\ batch.header.generation <= generation
        /\ generation = batch.header.generation =>
                batch.header.extranonce2 = extranonce2
        /\ at = "cpuSubmit" => generation = batch.header.generation

(* The cursor of the CPU is past what is used up, or at the start of a     *)
(* region of which nothing is.                                             *)
CursorAhead ==
    /\ covered \in {GpuSpace, NonceSpace} \/ covered <= nonce
    /\ loaded = 0 => covered = GpuSpace

(* After a failure only the batch that runs is waited for.                 *)
FailureHeld ==
    dead => /\ at \in {"cpu", "drain", "reset"}
            /\ at = "cpu" => ~batch.ok

(* A scan in flight has the batch size of its engine, and the task that    *)
(* waits for it remembers that size.                                       *)
ScansSized == \A g \in Gpus : slot[g] # Idle => slot[g].size = size[g]

TasksSized ==
    round # None =>
        \A g \in Gpus : round.pending[g] # Taken /\ slot[g] # Idle
                           => round.pending[g] = size[g]

(* The inductive invariant.                                                *)
IInv ==
    /\ TypeOK /\ Control /\ Loading /\ RoundOwn /\ HeldOwn /\ BatchOwn
    /\ CursorAhead /\ FailureHeld /\ RegionsApart /\ StaleForAReason
    /\ ScansSized /\ TasksSized /\ CountedWasComputed
--------------------------------------------------------------------------------
(* Regions and scans                                                       *)

(* The length of a region.                                                 *)
Length == GpuSpace \div NumGpus

LEMMA LengthFacts ==
    /\ Length \in Nat \ {0} /\ NumGpus * Length <= GpuSpace
    /\ Sizes \subseteq 1 .. Length
  <1>1. Length \in Nat /\ NumGpus * Length <= GpuSpace
    BY HybridRoundAssumption DEF Length
  <1>2. Sizes \subseteq 1 .. Length /\ Sizes # {}
    BY HybridRoundAssumption DEF Length
  <1>3. PICK count \in Sizes : count \in 1 .. Length
    BY <1>2
  <1> QED  BY <1>1, <1>2, <1>3

LEMMA SizeFacts ==
    ASSUME NEW count \in Sizes
    PROVE  count \in Nat /\ count > 0 /\ count <= Length
  BY LengthFacts

(* A region has room for every batch and lies below the CPU's.             *)
LEMMA RegionFacts ==
    ASSUME NEW g \in Gpus
    PROVE  /\ RegionStart(g) \in Nat /\ RegionEnd(g) \in Int
           /\ RegionStart(g) + Length - 1 <= RegionEnd(g)
           /\ RegionEnd(g) < GpuSpace
  <1>0. g \in Nat /\ g >= 1 /\ g <= NumGpus /\ NumGpus \in Nat /\ GpuSpace \in Nat
    BY HybridRoundAssumption DEF Gpus
  <1>1. RegionStart(g) = (g - 1) * Length
        /\ RegionEnd(g) = IF g = NumGpus THEN GpuSpace - 1 ELSE g * Length - 1
    BY DEF RegionStart, RegionEnd, Length
  <1>2. (g - 1) * Length \in Nat /\ g * Length = (g - 1) * Length + Length
    BY <1>0, LengthFacts
  <1>3. g * Length <= GpuSpace
    <2>1. NumGpus * Length = g * Length + (NumGpus - g) * Length
      BY <1>0, LengthFacts
    <2>2. (NumGpus - g) * Length \in Nat
      BY <1>0, LengthFacts
    <2> QED  BY <1>0, <1>2, <2>1, <2>2, LengthFacts
  <1> QED  BY <1>0, <1>1, <1>2, <1>3, LengthFacts

(* A scan starts in its region, leaves it nowhere, and the next one starts *)
(* behind it.                                                              *)
LEMMA ScanFits ==
    ASSUME NEW g \in Gpus, NEW count \in Sizes,
           next[g] \in Nat, next[g] >= RegionStart(g)
    PROVE  /\ ScanStart(g, count) \in 0 .. NonceSpace - 1
           /\ ScanStart(g, count) >= RegionStart(g)
           /\ ScanStart(g, count) + count - 1 <= RegionEnd(g)
           /\ ScanStart(g, count) + count \in 0 .. GpuSpace
           /\ ScanStart(g, count) + count >= RegionStart(g)
  <1>1. /\ ScanStart(g, count) \in Nat
        /\ ScanStart(g, count) >= RegionStart(g)
        /\ ScanStart(g, count) + count - 1 <= RegionEnd(g)
    <2>1. CASE LeavesRegion(g, count)
      BY <2>1, RegionFacts, SizeFacts, LengthFacts DEF ScanStart
    <2>2. CASE ~LeavesRegion(g, count)
      BY <2>2, RegionFacts, SizeFacts DEF ScanStart, LeavesRegion
    <2> QED  BY <2>1, <2>2
  <1> QED
    BY <1>1, RegionFacts, SizeFacts, HybridRoundAssumption

(* The three forms of a slot.                                              *)
LEMMA SlotForms ==
    ASSUME NEW s \in Slots
    PROVE  /\ s.state \in {"idle", "running", "done"}
           /\ s = Idle <=> s.state = "idle"
           /\ s # Idle => /\ s.generation \in Nat /\ s.header \in Header
                          /\ s.start \in 0 .. NonceSpace - 1 /\ s.size \in Sizes
           /\ s.state = "done" => /\ s.candidates \in 0 .. MaxCandidates
                                  /\ s.failed \in BOOLEAN
  BY DEF Slots, Idle

LEMMA LaunchedForm ==
    ASSUME NEW g \in Gpus, NEW count
    PROVE  /\ Launched(g, count) = [state |-> "running", generation |-> generation,
                                    header |-> header[g],
                                    start |-> ScanStart(g, count), size |-> count]
           /\ Launched(g, count) # Idle
           /\ Launched(g, count).generation = generation
           /\ Launched(g, count).header = header[g]
           /\ Launched(g, count).start = ScanStart(g, count)
           /\ Launched(g, count).size = count
  BY DEF Launched, Running, Idle

LEMMA LaunchedScan ==
    ASSUME TypeOK, NEW g \in Gpus, NEW count \in Sizes, GpuLoaded(g)
    PROVE  Launched(g, count) \in Slots
  <1>1. header[g] \in Header /\ next[g] \in Nat /\ generation \in Nat
    BY HybridRoundAssumption DEF TypeOK, GpuLoaded
  <1>2. ScanStart(g, count) \in 0 .. NonceSpace - 1
    BY <1>1, ScanFits DEF GpuLoaded
  <1> QED  BY <1>1, <1>2, LaunchedForm DEF Slots

(* A scan that ends keeps everything but its state.                        *)
LEMMA DoneForm ==
    ASSUME NEW s \in Slots, s.state = "running",
           NEW candidates \in 0 .. MaxCandidates, NEW failed \in BOOLEAN
    PROVE  /\ Done(s, candidates, failed) \in Slots
           /\ Done(s, candidates, failed) # Idle
           /\ Done(s, candidates, failed).generation = s.generation
           /\ Done(s, candidates, failed).header = s.header
           /\ Done(s, candidates, failed).start = s.start
           /\ Done(s, candidates, failed).size = s.size
           /\ Done(s, candidates, failed).state = "done"
  <1>1. /\ s.generation \in Nat /\ s.header \in Header
        /\ s.start \in 0 .. NonceSpace - 1 /\ s.size \in Sizes
    BY SlotForms DEF Idle
  <1> QED  BY <1>1 DEF Done, Slots, Idle
--------------------------------------------------------------------------------
(* What each step changes                                                  *)

(* A round is left with nothing held.                                      *)
LEMMA LeavesNothing ==
    ASSUME NEW to, Leave(to)
    PROVE  at' = to /\ round' = None /\ held' = None /\ batch' = None /\ on' = on
  BY DEF Leave

(* A failure of the socket cancels the batch that runs, or ends the round. *)
LEMMA FailForms ==
    ASSUME Control, TypeOK, SocketFails
    PROVE  \/ /\ batch # None /\ at \notin Outside
              /\ batch' = [batch EXCEPT !.ok = FALSE, !.cancel = TRUE]
              /\ at' = "cpu" /\ held' = None /\ round' = round /\ on' = on
           \/ /\ at' \in {"reset", "drain"} /\ on' = on
              /\ round' = None /\ held' = None /\ batch' = None
  <1>1. CASE PoolRunning
    BY <1>1 DEF SocketFails, Fail, PoolRunning, Control
  <1>2. CASE ~PoolRunning
    BY <1>2, LeavesNothing DEF SocketFails, Fail, Leave
  <1> QED  BY <1>1, <1>2

(* What a round, a batch and what is held are: never the value for "none". *)
LEMMA NoneIsNothing ==
    /\ \A r \in Round : r # None
    /\ \A h \in Held : h # None
    /\ \A b \in Batch : b # None
    /\ \A h \in Header : h # None
  BY HybridRoundAssumption

(* The steps that touch the GPUs, and those that touch the session.        *)
LEMMA GpuSteps ==
    ASSUME [Next]_vars
    PROVE  \/ \E g \in Gpus : FinishScan(g)
           \/ Drain \/ Upload \/ BeginRound \/ TakeError \/ Consume
           \/ UNCHANGED gpus
  <1>1. \/ Reset \/ SessionEnds \/ SessionPumped \/ LookAtGpus \/ SkipGpu
        \/ CandidatePumped \/ GpuSubmit \/ ConsumeReturns
        => UNCHANGED gpus
    BY DEF Reset, SessionEnds, SessionPumped, LookAtGpus, SkipGpu,
           CandidatePumped, GpuSubmit, ConsumeReturns
  <1>2. \/ CpuStart \/ Service \/ BatchReturns \/ CpuCandidatePumped \/ CpuSubmit
        \/ AfterCpuPumped
        => UNCHANGED gpus
    BY DEF CpuStart, Service, BatchReturns, CpuCandidatePumped, CpuSubmit,
           AfterCpuPumped
  <1>3. Environment \/ HashOne \/ UNCHANGED vars => UNCHANGED gpus
    BY DEF Environment, RequestStop, Notify, BadNotify, PumpThrows, SocketFails,
           FeeSwitch, HashOne, vars
  <1> QED  BY <1>1, <1>2, <1>3 DEF Next, ThreadStep

LEMMA SessionSteps ==
    ASSUME [Next]_vars
    PROVE  \/ Notify \/ BadNotify \/ Reset \/ Upload \/ CpuStart
           \/ UNCHANGED <<session, wrapped, covered>>
  <1>1. \/ SessionEnds \/ SessionPumped \/ Drain \/ BeginRound \/ LookAtGpus
        \/ SkipGpu \/ TakeError \/ Consume
        => UNCHANGED <<session, wrapped, covered>>
    BY DEF SessionEnds, SessionPumped, Drain, BeginRound, LookAtGpus, SkipGpu,
           TakeError, Consume, history
  <1>2. \/ CandidatePumped \/ GpuSubmit \/ ConsumeReturns \/ Service
        \/ BatchReturns \/ CpuCandidatePumped \/ CpuSubmit \/ AfterCpuPumped
        => UNCHANGED <<session, wrapped, covered>>
    BY DEF CandidatePumped, GpuSubmit, ConsumeReturns, Service, BatchReturns,
           CpuCandidatePumped, CpuSubmit, AfterCpuPumped, history
  <1>3. \/ RequestStop \/ PumpThrows \/ SocketFails \/ FeeSwitch \/ HashOne
        \/ (\E g \in Gpus : FinishScan(g)) \/ UNCHANGED vars
        => UNCHANGED <<session, wrapped, covered>>
    BY DEF RequestStop, PumpThrows, SocketFails, FeeSwitch, HashOne, FinishScan,
           history, vars
  <1> QED  BY <1>1, <1>2, <1>3 DEF Next, ThreadStep, Environment
--------------------------------------------------------------------------------
(* Where the thread is, and what it holds                                  *)

ThreadType ==
    /\ at \in ThreadAt /\ on \in 1 .. NumGpus + 1
    /\ round \in Round \cup {None}
    /\ held \in Held \cup {None}
    /\ batch \in Batch \cup {None}

LEMMA ThreadTyped == TypeOK => ThreadType
  BY DEF TypeOK, ThreadType

(* Updates of a record keep it one.                                        *)
LEMMA StaleSet ==
    ASSUME NEW r \in Round, NEW b \in BOOLEAN
    PROVE  /\ [r EXCEPT !.stale = b] \in Round
           /\ [r EXCEPT !.stale = b].generation = r.generation
           /\ [r EXCEPT !.stale = b].extranonce2 = r.extranonce2
           /\ [r EXCEPT !.stale = b].pending = r.pending
           /\ [r EXCEPT !.stale = b].stale = b
  BY DEF Round

LEMMA StaleIsBoolean ==
    ASSUME NEW r \in Round
    PROVE  r.stale \in BOOLEAN /\ r.generation \in Nat
           /\ r.extranonce2 \in 0 .. Extranonces - 1
           /\ r.pending \in [Gpus -> Sizes \cup {Taken}]
  BY DEF Round

LEMMA BatchFields ==
    ASSUME NEW b \in Batch
    PROVE  /\ b.header \in Header /\ b.start \in GpuSpace .. NonceSpace - 1
           /\ b.done \in 0 .. CpuTotal /\ b.found \in 0 .. MaxCandidates
           /\ b.cancel \in BOOLEAN /\ b.ok \in BOOLEAN
  BY DEF Batch

LEMMA BatchSet ==
    ASSUME NEW b \in Batch, NEW done \in 0 .. CpuTotal,
           NEW found \in 0 .. MaxCandidates,
           NEW cancel \in BOOLEAN
    PROVE  /\ [b EXCEPT !.done = done, !.found = found] \in Batch
           /\ [b EXCEPT !.cancel = cancel] \in Batch
           /\ [b EXCEPT !.ok = FALSE, !.cancel = cancel] \in Batch
           /\ [b EXCEPT !.found = found] \in Batch
  BY DEF Batch

LEMMA StaleTyped ==
    ASSUME round \in Round
    PROVE  Stale \in BOOLEAN
  BY StaleIsBoolean DEF Stale

(* Steps that end a round, or take place outside of one.                   *)
LEMMA OutsideControl ==
    ASSUME at' \in Outside, round' = None, held' = None, batch' = None,
           on' \in 1 .. NumGpus + 1
    PROVE  ThreadType' /\ Control'
  BY DEF ThreadType, Control, Outside, ThreadAt, PumpAt

LEMMA OutsideSteps ==
    ASSUME TypeOK, Control,
           \/ Reset \/ SessionEnds \/ SessionPumped \/ Drain \/ Upload
           \/ TakeError \/ PumpThrows \/ FeeSwitch
    PROVE  ThreadType' /\ Control'
  <1>0. on \in 1 .. NumGpus + 1
    BY DEF TypeOK
  <1>1. CASE Reset \/ SessionEnds \/ SessionPumped \/ Drain
    BY <1>0, <1>1, OutsideControl
    DEF Reset, SessionEnds, SessionPumped, Drain, Control, Outside
  <1>2. CASE Upload
    BY <1>0, <1>2, OutsideControl DEF Upload, Control, Outside
  <1>3. CASE TakeError \/ PumpThrows \/ FeeSwitch
    BY <1>0, <1>3, OutsideControl, LeavesNothing
    DEF TakeError, PumpThrows, FeeSwitch, Throw, Outside
  <1> QED  BY <1>1, <1>2, <1>3

(* Steps of the environment in a round.                                    *)
LEMMA EnvironmentControl ==
    ASSUME TypeOK, Control,
           \/ RequestStop \/ Notify \/ BadNotify \/ UNCHANGED vars
           \/ \E g \in Gpus : FinishScan(g)
    PROVE  ThreadType' /\ Control'
  <1>1. UNCHANGED thread
    BY DEF RequestStop, Notify, BadNotify, FinishScan, vars
  <1> QED  BY <1>1 DEF thread, TypeOK, ThreadType, Control

LEMMA HashOneControl ==
    ASSUME TypeOK, Control, HashOne
    PROVE  ThreadType' /\ Control'
  <1>1. PICK found \in {batch.found, batch.found + 1} :
           /\ found <= MaxCandidates
           /\ batch' = [batch EXCEPT !.done = @ + 1, !.found = found]
    BY DEF HashOne
  <1>2. batch \in Batch /\ batch.done < CpuTotal /\ UNCHANGED <<at, on, round, held>>
        /\ at \notin {"cpuCandidate", "cpuSubmit"} /\ batch # None
    BY DEF HashOne, PoolRunning, TypeOK
  <1>3. batch.done + 1 \in 0 .. CpuTotal /\ found \in 0 .. MaxCandidates
    BY <1>1, <1>2, BatchFields, HybridRoundAssumption
  <1>4. batch' \in Batch
    BY <1>1, <1>2, <1>3, BatchFields, BatchSet
  <1>5. batch' # None
    BY <1>4, NoneIsNothing
  <1> QED  BY <1>2, <1>4, <1>5 DEF TypeOK, ThreadType, Control, Outside

LEMMA FailControl ==
    ASSUME TypeOK, Control, SocketFails
    PROVE  ThreadType' /\ Control'
  <1>0. on \in 1 .. NumGpus + 1
    BY DEF TypeOK
  <1>1. CASE /\ batch # None /\ at \notin Outside
             /\ batch' = [batch EXCEPT !.ok = FALSE, !.cancel = TRUE]
             /\ at' = "cpu" /\ held' = None /\ round' = round /\ on' = on
    <2>1. batch' \in Batch
      BY <1>1, BatchSet, BatchFields DEF TypeOK
    <2>2. batch' # None /\ round' # None /\ round \in Round
      BY <1>1, <2>1, NoneIsNothing DEF Control, TypeOK
    <2> QED
      BY <1>0, <1>1, <2>1, <2>2
      DEF ThreadType, Control, Outside, ThreadAt, PumpAt
  <1>2. CASE /\ at' \in {"reset", "drain"} /\ on' = on
             /\ round' = None /\ held' = None /\ batch' = None
    BY <1>0, <1>2, OutsideControl DEF Outside
  <1> QED  BY <1>1, <1>2, FailForms

LEMMA BeginControl ==
    ASSUME TypeOK, Control, BeginRound
    PROVE  ThreadType' /\ Control'
  <1>0. on' = on /\ on \in 1 .. NumGpus + 1
        /\ round = None /\ held' = None /\ batch' = None
    BY DEF BeginRound, TypeOK, Control, Outside
  <1>1. CASE stop
    BY <1>0, <1>1, OutsideControl DEF BeginRound, Outside
  <1>2. CASE ~stop
    <2>1. PICK count \in [Gpus -> Sizes] :
             /\ round' = [generation |-> generation, extranonce2 |-> extranonce2,
                          pending |-> [g \in Gpus |-> TaskCount(g, count[g])],
                          stale |-> FALSE]
             /\ at' = "round"
      BY <1>2 DEF BeginRound
    <2>2. [g \in Gpus |-> TaskCount(g, count[g])] \in [Gpus -> Sizes \cup {Taken}]
      BY DEF TaskCount, TypeOK
    <2>3. round' \in Round
      BY <2>1, <2>2 DEF Round, TypeOK
    <2>4. round' # None
      BY <2>3, NoneIsNothing
    <2> QED
      BY <1>0, <2>1, <2>3, <2>4 DEF ThreadType, Control, Outside, ThreadAt, PumpAt
  <1> QED  BY <1>1, <1>2

(* A round at hand.                                                        *)
LEMMA RoundHeld ==
    ASSUME TypeOK, Control, at \notin Outside
    PROVE  round \in Round /\ round # None /\ Stale \in BOOLEAN
           /\ on \in 1 .. NumGpus + 1
  BY StaleTyped DEF TypeOK, Control

LEMMA LookControl ==
    ASSUME TypeOK, Control, LookAtGpus
    PROVE  ThreadType' /\ Control'
  <1>1. round' = [round EXCEPT !.stale = Stale] /\ round \in Round
        /\ Stale \in BOOLEAN
    BY RoundHeld DEF LookAtGpus, Outside
  <1>2. round' \in Round
    BY <1>1, StaleSet
  <1>3. round' # None
    BY <1>2, NoneIsNothing
  <1>4. at' = "consume" /\ on' = 1 /\ held' = None /\ batch' = batch
    BY DEF LookAtGpus, Control
  <1>5. on' \in 1 .. NumGpus + 1
    BY <1>4, HybridRoundAssumption
  <1> QED
    BY <1>2, <1>3, <1>4, <1>5
    DEF TypeOK, ThreadType, Control, Outside, ThreadAt, PumpAt

LEMMA NextOn ==
    ASSUME on \in Gpus
    PROVE  on + 1 \in 1 .. NumGpus + 1
  BY HybridRoundAssumption DEF Gpus

LEMMA SkipControl ==
    ASSUME TypeOK, Control, SkipGpu
    PROVE  ThreadType' /\ Control'
  <1>1. on' = on + 1 /\ on \in Gpus /\ UNCHANGED <<at, round, held, batch>>
        /\ at = "consume"
    BY DEF SkipGpu
  <1>2. on' \in 1 .. NumGpus + 1
    BY <1>1, NextOn
  <1> QED  BY <1>1, <1>2 DEF TypeOK, ThreadType, Control, Outside

(* What a consumed result leaves: the scan that follows, and the round and *)
(* the candidates if it was fresh.                                         *)
LEMMA ConsumeForm ==
    ASSUME TypeOK, Control, Consume
    PROVE  /\ at = "consume" /\ on \in Gpus /\ slot[on] \in Slots
           /\ slot[on].state = "done" /\ Ready(on)
           /\ round \in Round /\ round' \in Round /\ batch' = batch
           /\ round'.generation = round.generation
           /\ round'.extranonce2 = round.extranonce2
           /\ round'.stale = ~Relaunches(on)
           /\ \/ /\ ~ResultStale(on) /\ slot[on].candidates > 0
                 /\ held' = [header |-> slot[on].header,
                             left |-> slot[on].candidates]
                 /\ at' = "candidate" /\ on' = on
              \/ on' = on + 1 /\ UNCHANGED <<at, held>>
           /\ \E count \in Sizes :
                 /\ size' = [size EXCEPT ![on] = count]
                 /\ slot' = [slot EXCEPT ![on] =
                                IF Relaunches(on) THEN Launched(on, count) ELSE Idle]
                 /\ next' = IF Relaunches(on)
                            THEN [next EXCEPT ![on] = ScanStart(on, count) + count]
                            ELSE next
  <1>1. /\ at = "consume" /\ on \in Gpus /\ slot[on] \in Slots
        /\ slot[on].state = "done" /\ Ready(on)
        /\ batch' = batch
    BY DEF Consume, Ready, TypeOK
  <1>2. round \in Round
    BY <1>1, RoundHeld DEF Outside
  <1>3. Relaunches(on) \in BOOLEAN
    BY DEF Relaunches
  <1>4. round' = [round EXCEPT !.pending[on] = Taken, !.stale = ~Relaunches(on)]
    BY DEF Consume
  <1>5. /\ round' \in Round
        /\ round'.generation = round.generation
        /\ round'.extranonce2 = round.extranonce2
        /\ round'.stale = ~Relaunches(on)
    <2>1. PICK b \in BOOLEAN : b = ~Relaunches(on)
      OBVIOUS
    <2>2. round' = [round EXCEPT !.pending[on] = Taken, !.stale = b]
      BY <1>4, <2>1
    <2> DEFINE p == [round.pending EXCEPT ![on] = Taken]
    <2>3. p \in [Gpus -> Sizes \cup {Taken}]
      BY <1>1, <1>2, StaleIsBoolean
    <2>4. round = [generation |-> round.generation, extranonce2 |-> round.extranonce2,
                   pending |-> round.pending, stale |-> round.stale]
      BY <1>2 DEF Round
    <2>5. round' = [generation |-> round.generation,
                    extranonce2 |-> round.extranonce2, pending |-> p, stale |-> b]
      BY <2>2, <2>4
    <2> HIDE DEF p
    <2>6. round' \in Round
      BY <1>2, <2>3, <2>5, StaleIsBoolean DEF Round
    <2>7. round'.stale = b
      BY <2>5
    <2> QED  BY <2>1, <2>5, <2>6, <2>7
  <1>6. \/ /\ ~ResultStale(on) /\ slot[on].candidates > 0
           /\ held' = [header |-> slot[on].header, left |-> slot[on].candidates]
           /\ at' = "candidate" /\ on' = on
        \/ on' = on + 1 /\ UNCHANGED <<at, held>>
    BY DEF Consume
  <1>7. \E count \in Sizes :
           /\ size' = [size EXCEPT ![on] = count]
           /\ slot' = [slot EXCEPT ![on] =
                          IF Relaunches(on) THEN Launched(on, count) ELSE Idle]
           /\ next' = IF Relaunches(on)
                      THEN [next EXCEPT ![on] = ScanStart(on, count) + count]
                      ELSE next
    BY DEF Consume
  <1> QED  BY <1>1, <1>2, <1>5, <1>6, <1>7

LEMMA ConsumeControl ==
    ASSUME TypeOK, Control, Consume
    PROVE  ThreadType' /\ Control'
  <1>1. /\ at = "consume" /\ on \in Gpus /\ slot[on] \in Slots
        /\ slot[on].state = "done"
        /\ round' \in Round /\ batch' = batch /\ held = None
    BY ConsumeForm DEF Control
  <1>2. round' # None
    BY <1>1, NoneIsNothing
  <1>3. CASE /\ slot[on].candidates > 0
             /\ held' = [header |-> slot[on].header, left |-> slot[on].candidates]
             /\ at' = "candidate" /\ on' = on
    <2>1. slot[on].header \in Header /\ slot[on].candidates \in 1 .. MaxCandidates
      BY <1>1, <1>3, SlotForms, HybridRoundAssumption
    <2>2. held' \in Held
      BY <1>3, <2>1 DEF Held
    <2>3. held' # None
      BY <2>2, NoneIsNothing
    <2> QED
      BY <1>1, <1>2, <1>3, <2>2, <2>3
      DEF TypeOK, ThreadType, Control, Outside, ThreadAt, PumpAt
  <1>4. CASE on' = on + 1 /\ UNCHANGED <<at, held>>
    <2>1. on' \in 1 .. NumGpus + 1
      BY <1>1, <1>4, NextOn
    <2> QED
      BY <1>1, <1>2, <1>4, <2>1 DEF TypeOK, ThreadType, Control, Outside
  <1> QED  BY <1>3, <1>4, ConsumeForm

LEMMA CandidateControl ==
    ASSUME TypeOK, Control, CandidatePumped
    PROVE  ThreadType' /\ Control'
  <1>1. /\ at = "candidate" /\ round' = [round EXCEPT !.stale = Stale]
        /\ batch' = batch /\ round \in Round /\ Stale \in BOOLEAN
        /\ held # None /\ on \in Gpus
    BY RoundHeld DEF CandidatePumped, Outside, Control
  <1>2. round' \in Round
    BY <1>1, StaleSet
  <1>3. round' # None
    BY <1>2, NoneIsNothing
  <1>4. CASE held' = None /\ at' = "consume" /\ on' = on + 1
    <2>1. on' \in 1 .. NumGpus + 1
      BY <1>1, <1>4, NextOn
    <2> QED
      BY <1>1, <1>2, <1>3, <1>4, <2>1
      DEF TypeOK, ThreadType, Control, Outside, ThreadAt, PumpAt
  <1>5. CASE at' = "gpuSubmit" /\ UNCHANGED <<held, on>>
    BY <1>1, <1>2, <1>3, <1>5
    DEF TypeOK, ThreadType, Control, Outside, ThreadAt, PumpAt
  <1> QED  BY <1>4, <1>5 DEF CandidatePumped

LEMMA SubmitControl ==
    ASSUME TypeOK, Control, GpuSubmit
    PROVE  ThreadType' /\ Control'
  <1>1. /\ at = "gpuSubmit" /\ round' = round /\ batch' = batch
        /\ held \in Held /\ on \in Gpus /\ round # None
    BY DEF GpuSubmit, Control, TypeOK, Outside
  <1>2. CASE held' = None /\ at' = "consume" /\ on' = on + 1
    <2>1. on' \in 1 .. NumGpus + 1
      BY <1>1, <1>2, NextOn
    <2> QED
      BY <1>1, <1>2, <2>1
      DEF TypeOK, ThreadType, Control, Outside, ThreadAt, PumpAt
  <1>3. CASE /\ held.left # 1 /\ held' = [held EXCEPT !.left = @ - 1]
             /\ at' = "candidate" /\ on' = on
    <2>1. held' \in Held
      BY <1>1, <1>3, HybridRoundAssumption DEF Held
    <2>2. held' # None
      BY <2>1, NoneIsNothing
    <2> QED
      BY <1>1, <1>3, <2>1, <2>2
      DEF TypeOK, ThreadType, Control, Outside, ThreadAt, PumpAt
  <1> QED  BY <1>2, <1>3 DEF GpuSubmit

LEMMA ReturnControl ==
    ASSUME TypeOK, Control, ConsumeReturns
    PROVE  ThreadType' /\ Control'
  <1>1. /\ at = "consume" /\ round # None /\ held = None
        /\ on \in 1 .. NumGpus + 1
    BY RoundHeld DEF ConsumeReturns, Control, Outside
  <1>2. CASE batch # None
    <2>1. batch \in Batch /\ (batch.cancel \/ CancelsBatch) \in BOOLEAN
      BY <1>2, BatchFields DEF TypeOK
    <2>2. batch' = [batch EXCEPT !.cancel = batch.cancel \/ CancelsBatch]
          /\ at' = "cpu" /\ UNCHANGED <<on, round, held>>
      BY <1>2 DEF ConsumeReturns
    <2>3. PICK cancel \in BOOLEAN : cancel = (batch.cancel \/ CancelsBatch)
      BY <2>1
    <2>4. batch' = [batch EXCEPT !.cancel = cancel]
      BY <2>2, <2>3
    <2>5. batch' \in Batch
      BY <2>1, <2>4 DEF Batch
    <2>6. batch' # None
      BY <2>5, NoneIsNothing
    <2> QED
      BY <1>1, <2>2, <2>5, <2>6
      DEF TypeOK, ThreadType, Control, Outside, ThreadAt, PumpAt
  <1>3. CASE batch = None /\ at' = "cpuStart" /\ UNCHANGED <<on, round, held, batch>>
    BY <1>1, <1>3 DEF TypeOK, ThreadType, Control, Outside, ThreadAt, PumpAt
  <1>4. CASE batch = None /\ at' = "round" /\ UNCHANGED <<on, round, held, batch>>
    BY <1>1, <1>4 DEF TypeOK, ThreadType, Control, Outside, ThreadAt, PumpAt
  <1>5. CASE Leave("session")
    BY <1>1, <1>5, OutsideControl, LeavesNothing DEF Outside
  <1> QED  BY <1>2, <1>3, <1>4, <1>5 DEF ConsumeReturns, Continue

(* The forms of a CPU batch that begins.                                   *)
LEMMA CpuStartForm ==
    ASSUME TypeOK, Control, CpuStart
    PROVE  /\ at = "cpuStart" /\ batch = None
           /\ UNCHANGED <<on, round, held>>
           /\ \/ /\ at' = "afterCpu" /\ batch' = None
                 /\ UNCHANGED <<extranonce2, nonce, wrapped, covered>>
              \/ \E start \in GpuSpace .. NonceSpace - 1, wraps \in BOOLEAN :
                    /\ ~stop
                    /\ start + CpuTotal <= NonceSpace
                    /\ ~wraps => start >= nonce
                    /\ extranonce2' = IF wraps THEN NextExtranonce ELSE extranonce2
                    /\ wrapped' = (wrapped \/ wraps)
                    /\ \/ /\ at' = "afterCpu" /\ batch' = None
                          /\ nonce' = start
                          /\ covered' = IF wraps THEN GpuSpace ELSE covered
                       \/ /\ at' = "cpu"
                          /\ batch' = [header |-> [generation |-> generation,
                                                  extranonce2 |-> extranonce2'],
                                       start |-> start, done |-> 0, found |-> 0,
                                       cancel |-> FALSE, ok |-> TRUE]
                          /\ nonce' = (start + CpuTotal) % NonceSpace
                          /\ covered' = start + CpuTotal
  <1>1. at = "cpuStart" /\ batch = None /\ UNCHANGED <<on, round, held>>
    BY DEF CpuStart, Control
  <1>2. CASE stop
    BY <1>1, <1>2 DEF CpuStart
  <1>3. CASE ~stop
    <2> DEFINE from  == IF nonce < GpuSpace THEN GpuSpace ELSE nonce
               wraps == CpuWraps(from)
               start == IF wraps THEN GpuSpace ELSE from
    <2>1. /\ nonce \in Nat /\ nonce < NonceSpace /\ GpuSpace \in Nat
          /\ GpuSpace < NonceSpace /\ NonceSpace \in Nat
          /\ CpuTotal \in Nat /\ CpuTotal <= NonceSpace - GpuSpace
      BY HybridRoundAssumption DEF TypeOK
    <2>2. start \in GpuSpace .. NonceSpace - 1 /\ start + CpuTotal <= NonceSpace
      BY <2>1 DEF CpuWraps
    <2>3. ~wraps => start >= nonce
      BY <2>1
    <2>4. wraps \in BOOLEAN
      BY DEF CpuWraps
    <2>5. /\ extranonce2' = IF wraps THEN NextExtranonce ELSE extranonce2
          /\ wrapped' = (wrapped \/ wraps)
          /\ \/ /\ at' = "afterCpu" /\ batch' = batch
                /\ nonce' = start
                /\ covered' = IF wraps THEN GpuSpace ELSE covered
             \/ /\ at' = "cpu"
                /\ batch' = [header |-> [generation |-> generation,
                                        extranonce2 |-> extranonce2'],
                             start |-> start, done |-> 0, found |-> 0,
                             cancel |-> FALSE, ok |-> TRUE]
                /\ nonce' = (start + CpuTotal) % NonceSpace
                /\ covered' = start + CpuTotal
      BY <1>3 DEF CpuStart, CpuRegionStart
    <2> HIDE DEF from, wraps, start
    <2> QED  BY <1>1, <1>3, <2>2, <2>3, <2>4, <2>5
  <1> QED  BY <1>2, <1>3

(* The next extranonce2 is another one.                                    *)
LEMMA ExtranonceMoves ==
    ASSUME TypeOK
    PROVE  NextExtranonce \in 0 .. Extranonces - 1 /\ NextExtranonce # extranonce2
  <1>1. extranonce2 \in 0 .. Extranonces - 1 /\ Extranonces \in Nat /\ Extranonces > 1
    BY HybridRoundAssumption DEF TypeOK
  <1>2. CASE extranonce2 + 1 = Extranonces
    <2>1. NextExtranonce = 0
      BY <1>1, <1>2 DEF NextExtranonce
    <2> QED  BY <1>1, <1>2, <2>1
  <1>3. CASE extranonce2 + 1 # Extranonces
    <2>1. NextExtranonce = extranonce2 + 1
      BY <1>1, <1>3 DEF NextExtranonce
    <2> QED  BY <1>1, <1>3, <2>1
  <1> QED  BY <1>2, <1>3

LEMMA CpuStartControl ==
    ASSUME TypeOK, Control, CpuStart
    PROVE  ThreadType' /\ Control'
  <1>1. /\ at = "cpuStart" /\ batch = None /\ UNCHANGED <<on, round, held>>
        /\ round # None /\ held = None
    BY CpuStartForm DEF Control, Outside
  <1>2. CASE at' = "afterCpu" /\ batch' = None
    BY <1>1, <1>2 DEF TypeOK, ThreadType, Control, Outside, ThreadAt, PumpAt
  <1>3. CASE \E start \in GpuSpace .. NonceSpace - 1, wraps \in BOOLEAN :
                /\ extranonce2' = IF wraps THEN NextExtranonce ELSE extranonce2
                /\ at' = "cpu"
                /\ batch' = [header |-> [generation |-> generation,
                                        extranonce2 |-> extranonce2'],
                             start |-> start, done |-> 0, found |-> 0,
                             cancel |-> FALSE, ok |-> TRUE]
    <2>1. PICK start \in GpuSpace .. NonceSpace - 1 :
             /\ extranonce2' \in {NextExtranonce, extranonce2}
             /\ at' = "cpu"
             /\ batch' = [header |-> [generation |-> generation,
                                     extranonce2 |-> extranonce2'],
                          start |-> start, done |-> 0, found |-> 0,
                          cancel |-> FALSE, ok |-> TRUE]
      BY <1>3
    <2>2. [generation |-> generation, extranonce2 |-> extranonce2'] \in Header
      BY <2>1, ExtranonceMoves DEF Header, TypeOK
    <2>3. 0 \in 0 .. CpuTotal /\ 0 \in 0 .. MaxCandidates
      BY HybridRoundAssumption
    <2>4. batch' \in Batch
      BY <2>1, <2>2, <2>3 DEF Batch
    <2>5. batch' # None
      BY <2>4, NoneIsNothing
    <2> QED
      BY <1>1, <2>1, <2>4, <2>5
      DEF TypeOK, ThreadType, Control, Outside, ThreadAt, PumpAt
  <1> QED  BY <1>2, <1>3, CpuStartForm

LEMMA ServiceControl ==
    ASSUME TypeOK, Control, Service
    PROVE  ThreadType' /\ Control'
  BY DEF Service, TypeOK, ThreadType, Control, Outside, ThreadAt, PumpAt

LEMMA BatchReturnsControl ==
    ASSUME TypeOK, Control, BatchReturns
    PROVE  ThreadType' /\ Control'
  <1>1. /\ at = "cpu" /\ batch \in Batch /\ batch # None /\ round # None
        /\ held = None
    BY DEF BatchReturns, TypeOK, Control, Outside
  <1>2. CASE Leave("drain")
    BY <1>2, OutsideControl, LeavesNothing DEF Outside, TypeOK
  <1>3. CASE batch' = None /\ at' = "afterCpu" /\ UNCHANGED <<on, round, held>>
    BY <1>1, <1>3 DEF TypeOK, ThreadType, Control, Outside, ThreadAt, PumpAt
  <1>4. CASE /\ batch.found # 0 /\ at' = "cpuCandidate"
             /\ UNCHANGED <<on, round, held, batch>>
    <2>1. batch.found > 0
      BY <1>1, <1>4, BatchFields, HybridRoundAssumption
    <2> QED
      BY <1>1, <1>4, <2>1 DEF TypeOK, ThreadType, Control, Outside, ThreadAt, PumpAt
  <1> QED  BY <1>2, <1>3, <1>4 DEF BatchReturns

LEMMA CpuCandidateControl ==
    ASSUME TypeOK, Control, CpuCandidatePumped
    PROVE  ThreadType' /\ Control'
  <1>1. /\ at = "cpuCandidate" /\ batch # None /\ round # None /\ held = None
        /\ batch.found > 0 /\ UNCHANGED <<on, round, held>>
    BY DEF CpuCandidatePumped, Control, Outside
  <1>2. CASE at' = "cpuSubmit" /\ batch' = batch
    BY <1>1, <1>2 DEF TypeOK, ThreadType, Control, Outside, ThreadAt, PumpAt
  <1>3. CASE at' = "afterCpu" /\ batch' = None
    BY <1>1, <1>3 DEF TypeOK, ThreadType, Control, Outside, ThreadAt, PumpAt
  <1> QED  BY <1>2, <1>3 DEF CpuCandidatePumped

LEMMA CpuSubmitControl ==
    ASSUME TypeOK, Control, CpuSubmit
    PROVE  ThreadType' /\ Control'
  <1>1. /\ at = "cpuSubmit" /\ batch \in Batch /\ round # None /\ held = None
        /\ batch.found > 0 /\ UNCHANGED <<on, round, held>>
    BY DEF CpuSubmit, Control, Outside, TypeOK
  <1>2. CASE at' = "afterCpu" /\ batch' = None
    BY <1>1, <1>2 DEF TypeOK, ThreadType, Control, Outside, ThreadAt, PumpAt
  <1>3. CASE /\ batch.found # 1 /\ batch' = [batch EXCEPT !.found = @ - 1]
             /\ at' = "cpuCandidate"
    <2>1. batch.found - 1 \in 0 .. MaxCandidates /\ batch.found - 1 > 0
      BY <1>1, <1>3, BatchFields, HybridRoundAssumption
    <2>2. batch' \in Batch /\ batch'.found = batch.found - 1
      BY <1>1, <1>3, <2>1 DEF Batch
    <2>3. batch' # None
      BY <2>2, NoneIsNothing
    <2> QED
      BY <1>1, <1>3, <2>1, <2>2, <2>3
      DEF TypeOK, ThreadType, Control, Outside, ThreadAt, PumpAt
  <1> QED  BY <1>2, <1>3 DEF CpuSubmit

LEMMA AfterCpuControl ==
    ASSUME TypeOK, Control, AfterCpuPumped
    PROVE  ThreadType' /\ Control'
  <1>1. at = "afterCpu" /\ round \in Round /\ Stale \in BOOLEAN /\ batch = None
        /\ held = None /\ on \in 1 .. NumGpus + 1
    BY RoundHeld DEF AfterCpuPumped, Outside, Control
  <1>2. CASE /\ round' = [round EXCEPT !.stale = Stale] /\ at' = "round"
             /\ UNCHANGED <<on, held, batch>>
    <2>1. round' \in Round
      BY <1>1, <1>2, StaleSet
    <2>2. round' # None
      BY <2>1, NoneIsNothing
    <2> QED
      BY <1>1, <1>2, <2>1, <2>2
      DEF TypeOK, ThreadType, Control, Outside, ThreadAt, PumpAt
  <1>3. CASE Leave("session")
    BY <1>1, <1>3, OutsideControl, LeavesNothing DEF Outside
  <1> QED  BY <1>2, <1>3 DEF AfterCpuPumped

LEMMA NextControl ==
    ASSUME TypeOK, Control, [Next]_vars
    PROVE  ThreadType' /\ Control'
  BY OutsideSteps, EnvironmentControl, HashOneControl, FailControl, BeginControl,
     LookControl, SkipControl, ConsumeControl, CandidateControl, SubmitControl,
     ReturnControl, CpuStartControl, ServiceControl, BatchReturnsControl,
     CpuCandidateControl, CpuSubmitControl, AfterCpuControl
  DEF Next, ThreadStep, Environment
--------------------------------------------------------------------------------
(* The GPUs                                                                *)

GpuType ==
    /\ header \in [Gpus -> Header \cup {None}]
    /\ size \in [Gpus -> Sizes]
    /\ next \in [Gpus -> 0 .. GpuSpace]
    /\ slot \in [Gpus -> Slots]

(* A scan is launched for the current job only: at the start of a round    *)
(* and after a fresh result.                                               *)
LEMMA BeginLoaded ==
    ASSUME Loading, BeginRound, NEW g \in Gpus
    PROVE  loaded # 0 /\ GpuLoaded(g)
  BY DEF Loading, BeginRound

LEMMA RelaunchLoaded ==
    ASSUME TypeOK, Control, Loading, RoundOwn, Consume, Relaunches(on),
           NEW g \in Gpus
    PROVE  loaded # 0 /\ GpuLoaded(g) /\ generation = round.generation
  <1>1. round # None
    BY DEF Consume, Control, Outside
  <1>2. generation = round.generation
    BY DEF Relaunches, ResultStale, Stale
  <1> QED  BY <1>1, <1>2 DEF Loading, RoundOwn, RoundLoaded

(* The forms of the slots and cursors when a round begins.                 *)
LEMMA BeginForm ==
    ASSUME BeginRound, ~stop
    PROVE  \E count \in [Gpus -> Sizes] :
              /\ slot' = [g \in Gpus |-> IF Active(g) THEN slot[g]
                                        ELSE Launched(g, count[g])]
              /\ next' = [g \in Gpus |-> IF Active(g) THEN next[g]
                                        ELSE ScanStart(g, count[g]) + count[g]]
              /\ size' = count
              /\ header' = header
  BY DEF BeginRound

LEMMA FinishForm ==
    ASSUME TypeOK, NEW g \in Gpus, FinishScan(g)
    PROVE  /\ slot' = [slot EXCEPT ![g] = slot'[g]]
           /\ slot[g] # Idle /\ slot[g] \in Slots
           /\ slot'[g] \in Slots /\ slot'[g] # Idle
           /\ slot'[g].generation = slot[g].generation
           /\ slot'[g].header = slot[g].header
           /\ slot'[g].start = slot[g].start /\ slot'[g].size = slot[g].size
           /\ slot'[g].state = "done" /\ slot[g].state = "running"
  <1>1. slot \in [Gpus -> Slots] /\ slot[g] \in Slots /\ slot[g].state = "running"
    BY DEF FinishScan, TypeOK
  <1>2. slot[g] # Idle
    BY <1>1 DEF Idle
  <1>3. \E candidates \in 0 .. MaxCandidates, failed \in BOOLEAN :
           slot' = [slot EXCEPT ![g] = Done(slot[g], candidates, failed)]
    <2>1. CASE \E candidates \in 0 .. MaxCandidates :
                  slot' = [slot EXCEPT ![g] = Done(@, candidates, FALSE)]
      BY <2>1
    <2>2. CASE slot' = [slot EXCEPT ![g] = Done(@, 0, TRUE)]
      <3>1. 0 \in 0 .. MaxCandidates
        BY HybridRoundAssumption
      <3> QED  BY <2>2, <3>1
    <2> QED  BY <2>1, <2>2 DEF FinishScan
  <1>4. PICK candidates \in 0 .. MaxCandidates, failed \in BOOLEAN :
           slot' = [slot EXCEPT ![g] = Done(slot[g], candidates, failed)]
    BY <1>3
  <1>5. slot'[g] = Done(slot[g], candidates, failed)
    BY <1>1, <1>4
  <1> QED  BY <1>1, <1>2, <1>4, <1>5, DoneForm

LEMMA NextGpuType ==
    ASSUME TypeOK, Control, Loading, RoundOwn, [Next]_vars
    PROVE  GpuType'
  <1>0. GpuType
    BY DEF TypeOK, GpuType
  <1>1. CASE \E g \in Gpus : FinishScan(g)
    <2>1. PICK g \in Gpus : FinishScan(g)
      BY <1>1
    <2>2. slot[g] \in Slots /\ slot[g].state = "running"
      BY <2>1 DEF FinishScan, TypeOK
    <2>3. slot' = [slot EXCEPT ![g] = slot'[g]] /\ slot'[g] \in Slots
      BY <2>1, FinishForm
    <2> QED  BY <1>0, <2>1, <2>3 DEF FinishScan, GpuType
  <1>2. CASE Drain
    BY <1>0, <1>2 DEF Drain, Drained, GpuType, Slots
  <1>3. CASE Upload
    <2>1. PICK uploaded \in 0 .. NumGpus :
             /\ header' = [g \in Gpus |->
                              IF g <= uploaded THEN CurrentHeader ELSE header[g]]
             /\ next' = [g \in Gpus |->
                            IF g <= uploaded THEN RegionStart(g) ELSE next[g]]
             /\ size' \in [Gpus -> Sizes]
      BY <1>3 DEF Upload
    <2>2. CurrentHeader \in Header
      BY DEF CurrentHeader, Header, TypeOK
    <2>3. \A g \in Gpus : RegionStart(g) \in 0 .. GpuSpace
      BY RegionFacts, LengthFacts, HybridRoundAssumption
    <2>4. header' \in [Gpus -> Header \cup {None}]
      BY <1>0, <2>1, <2>2 DEF GpuType
    <2>5. next' \in [Gpus -> 0 .. GpuSpace]
      BY <1>0, <2>1, <2>3 DEF GpuType
    <2>6. slot' \in [Gpus -> Slots]
      BY <1>3 DEF Upload, Drained, Slots
    <2> QED  BY <2>1, <2>4, <2>5, <2>6 DEF GpuType
  <1>4. CASE BeginRound
    <2>1. CASE stop
      BY <1>0, <1>4, <2>1 DEF BeginRound, GpuType, gpus
    <2>2. CASE ~stop
      <3>1. PICK count \in [Gpus -> Sizes] :
               /\ slot' = [g \in Gpus |-> IF Active(g) THEN slot[g]
                                         ELSE Launched(g, count[g])]
               /\ next' = [g \in Gpus |-> IF Active(g) THEN next[g]
                                         ELSE ScanStart(g, count[g]) + count[g]]
               /\ size' = count
               /\ header' = header
        BY <1>4, <2>2, BeginForm
      <3>2. \A g \in Gpus : Launched(g, count[g]) \in Slots
        BY <1>4, BeginLoaded, LaunchedScan
      <3>3. \A g \in Gpus : ScanStart(g, count[g]) + count[g] \in 0 .. GpuSpace
        BY <1>0, <1>4, BeginLoaded, ScanFits, HybridRoundAssumption
        DEF GpuLoaded, GpuType
      <3> QED  BY <1>0, <3>1, <3>2, <3>3 DEF GpuType
    <2> QED  BY <2>1, <2>2
  <1>5. CASE TakeError
    BY <1>0, <1>5 DEF TakeError, GpuType, Slots
  <1>6. CASE Consume
    <2>1. on \in Gpus
      BY <1>6 DEF Consume
    <2>2. PICK count \in Sizes :
             /\ size' = [size EXCEPT ![on] = count]
             /\ slot' = [slot EXCEPT ![on] =
                            IF Relaunches(on) THEN Launched(on, count) ELSE Idle]
             /\ next' = IF Relaunches(on)
                        THEN [next EXCEPT ![on] = ScanStart(on, count) + count]
                        ELSE next
      BY <1>6, ConsumeForm
    <2>3. header' = header
      BY <1>6 DEF Consume
    <2>4. CASE Relaunches(on)
      <3>1. GpuLoaded(on) /\ next[on] \in Nat
        BY <1>0, <1>6, <2>1, <2>4, RelaunchLoaded, HybridRoundAssumption DEF GpuType
      <3>2. Launched(on, count) \in Slots
        BY <2>1, <3>1, LaunchedScan
      <3>3. ScanStart(on, count) + count \in 0 .. GpuSpace
        BY <2>1, <3>1, ScanFits DEF GpuLoaded
      <3> QED  BY <1>0, <2>2, <2>3, <2>4, <3>2, <3>3 DEF GpuType
    <2>5. CASE ~Relaunches(on)
      BY <1>0, <2>2, <2>3, <2>5 DEF GpuType, Slots
    <2> QED  BY <2>4, <2>5
  <1>7. CASE UNCHANGED gpus
    BY <1>0, <1>7 DEF gpus, GpuType
  <1> QED  BY <1>1, <1>2, <1>3, <1>4, <1>5, <1>6, <1>7, GpuSteps

(* What holds of one GPU: its scan has the engine's header and stays in    *)
(* its region, and all is the current job's while the upload's flag is set.*)
GpuGood(g) ==
    /\ slot[g] # Idle => /\ slot[g].header = header[g]
                         /\ slot[g].start >= RegionStart(g)
                         /\ slot[g].start + slot[g].size - 1 <= RegionEnd(g)
    /\ loaded # 0 => GpuLoaded(g)

LEMMA IdleGood ==
    ASSUME NEW g \in Gpus, GpuGood(g), slot'[g] = Idle,
           UNCHANGED <<header, next, generation, extranonce2, loaded, wrapped>>
    PROVE  GpuGood(g)'
  BY DEF GpuGood, GpuLoaded, RegionStart, RegionEnd

(* A GPU that is left alone, or whose scan ends.                           *)
LEMMA SameScanGood ==
    ASSUME NEW g \in Gpus, GpuGood(g),
           slot[g] # Idle, slot'[g].generation = slot[g].generation,
           slot'[g].header = slot[g].header, slot'[g].start = slot[g].start,
           slot'[g].size = slot[g].size, next'[g] = next[g],
           UNCHANGED <<header, generation, extranonce2, loaded, wrapped>>
    PROVE  GpuGood(g)'
  BY DEF GpuGood, GpuLoaded, RegionStart, RegionEnd

LEMMA SameGpuGood ==
    ASSUME NEW g \in Gpus, GpuGood(g), slot'[g] = slot[g], next'[g] = next[g],
           header' = header,
           UNCHANGED <<generation, extranonce2, loaded, wrapped>>
    PROVE  GpuGood(g)'
  BY DEF GpuGood, GpuLoaded, RegionStart, RegionEnd

(* A GPU that a scan is launched on.                                       *)
LEMMA LaunchedGood ==
    ASSUME TypeOK, NEW g \in Gpus, NEW count \in Sizes, GpuLoaded(g),
           slot'[g] = Launched(g, count), next'[g] = ScanStart(g, count) + count,
           UNCHANGED <<header, generation, extranonce2, loaded, wrapped>>
    PROVE  GpuGood(g)'
  <1>1. next[g] \in Nat /\ next[g] >= RegionStart(g)
    BY HybridRoundAssumption DEF TypeOK, GpuLoaded
  <1>2. slot'[g].header = header'[g] /\ slot'[g].generation = generation'
        /\ slot'[g].start = ScanStart(g, count) /\ slot'[g].size = count
    BY LaunchedForm
  <1>3. GpuLoaded(g)'
    BY <1>1, <1>2, ScanFits DEF GpuLoaded, RegionStart
  <1> QED  BY <1>1, <1>2, <1>3, ScanFits DEF GpuGood, RegionStart, RegionEnd

(* The steps that launch scans.                                            *)
LEMMA BeginGood ==
    ASSUME TypeOK, Loading, BeginRound, NEW g \in Gpus, GpuGood(g)
    PROVE  GpuGood(g)'
  <1>0. UNCHANGED <<generation, extranonce2, loaded, wrapped>>
    BY DEF BeginRound, session, history
  <1>1. CASE stop
    BY <1>0, <1>1, SameGpuGood DEF BeginRound, gpus
  <1>2. CASE ~stop
    <2>1. PICK count \in [Gpus -> Sizes] :
             /\ slot' = [h \in Gpus |-> IF Active(h) THEN slot[h]
                                       ELSE Launched(h, count[h])]
             /\ next' = [h \in Gpus |-> IF Active(h) THEN next[h]
                                       ELSE ScanStart(h, count[h]) + count[h]]
             /\ header' = header
      BY <1>2, BeginForm
    <2>2. CASE Active(g)
      BY <1>0, <2>1, <2>2, SameGpuGood
    <2>3. CASE ~Active(g)
      <3>1. /\ slot'[g] = Launched(g, count[g])
            /\ next'[g] = ScanStart(g, count[g]) + count[g]
            /\ count[g] \in Sizes
        BY <2>1, <2>3
      <3> QED  BY <1>0, <2>1, <3>1, BeginLoaded, LaunchedGood
    <2> QED  BY <2>2, <2>3
  <1> QED  BY <1>1, <1>2

LEMMA ConsumeGood ==
    ASSUME TypeOK, Control, Loading, RoundOwn, Consume, NEW g \in Gpus, GpuGood(g)
    PROVE  GpuGood(g)'
  <1>0. UNCHANGED <<header, generation, extranonce2, loaded, wrapped>>
        /\ slot \in [Gpus -> Slots] /\ next \in [Gpus -> 0 .. GpuSpace] /\ on \in Gpus
    BY DEF Consume, session, TypeOK
  <1>1. PICK count \in Sizes :
           /\ slot' = [slot EXCEPT ![on] =
                          IF Relaunches(on) THEN Launched(on, count) ELSE Idle]
           /\ next' = IF Relaunches(on)
                      THEN [next EXCEPT ![on] = ScanStart(on, count) + count]
                      ELSE next
    BY ConsumeForm
  <1>2. CASE g # on
    <2>1. slot'[g] = slot[g] /\ next'[g] = next[g]
      BY <1>0, <1>1, <1>2
    <2> QED  BY <1>0, <2>1, SameGpuGood
  <1>3. CASE g = on /\ Relaunches(on)
    <2>1. slot'[g] = Launched(g, count) /\ next'[g] = ScanStart(g, count) + count
      BY <1>0, <1>1, <1>3
    <2> QED  BY <1>0, <1>3, <2>1, RelaunchLoaded, LaunchedGood
  <1>4. CASE g = on /\ ~Relaunches(on)
    <2>1. slot'[g] = Idle /\ next' = next
      BY <1>0, <1>1, <1>4
    <2> QED  BY <1>0, <2>1, IdleGood
  <1> QED  BY <1>2, <1>3, <1>4

LEMMA UploadGood ==
    ASSUME TypeOK, Control, Loading, Upload, NEW g \in Gpus, GpuGood(g)
    PROVE  GpuGood(g)'
  <1>1. slot'[g] = Idle
    BY DEF Upload, Drained
  <1>2. PICK uploaded \in 0 .. NumGpus :
           /\ header' = [h \in Gpus |->
                            IF h <= uploaded THEN CurrentHeader ELSE header[h]]
           /\ next' = [h \in Gpus |->
                          IF h <= uploaded THEN RegionStart(h) ELSE next[h]]
           /\ IF uploaded = NumGpus THEN loaded' = generation ELSE UNCHANGED loaded
    BY DEF Upload
  <1>3. UNCHANGED <<generation, extranonce2, wrapped>>
    BY DEF Upload, history
  <1>4. CASE uploaded = NumGpus
    <2>1. header'[g] = CurrentHeader /\ next'[g] = RegionStart(g)
      BY <1>2, <1>4, HybridRoundAssumption DEF Gpus
    <2>2. header'[g] # None
      BY <2>1, NoneIsNothing DEF CurrentHeader, Header, TypeOK
    <2>3. RegionStart(g) >= RegionStart(g)
      BY RegionFacts
    <2> QED
      BY <1>1, <1>3, <2>1, <2>2, <2>3 DEF GpuGood, GpuLoaded, CurrentHeader, RegionStart
  <1>5. CASE uploaded # NumGpus
    <2>1. loaded' = loaded
      BY <1>2, <1>5
    <2>2. loaded = 0
      BY DEF Upload, Loading
    <2> QED  BY <1>1, <2>1, <2>2 DEF GpuGood
  <1> QED  BY <1>4, <1>5

(* New jobs and the CPU's wraps, as the GPUs see them.                     *)
LEMMA SessionGood ==
    ASSUME TypeOK, UNCHANGED gpus, NEW g \in Gpus, GpuGood(g),
           \/ loaded' = 0
           \/ /\ UNCHANGED <<generation, loaded>>
              /\ UNCHANGED <<extranonce2, wrapped>> \/ wrapped'
    PROVE  GpuGood(g)'
  BY DEF GpuGood, GpuLoaded, RegionStart, RegionEnd, gpus

LEMMA CpuStartWraps ==
    ASSUME TypeOK, Control, CpuStart
    PROVE  /\ UNCHANGED <<generation, loaded>>
           /\ UNCHANGED <<extranonce2, wrapped>> \/ wrapped'
  BY CpuStartForm DEF CpuStart, TypeOK

LEMMA NextGpu ==
    ASSUME TypeOK, Control, Loading, RoundOwn, [Next]_vars,
           NEW g \in Gpus, GpuGood(g)
    PROVE  GpuGood(g)'
  <1>1. CASE \E h \in Gpus : FinishScan(h)
    <2>1. PICK h \in Gpus : FinishScan(h)
      BY <1>1
    <2>2. UNCHANGED <<header, next, generation, extranonce2, loaded, wrapped>>
          /\ slot \in [Gpus -> Slots]
      BY <2>1 DEF FinishScan, session, TypeOK
    <2>3. CASE g = h
      BY <2>1, <2>2, <2>3, FinishForm, SameScanGood
    <2>4. CASE g # h
      <3>1. slot'[g] = slot[g]
        BY <2>1, <2>2, <2>4 DEF FinishScan
      <3> QED  BY <2>2, <3>1, SameGpuGood
    <2> QED  BY <2>3, <2>4
  <1>2. CASE Drain
    BY <1>2, IdleGood DEF Drain, Drained, session, history
  <1>3. CASE Upload
    BY <1>3, UploadGood
  <1>4. CASE BeginRound
    BY <1>4, BeginGood
  <1>5. CASE TakeError
    <2>1. UNCHANGED <<header, next, generation, extranonce2, loaded, wrapped>>
          /\ slot \in [Gpus -> Slots] /\ slot' = [slot EXCEPT ![on] = Idle]
      BY <1>5 DEF TakeError, session, history, TypeOK
    <2>2. CASE g = on
      BY <2>1, <2>2, IdleGood
    <2>3. CASE g # on
      BY <2>1, <2>3, SameGpuGood
    <2> QED  BY <2>2, <2>3
  <1>6. CASE Consume
    BY <1>6, ConsumeGood
  <1>7. CASE UNCHANGED gpus
    <2>1. CASE Notify
      BY <1>7, <2>1, SessionGood DEF Notify
    <2>2. CASE BadNotify \/ Reset
      BY <1>7, <2>2, SessionGood DEF BadNotify, Reset, history
    <2>3. CASE Upload
      BY <2>3, UploadGood
    <2>4. CASE CpuStart
      BY <1>7, <2>4, SessionGood, CpuStartWraps
    <2>5. CASE UNCHANGED <<session, wrapped, covered>>
      BY <1>7, <2>5, SessionGood DEF session
    <2> QED  BY <2>1, <2>2, <2>3, <2>4, <2>5, SessionSteps
  <1> QED  BY <1>1, <1>2, <1>3, <1>4, <1>5, <1>6, <1>7, GpuSteps

(* The thread gets to the upload and to a round from the session only.     *)
LEMMA UploadBegins ==
    ASSUME Control, [Next]_vars, at' \in {"upload", "begin"}, at' # at
    PROVE  SessionPumped \/ Upload
  <1>1. ~(Reset \/ SessionEnds \/ Drain \/ BeginRound \/ LookAtGpus \/ SkipGpu)
    BY DEF Reset, SessionEnds, Drain, BeginRound, LookAtGpus, SkipGpu
  <1>2. ~(TakeError \/ Consume \/ CandidatePumped \/ GpuSubmit \/ ConsumeReturns)
    BY DEF TakeError, Throw, Leave, Consume, CandidatePumped, GpuSubmit,
           ConsumeReturns, Continue
  <1>3. ~(CpuStart \/ Service \/ BatchReturns \/ CpuCandidatePumped \/ CpuSubmit
          \/ AfterCpuPumped)
    BY DEF CpuStart, Service, BatchReturns, CpuCandidatePumped, CpuSubmit,
           AfterCpuPumped, Leave
  <1>4. ~(RequestStop \/ Notify \/ BadNotify \/ PumpThrows \/ SocketFails \/ FeeSwitch)
    BY DEF RequestStop, Notify, BadNotify, PumpThrows, SocketFails, FeeSwitch,
           Throw, Leave, Fail, thread
  <1>5. ~(HashOne \/ (\E g \in Gpus : FinishScan(g)) \/ UNCHANGED vars)
    BY DEF HashOne, FinishScan, thread, vars
  <1> QED  BY <1>1, <1>2, <1>3, <1>4, <1>5 DEF Next, ThreadStep, Environment

LEMMA NextLoading ==
    ASSUME TypeOK, Control, Loading, RoundOwn, [Next]_vars,
           \A g \in Gpus : GpuGood(g)
    PROVE  Loading' /\ \A g \in Gpus : GpuGood(g)'
  <1>1. \A g \in Gpus : GpuGood(g)'
    BY NextGpu
  <1>2. valid' => generation' > 0
    <2>1. CASE Notify
      BY <2>1 DEF Notify, TypeOK
    <2>2. CASE BadNotify \/ Reset
      BY <2>2 DEF BadNotify, Reset
    <2>3. CASE Upload \/ CpuStart \/ UNCHANGED <<session, wrapped, covered>>
      BY <2>3 DEF Upload, CpuStart, session, Loading
    <2> QED  BY <2>1, <2>2, <2>3, SessionSteps
  <1>3. ASSUME at' \in {"upload", "begin"}, at' = at
        PROVE  UNCHANGED <<generation, loaded>>
    BY <1>3, SessionSteps
    DEF Notify, BadNotify, Reset, Upload, CpuStart, PumpAt, session
  <1>4. (at' = "upload" => generation' > 0 /\ loaded' = 0)
        /\ (at' = "begin" => loaded' # 0)
    <2>1. CASE at' \in {"upload", "begin"} /\ at' = at
      BY <1>3, <2>1 DEF Loading
    <2>2. CASE SessionPumped
      BY <2>2 DEF SessionPumped, session, Loading
    <2>3. CASE Upload
      BY <2>3 DEF Upload, Loading, TypeOK
    <2> QED  BY <2>1, <2>2, <2>3, UploadBegins
  <1> QED  BY <1>1, <1>2, <1>4 DEF Loading, GpuGood
--------------------------------------------------------------------------------
(* The round and what it sends                                             *)

(* The steps that change the locals of a round.                            *)
LEMMA RoundMoves ==
    ASSUME [Next]_vars
    PROVE  \/ BeginRound /\ ~stop
           \/ LookAtGpus \/ CandidatePumped \/ AfterCpuPumped \/ Consume
           \/ round' = None \/ UNCHANGED round
  <1>1. BeginRound /\ stop => UNCHANGED round
    BY DEF BeginRound
  <1>2. \/ TakeError \/ PumpThrows \/ FeeSwitch \/ SocketFails \/ ConsumeReturns
        \/ BatchReturns
        => round' = None \/ UNCHANGED round
    BY DEF TakeError, PumpThrows, FeeSwitch, SocketFails, ConsumeReturns, BatchReturns,
           Throw, Leave, Fail, Continue
  <1>3. \/ Reset \/ SessionEnds \/ SessionPumped \/ Drain \/ Upload \/ SkipGpu
        \/ GpuSubmit \/ CpuStart \/ Service \/ CpuCandidatePumped \/ CpuSubmit
        => UNCHANGED round
    BY DEF Reset, SessionEnds, SessionPumped, Drain, Upload, SkipGpu, GpuSubmit,
           CpuStart, Service, CpuCandidatePumped, CpuSubmit
  <1>4. \/ RequestStop \/ Notify \/ BadNotify \/ HashOne
        \/ (\E g \in Gpus : FinishScan(g)) \/ UNCHANGED vars
        => UNCHANGED round
    BY DEF RequestStop, Notify, BadNotify, HashOne, FinishScan, thread, vars
  <1> QED  BY <1>1, <1>2, <1>3, <1>4 DEF Next, ThreadStep, Environment

(* A look at the job, wherever it is taken.                                *)
LEMMA LookForm ==
    ASSUME TypeOK, Control, LookAtGpus \/ CandidatePumped \/ AfterCpuPumped
    PROVE  \/ round' = None
           \/ /\ round \in Round /\ round # None /\ Stale \in BOOLEAN
              /\ round' = [round EXCEPT !.stale = Stale]
              /\ round'.generation = round.generation
              /\ round'.extranonce2 = round.extranonce2
              /\ round'.stale = Stale
  <1>1. round' = None \/ round' = [round EXCEPT !.stale = Stale]
    BY DEF LookAtGpus, CandidatePumped, AfterCpuPumped, Leave
  <1>2. round \in Round /\ round # None /\ Stale \in BOOLEAN
    BY RoundHeld DEF LookAtGpus, CandidatePumped, AfterCpuPumped, Outside
  <1>3. CASE round' = [round EXCEPT !.stale = Stale]
    <2>1. /\ [round EXCEPT !.stale = Stale].generation = round.generation
          /\ [round EXCEPT !.stale = Stale].extranonce2 = round.extranonce2
          /\ [round EXCEPT !.stale = Stale].stale = Stale
      BY <1>2, StaleSet, Zenon
    <2> QED  BY <1>2, <1>3, <2>1, Zenon
  <1> QED  BY <1>1, <1>3

(* A round keeps the job it began with.                                    *)
LEMMA RoundSteps ==
    ASSUME TypeOK, Control, [Next]_vars
    PROVE  \/ round' = None
           \/ BeginRound /\ ~stop
           \/ /\ round # None /\ round'.generation = round.generation
              /\ round'.extranonce2 = round.extranonce2
  <1>1. Consume => /\ round # None /\ round'.generation = round.generation
                   /\ round'.extranonce2 = round.extranonce2
    BY ConsumeForm, NoneIsNothing
  <1> QED  BY <1>1, RoundMoves, LookForm

(* The job changes with a notification only, which makes it a later one.   *)
LEMMA JobSteps ==
    ASSUME TypeOK, Control, [Next]_vars
    PROVE  \/ Notify /\ generation' = generation + 1 /\ at \in PumpAt /\ at' = at
           \/ generation' = generation /\ ~Notify
  BY SessionSteps DEF Notify, BadNotify, Reset, Upload, CpuStart, session, thread,
                      TypeOK

LEMMA NextRoundLoaded ==
    ASSUME TypeOK, Control, Loading, RoundOwn, [Next]_vars
    PROVE  RoundLoaded'
  <1>1. CASE round' = None
    BY <1>1 DEF RoundLoaded
  <1>2. CASE BeginRound /\ ~stop
    <2>1. round'.generation = generation /\ round'.extranonce2 = extranonce2
          /\ UNCHANGED <<generation, extranonce2, loaded>> /\ loaded # 0
      BY <1>2 DEF BeginRound, session, Loading
    <2> QED  BY <2>1 DEF RoundLoaded, TypeOK
  <1>3. CASE /\ round # None /\ round'.generation = round.generation
             /\ round'.extranonce2 = round.extranonce2
    <2>0. round.generation \in Nat /\ generation \in Nat
      BY <1>3, StaleIsBoolean DEF TypeOK
    <2>1. CASE Notify
      BY <1>3, <2>0, <2>1 DEF Notify, RoundLoaded, RoundOwn
    <2>2. CASE BadNotify \/ Reset
      BY <1>3, <2>2 DEF BadNotify, Reset, RoundLoaded, RoundOwn, history
    <2>3. CASE Upload
      BY <1>3, <2>3 DEF Upload, Control, Outside
    <2>4. CASE CpuStart
      BY <1>3, <2>4, CpuStartWraps DEF RoundLoaded, RoundOwn
    <2>5. CASE UNCHANGED <<session, wrapped, covered>>
      BY <1>3, <2>5 DEF session, RoundLoaded, RoundOwn
    <2> QED  BY <2>1, <2>2, <2>3, <2>4, <2>5, SessionSteps
  <1> QED  BY <1>1, <1>2, <1>3, RoundSteps

(* Where the thread decides, it has just looked at the job.                *)
LEMMA DecidingSteps ==
    ASSUME Control, [Next]_vars, at' \in {"consume", "gpuSubmit", "cpuStart"}
    PROVE  \/ LookAtGpus \/ SkipGpu \/ Consume \/ CandidatePumped \/ GpuSubmit
           \/ ConsumeReturns \/ UNCHANGED <<at, round, generation>>
  <1>1. ~(Reset \/ SessionEnds \/ SessionPumped \/ Drain \/ Upload \/ BeginRound)
    BY DEF Reset, SessionEnds, SessionPumped, Drain, Upload, BeginRound
  <1>2. ~(TakeError \/ CpuStart \/ Service \/ BatchReturns)
    BY DEF TakeError, Throw, Leave, CpuStart, Service, BatchReturns
  <1>3. ~(CpuCandidatePumped \/ CpuSubmit \/ AfterCpuPumped)
    BY DEF CpuCandidatePumped, CpuSubmit, AfterCpuPumped, Leave
  <1>4. ~(Notify \/ PumpThrows \/ SocketFails \/ FeeSwitch)
    BY DEF Notify, PumpThrows, SocketFails, FeeSwitch, Throw, Leave, Fail, PumpAt, thread
  <1>5. RequestStop \/ BadNotify \/ HashOne \/ (\E g \in Gpus : FinishScan(g))
        \/ UNCHANGED vars
        => UNCHANGED <<at, round, generation>>
    BY DEF RequestStop, BadNotify, HashOne, FinishScan, thread, session, vars
  <1> QED  BY <1>1, <1>2, <1>3, <1>4, <1>5 DEF Next, ThreadStep, Environment

(* A look at the job marks the round stale if it was replaced.             *)
LEMMA LookMarks ==
    ASSUME round \in Round, Stale \in BOOLEAN,
           round' = [round EXCEPT !.stale = Stale], generation' = generation
    PROVE  /\ round'.stale = Stale
           /\ round'.stale \/ generation' = round'.generation
           /\ ~Stale => generation' = round'.generation
  BY StaleSet DEF Stale

LEMMA NextRoundNotices ==
    ASSUME TypeOK, Control, RoundOwn, [Next]_vars
    PROVE  RoundNotices'
  <1>1. CASE LookAtGpus
    <2>1. round \in Round /\ Stale \in BOOLEAN
      BY <1>1, RoundHeld DEF LookAtGpus, Outside
    <2>2. round' = [round EXCEPT !.stale = Stale] /\ generation' = generation
          /\ at' = "consume"
      BY <1>1 DEF LookAtGpus, session
    <2> QED  BY <2>1, <2>2, LookMarks DEF RoundNotices
  <1>2. CASE SkipGpu
    BY <1>2 DEF SkipGpu, session, RoundOwn, RoundNotices
  <1>3. CASE Consume
    <2>1. /\ at = "consume" /\ round'.generation = round.generation
          /\ round'.stale = ~Relaunches(on) /\ at' \in {"candidate", "consume"}
      BY <1>3, ConsumeForm
    <2>2. generation' = generation
      BY <1>3 DEF Consume, session
    <2>3. Relaunches(on) => generation = round.generation
      BY DEF Relaunches, ResultStale, Stale
    <2> QED  BY <2>1, <2>2, <2>3 DEF RoundNotices
  <1>4. CASE CandidatePumped
    <2>1. round \in Round /\ Stale \in BOOLEAN
      BY <1>4, RoundHeld DEF CandidatePumped, Outside
    <2>2. round' = [round EXCEPT !.stale = Stale] /\ generation' = generation
          /\ IF Stale THEN at' = "consume" ELSE at' = "gpuSubmit"
      BY <1>4 DEF CandidatePumped, session
    <2> QED  BY <2>1, <2>2, LookMarks DEF RoundNotices
  <1>5. CASE GpuSubmit
    <2>1. /\ at = "gpuSubmit" /\ at' \in {"consume", "candidate"}
          /\ UNCHANGED <<round, generation>>
      BY <1>5 DEF GpuSubmit, session
    <2> QED  BY <2>1 DEF RoundOwn, RoundNotices
  <1>6. CASE ConsumeReturns
    <2>1. CASE at' = "cpuStart"
      <3>1. at = "consume" /\ ~round.stale /\ UNCHANGED <<round, generation>>
        BY <1>6, <2>1 DEF ConsumeReturns, session, Continue, Leave
      <3> QED  BY <2>1, <3>1 DEF RoundOwn, RoundNotices
    <2>2. at' \in {"cpuStart", "cpu", "round", "session"}
      BY <1>6 DEF ConsumeReturns, Continue, Leave
    <2> QED  BY <2>1, <2>2 DEF RoundNotices
  <1>7. CASE UNCHANGED <<at, round, generation>>
    BY <1>7 DEF RoundOwn, RoundNotices
  <1>8. CASE at' \notin {"consume", "gpuSubmit", "cpuStart"}
    BY <1>8 DEF RoundNotices
  <1> QED  BY <1>1, <1>2, <1>3, <1>4, <1>5, <1>6, <1>7, <1>8, DecidingSteps

(* What is held comes from a fresh result, and keeps its header.           *)
LEMMA HeldSteps ==
    ASSUME TypeOK, Control, [Next]_vars
    PROVE  \/ held' = None
           \/ Consume /\ ~ResultStale(on) /\ held'.header = slot[on].header
           \/ held # None /\ held'.header = held.header
  <1>1. CASE Consume
    <2>1. \/ ~ResultStale(on) /\ held' = [header |-> slot[on].header,
                                         left |-> slot[on].candidates]
          \/ held' = held
      BY <1>1, ConsumeForm
    <2> QED  BY <1>1, <2>1
  <1>2. CASE GpuSubmit
    <2>1. held \in Held /\ held # None
      BY <1>2 DEF GpuSubmit, TypeOK, Control
    <2>2. held' = None \/ held' = [held EXCEPT !.left = held.left - 1]
      BY <1>2 DEF GpuSubmit
    <2>3. [held EXCEPT !.left = held.left - 1].header = held.header
      BY <2>1 DEF Held
    <2> QED  BY <2>1, <2>2, <2>3
  <1>3. CASE UNCHANGED held
    BY <1>3
  <1>4. \/ TakeError \/ PumpThrows \/ FeeSwitch \/ SocketFails \/ ConsumeReturns
        \/ CandidatePumped \/ BatchReturns \/ AfterCpuPumped
        => held' = None \/ UNCHANGED held
    BY DEF TakeError, PumpThrows, FeeSwitch, SocketFails, ConsumeReturns,
           CandidatePumped, BatchReturns, AfterCpuPumped, Throw, Leave, Fail, Continue
  <1>5. \/ Reset \/ SessionEnds \/ SessionPumped \/ Drain \/ Upload \/ BeginRound
        \/ LookAtGpus \/ SkipGpu \/ CpuStart \/ Service \/ CpuCandidatePumped
        \/ CpuSubmit
        => UNCHANGED held
    BY DEF Reset, SessionEnds, SessionPumped, Drain, Upload, BeginRound, LookAtGpus,
           SkipGpu, CpuStart, Service, CpuCandidatePumped, CpuSubmit
  <1>6. \/ RequestStop \/ Notify \/ BadNotify \/ HashOne
        \/ (\E g \in Gpus : FinishScan(g)) \/ UNCHANGED vars
        => UNCHANGED held
    BY DEF RequestStop, Notify, BadNotify, HashOne, FinishScan, thread, vars
  <1> QED  BY <1>1, <1>2, <1>3, <1>4, <1>5, <1>6
           DEF Next, ThreadStep, Environment

LEMMA NextHeld ==
    ASSUME TypeOK, Control, Loading, RoundOwn, HeldOwn, [Next]_vars
    PROVE  HeldOwn'
  <1>1. CASE held' = None
    BY <1>1 DEF HeldOwn
  <1>2. CASE Consume /\ ~ResultStale(on) /\ held'.header = slot[on].header
    <2>1. /\ generation = round.generation /\ on \in Gpus /\ round # None
          /\ slot[on] \in Slots /\ slot[on].state = "done"
      BY <1>2, ConsumeForm, NoneIsNothing DEF ResultStale, Stale
    <2>2. slot[on] # Idle
      BY <2>1, SlotForms
    <2>3. GpuLoaded(on) /\ slot[on].header = header[on]
      BY <2>1, <2>2 DEF RoundOwn, RoundLoaded, Loading
    <2>4. UNCHANGED <<generation, extranonce2, wrapped>>
      BY <1>2 DEF Consume, session
    <2> QED  BY <1>2, <2>3, <2>4 DEF HeldOwn, GpuLoaded
  <1>3. CASE held # None /\ held'.header = held.header
    <2>1. at \in {"candidate", "gpuSubmit"} /\ round # None /\ round \in Round
      BY <1>3 DEF Control, Outside, TypeOK
    <2>2. CASE round' = None
      BY <1>1, <2>2, NextControl DEF Control, Outside
    <2>3. CASE BeginRound
      BY <2>1, <2>3 DEF BeginRound
    <2>4. CASE round'.generation = round.generation
      <3>1. CASE Notify
        BY <2>1, <2>4, <3>1, StaleIsBoolean
        DEF Notify, HeldOwn, RoundOwn, RoundLoaded, TypeOK
      <3>2. CASE BadNotify \/ Reset \/ UNCHANGED <<session, wrapped, covered>>
        <4>1. UNCHANGED <<generation, extranonce2, wrapped>>
          BY <3>2 DEF BadNotify, Reset, session, history
        <4> QED  BY <1>3, <2>4, <4>1 DEF HeldOwn
      <3>3. CASE Upload \/ CpuStart
        BY <2>1, <3>3 DEF Upload, CpuStart
      <3> QED  BY <3>1, <3>2, <3>3, SessionSteps
    <2> QED  BY <2>2, <2>3, <2>4, RoundSteps
  <1> QED  BY <1>1, <1>2, <1>3, HeldSteps
--------------------------------------------------------------------------------
(* The CPU batch                                                           *)

(* A batch keeps its header and its nonces.                                *)
LEMMA BatchSteps ==
    ASSUME TypeOK, Control, [Next]_vars
    PROVE  \/ batch' = None
           \/ CpuStart /\ at' = "cpu"
           \/ batch # None /\ batch'.header = batch.header /\ batch'.start = batch.start
  <1>0. batch \in Batch \cup {None}
    BY DEF TypeOK
  <1>1. CASE HashOne
    <2>1. batch \in Batch /\ batch # None
      BY <1>0, <1>1 DEF HashOne, PoolRunning
    <2>2. PICK found : batch' = [batch EXCEPT !.done = batch.done + 1, !.found = found]
      BY <1>1 DEF HashOne
    <2> QED  BY <2>1, <2>2 DEF Batch
  <1>2. CASE ConsumeReturns
    <2>1. \/ /\ batch # None
             /\ batch' = [batch EXCEPT !.cancel = batch.cancel \/ CancelsBatch]
          \/ batch = None /\ UNCHANGED batch
          \/ batch' = None
      BY <1>2 DEF ConsumeReturns, Continue, Leave
    <2>2. PICK cancel : cancel = (batch.cancel \/ CancelsBatch)
      OBVIOUS
    <2>3. batch # None => [batch EXCEPT !.cancel = cancel].header = batch.header
                       /\ [batch EXCEPT !.cancel = cancel].start = batch.start
      BY <1>0 DEF Batch
    <2> QED  BY <2>1, <2>2, <2>3
  <1>3. CASE SocketFails
    <2>1. batch # None => [batch EXCEPT !.ok = FALSE, !.cancel = TRUE].header = batch.header
              /\ [batch EXCEPT !.ok = FALSE, !.cancel = TRUE].start = batch.start
      BY <1>0 DEF Batch
    <2> QED  BY <1>3, <2>1, FailForms
  <1>4. CASE CpuSubmit
    <2>1. batch # None
      BY <1>4 DEF CpuSubmit, Control
    <2>2. batch' = None \/ batch' = [batch EXCEPT !.found = batch.found - 1]
      BY <1>4 DEF CpuSubmit
    <2>3. [batch EXCEPT !.found = batch.found - 1].header = batch.header
          /\ [batch EXCEPT !.found = batch.found - 1].start = batch.start
      BY <1>0, <2>1 DEF Batch
    <2> QED  BY <2>1, <2>2, <2>3
  <1>5. CASE CpuStart
    BY <1>5, CpuStartForm
  <1>6. CASE UNCHANGED batch
    BY <1>6
  <1>7. \/ TakeError \/ PumpThrows \/ FeeSwitch \/ BatchReturns
        \/ CpuCandidatePumped \/ AfterCpuPumped
        => batch' = None \/ UNCHANGED batch
    BY DEF TakeError, PumpThrows, FeeSwitch, BatchReturns, CpuCandidatePumped,
           AfterCpuPumped, Throw, Leave
  <1>8. \/ Reset \/ SessionEnds \/ SessionPumped \/ Drain \/ Upload \/ BeginRound
        \/ LookAtGpus \/ SkipGpu \/ Consume \/ CandidatePumped \/ GpuSubmit \/ Service
        => UNCHANGED batch
    BY DEF Reset, SessionEnds, SessionPumped, Drain, Upload, BeginRound, LookAtGpus,
           SkipGpu, Consume, CandidatePumped, GpuSubmit, Service
  <1>9. \/ RequestStop \/ Notify \/ BadNotify
        \/ (\E g \in Gpus : FinishScan(g)) \/ UNCHANGED vars
        => UNCHANGED batch
    BY DEF RequestStop, Notify, BadNotify, FinishScan, thread, vars
  <1> QED  BY <1>1, <1>2, <1>3, <1>4, <1>5, <1>6, <1>7, <1>8, <1>9
           DEF Next, ThreadStep, Environment

(* A batch that begins hashes the current header.                          *)
LEMMA CpuBegins ==
    ASSUME TypeOK, Control, CpuStart, at' = "cpu"
    PROVE  batch'.header = CurrentHeader' /\ generation' = generation
  <1>1. generation' = generation
    BY DEF CpuStart
  <1>2. batch'.header = [generation |-> generation, extranonce2 |-> extranonce2']
    BY CpuStartForm
  <1> QED  BY <1>1, <1>2 DEF CurrentHeader

(* Candidates of the CPU are sent for the current job only.                *)
LEMMA CpuSubmitSteps ==
    ASSUME TypeOK, Control, BatchOwn, [Next]_vars, at' = "cpuSubmit"
    PROVE  generation' = generation /\ batch'.header = batch.header
           /\ generation = batch.header.generation /\ batch # None
  <1>1. CASE CpuCandidatePumped
    <2>1. CpuCurrent /\ batch' = batch /\ generation' = generation /\ batch # None
      BY <1>1 DEF CpuCandidatePumped, session, Control
    <2> QED  BY <2>1 DEF CpuCurrent
  <1>2. ~(Reset \/ SessionEnds \/ SessionPumped \/ Drain \/ Upload \/ BeginRound)
    BY DEF Reset, SessionEnds, SessionPumped, Drain, Upload, BeginRound
  <1>3. ~(LookAtGpus \/ SkipGpu \/ Consume \/ CandidatePumped \/ GpuSubmit)
    BY DEF LookAtGpus, SkipGpu, Consume, CandidatePumped, GpuSubmit
  <1>4. ~(TakeError \/ ConsumeReturns \/ CpuStart \/ Service \/ BatchReturns)
    BY DEF TakeError, Throw, Leave, ConsumeReturns, Continue, CpuStart, Service,
           BatchReturns
  <1>5. ~(CpuSubmit \/ AfterCpuPumped \/ Notify \/ PumpThrows \/ SocketFails
          \/ FeeSwitch)
    BY DEF CpuSubmit, AfterCpuPumped, Notify, PumpThrows, SocketFails, FeeSwitch,
           Throw, Leave, Fail, PumpAt, thread
  <1>6. RequestStop \/ BadNotify \/ (\E g \in Gpus : FinishScan(g)) \/ UNCHANGED vars
        => UNCHANGED <<at, generation, batch>>
    BY DEF RequestStop, BadNotify, FinishScan, thread, session, vars
  <1>7. ~HashOne
    BY DEF HashOne, PoolRunning
  <1>8. UNCHANGED <<at, generation, batch>>
        => batch # None /\ generation = batch.header.generation
    BY DEF Control, BatchOwn
  <1> QED  BY <1>1, <1>2, <1>3, <1>4, <1>5, <1>6, <1>7, <1>8
           DEF Next, ThreadStep, Environment

LEMMA NextBatch ==
    ASSUME TypeOK, Control, BatchOwn, [Next]_vars
    PROVE  BatchOwn'
  <1>1. CASE batch' = None
    BY <1>1 DEF BatchOwn
  <1>2. CASE CpuStart /\ at' = "cpu"
    <2>1. /\ batch'.header.generation = generation'
          /\ batch'.header.extranonce2 = extranonce2' /\ generation' \in Nat
      BY <1>2, CpuBegins DEF CurrentHeader, TypeOK
    <2> QED  BY <1>2, <2>1 DEF BatchOwn
  <1>3. CASE batch # None /\ batch'.header = batch.header
    <2>1. batch.header.generation \in Nat /\ generation \in Nat
      BY <1>3, BatchFields DEF TypeOK, Header
    <2>2. at' = "cpuSubmit" => generation' = batch'.header.generation
      BY <1>3, CpuSubmitSteps
    <2>3. CASE Notify
      <3>1. generation' = generation + 1
        BY <2>3 DEF Notify
      <3> QED  BY <1>3, <2>1, <2>2, <3>1 DEF BatchOwn
    <2>4. CASE BadNotify \/ Reset \/ UNCHANGED <<session, wrapped, covered>>
      <3>1. UNCHANGED <<generation, extranonce2>>
        BY <2>4 DEF BadNotify, Reset, session
      <3> QED  BY <1>3, <2>2, <3>1 DEF BatchOwn
    <2>5. CASE Upload
      BY <1>3, <2>5 DEF Upload, Control, Outside
    <2>6. CASE CpuStart
      BY <1>3, <2>6, CpuStartForm
    <2> QED  BY <2>3, <2>4, <2>5, <2>6, SessionSteps
  <1> QED  BY <1>1, <1>2, <1>3, BatchSteps

(* The nonces of the CPU.                                                  *)
LEMMA NextCursor ==
    ASSUME TypeOK, Control, Loading, RoundOwn, CursorAhead, [Next]_vars
    PROVE  CursorAhead'
  <1>0. /\ GpuSpace \in Nat /\ NonceSpace \in Nat /\ GpuSpace < NonceSpace
        /\ CpuTotal \in Nat /\ CpuTotal > 0 /\ generation \in Nat
        /\ covered \in Nat /\ nonce \in Nat
    BY HybridRoundAssumption DEF TypeOK
  <1>1. CASE Notify
    BY <1>1 DEF Notify, CursorAhead
  <1>2. CASE BadNotify \/ Reset \/ UNCHANGED <<session, wrapped, covered>>
    <2>1. UNCHANGED <<nonce, loaded, covered>>
      BY <1>2 DEF BadNotify, Reset, session, history
    <2> QED  BY <2>1 DEF CursorAhead
  <1>3. CASE Upload
    <2>1. loaded = 0 /\ generation > 0
      BY <1>3 DEF Upload, Loading
    <2>2. covered' = GpuSpace
      BY <1>3, <2>1 DEF Upload, CursorAhead, history
    <2>3. GpuSpace \in {GpuSpace, NonceSpace}
      OBVIOUS
    <2> QED  BY <2>2 DEF CursorAhead
  <1>4. CASE CpuStart
    <2>1. loaded' = loaded /\ loaded # 0
      <3>1. at = "cpuStart" /\ round # None
        BY <1>4 DEF CpuStart, Control, Outside
      <3>2. generation = round.generation
        BY <3>1 DEF RoundOwn, RoundNotices
      <3> QED  BY <1>4, <3>1, <3>2 DEF CpuStart, RoundOwn, RoundLoaded
    <2>2. CASE UNCHANGED <<nonce, covered>>
      BY <2>1, <2>2 DEF CursorAhead
    <2>3. CASE \E start \in GpuSpace .. NonceSpace - 1, wraps \in BOOLEAN :
                  /\ ~wraps => start >= nonce
                  /\ nonce' = start
                  /\ covered' = IF wraps THEN GpuSpace ELSE covered
      BY <1>0, <2>1, <2>3 DEF CursorAhead
    <2>4. CASE \E start \in GpuSpace .. NonceSpace - 1 :
                  /\ start + CpuTotal <= NonceSpace
                  /\ nonce' = (start + CpuTotal) % NonceSpace
                  /\ covered' = start + CpuTotal
      <3>1. PICK start \in GpuSpace .. NonceSpace - 1 :
                  /\ start + CpuTotal <= NonceSpace
                  /\ nonce' = (start + CpuTotal) % NonceSpace
                  /\ covered' = start + CpuTotal
        BY <2>4
      <3>2. CASE start + CpuTotal = NonceSpace
        BY <2>1, <3>1, <3>2 DEF CursorAhead
      <3>3. CASE start + CpuTotal < NonceSpace
        <4>1. start + CpuTotal \in Nat
          BY <1>0, <3>1
        <4>2. (start + CpuTotal) % NonceSpace = start + CpuTotal
          BY <1>0, <3>3, <4>1
        <4>3. covered' <= nonce'
          BY <3>1, <4>1, <4>2
        <4> QED  BY <2>1, <4>3 DEF CursorAhead
      <3> QED  BY <1>0, <3>1, <3>2, <3>3
    <2> QED  BY <1>4, <2>2, <2>3, <2>4, CpuStartForm
  <1> QED  BY <1>1, <1>2, <1>3, <1>4, SessionSteps

(* The failure of the socket.                                              *)
LEMMA NextFailure ==
    ASSUME TypeOK, Control, FailureHeld, [Next]_vars
    PROVE  FailureHeld'
  <1>1. CASE SocketFails
    <2>1. CASE /\ batch # None
               /\ batch' = [batch EXCEPT !.ok = FALSE, !.cancel = TRUE] /\ at' = "cpu"
      <3>1. batch \in Batch
        BY <2>1 DEF TypeOK
      <3>2. ~batch'.ok
        BY <2>1, <3>1 DEF Batch
      <3> QED  BY <2>1, <3>2 DEF FailureHeld
    <2>2. CASE at' \in {"reset", "drain"}
      BY <2>2 DEF FailureHeld
    <2> QED  BY <1>1, <2>1, <2>2, FailForms
  <1>2. CASE ~dead /\ ~SocketFails
    <2>1. ~dead'
      <3>1. \/ Reset \/ SessionEnds \/ SessionPumped \/ Drain \/ Upload \/ BeginRound
            \/ LookAtGpus \/ SkipGpu \/ TakeError \/ Consume \/ CandidatePumped
            \/ GpuSubmit \/ ConsumeReturns
            => ~dead'
        BY <1>2 DEF Reset, SessionEnds, SessionPumped, Drain, Upload, BeginRound,
               LookAtGpus, SkipGpu, TakeError, Consume, CandidatePumped,
               GpuSubmit, ConsumeReturns, history
      <3>2. \/ CpuStart \/ Service \/ BatchReturns \/ CpuCandidatePumped \/ CpuSubmit
            \/ AfterCpuPumped \/ HashOne \/ (\E g \in Gpus : FinishScan(g))
            => ~dead'
        BY <1>2 DEF CpuStart, Service, BatchReturns, CpuCandidatePumped, CpuSubmit,
               AfterCpuPumped, HashOne, FinishScan, history
      <3>3. RequestStop \/ Notify \/ BadNotify \/ PumpThrows \/ FeeSwitch
            \/ UNCHANGED vars
            => ~dead'
        BY <1>2 DEF RequestStop, Notify, BadNotify, PumpThrows, FeeSwitch, history, vars
      <3> QED  BY <1>2, <3>1, <3>2, <3>3 DEF Next, ThreadStep, Environment
    <2> QED  BY <1>2, <2>1 DEF FailureHeld
  <1>3. CASE dead /\ ~SocketFails
    <2>1. at \in {"cpu", "drain", "reset"} /\ (at = "cpu" => ~batch.ok)
      BY <1>3 DEF FailureHeld
    <2>2. CASE Reset
      BY <2>2 DEF Reset, FailureHeld
    <2>3. CASE Drain
      BY <2>3 DEF Drain, FailureHeld
    <2>4. CASE BatchReturns
      BY <2>1, <2>4, LeavesNothing DEF BatchReturns, FailureHeld
    <2>5. CASE HashOne
      <3>1. batch \in Batch /\ at' = at
        BY <2>5 DEF HashOne, PoolRunning, TypeOK
      <3>2. PICK found : batch' = [batch EXCEPT !.done = batch.done + 1, !.found = found]
        BY <2>5 DEF HashOne
      <3>3. batch'.ok = batch.ok
        BY <3>1, <3>2 DEF Batch
      <3> QED  BY <2>1, <3>1, <3>3 DEF FailureHeld
    <2>6. CASE RequestStop \/ (\E g \in Gpus : FinishScan(g)) \/ UNCHANGED vars
      BY <2>1, <2>6 DEF RequestStop, FinishScan, thread, vars, FailureHeld
    <2>7. ~Service
      BY <2>1 DEF Service, MayService
    <2>8. ~(SessionEnds \/ SessionPumped \/ Upload \/ BeginRound \/ LookAtGpus
            \/ SkipGpu \/ TakeError \/ Consume \/ CandidatePumped \/ GpuSubmit)
      BY <2>1 DEF SessionEnds, SessionPumped, Upload, BeginRound, LookAtGpus,
         SkipGpu, TakeError, Consume, CandidatePumped, GpuSubmit
    <2>9. ~(ConsumeReturns \/ CpuStart \/ CpuCandidatePumped \/ CpuSubmit
            \/ AfterCpuPumped \/ Notify \/ BadNotify \/ PumpThrows \/ FeeSwitch)
      BY <2>1 DEF ConsumeReturns, CpuStart, CpuCandidatePumped, CpuSubmit,
         AfterCpuPumped, Notify, BadNotify, PumpThrows, FeeSwitch, PumpAt
    <2> QED  BY <1>3, <2>2, <2>3, <2>4, <2>5, <2>6, <2>7, <2>8, <2>9
             DEF Next, ThreadStep, Environment
  <1> QED  BY <1>1, <1>2, <1>3

LEMMA NextRegions ==
    ASSUME TypeOK, Control, RegionsApart, [Next]_vars,
           \A g \in Gpus : GpuGood(g)', ThreadType'
    PROVE  RegionsApart'
  <1>1. \A g \in Gpus : slot'[g] # Idle =>
           /\ slot'[g].start >= RegionStart(g)
           /\ slot'[g].start + slot'[g].size - 1 <= RegionEnd(g)
    BY DEF GpuGood, RegionStart, RegionEnd
  <1>2. batch' # None => batch'.start >= GpuSpace
    BY BatchFields, HybridRoundAssumption DEF ThreadType
  <1>3. batch' # None => batch'.start + CpuTotal <= NonceSpace
    BY BatchSteps, CpuStartForm DEF RegionsApart
  <1> QED  BY <1>1, <1>2, <1>3 DEF RegionsApart, RegionStart, RegionEnd

(* A stop request is never taken back.                                     *)
LEMMA StopSteps ==
    ASSUME [Next]_vars
    PROVE  stop' = stop \/ RequestStop
  <1>1. \/ Reset \/ SessionEnds \/ SessionPumped \/ Drain \/ Upload \/ BeginRound
        \/ LookAtGpus \/ SkipGpu \/ TakeError \/ Consume \/ CandidatePumped
        => stop' = stop
    BY DEF Reset, SessionEnds, SessionPumped, Drain, Upload, BeginRound, LookAtGpus,
           SkipGpu, TakeError, Consume, CandidatePumped
  <1>2. \/ GpuSubmit \/ ConsumeReturns \/ CpuStart \/ Service \/ BatchReturns
        \/ CpuCandidatePumped \/ CpuSubmit \/ AfterCpuPumped
        => stop' = stop
    BY DEF GpuSubmit, ConsumeReturns, CpuStart, Service, BatchReturns,
           CpuCandidatePumped, CpuSubmit, AfterCpuPumped
  <1>3. \/ Notify \/ BadNotify \/ PumpThrows \/ SocketFails \/ FeeSwitch \/ HashOne
        \/ (\E g \in Gpus : FinishScan(g)) \/ UNCHANGED vars
        => stop' = stop
    BY DEF Notify, BadNotify, PumpThrows, SocketFails, FeeSwitch, HashOne, FinishScan,
           vars
  <1> QED  BY <1>1, <1>2, <1>3 DEF Next, ThreadStep, Environment

LEMMA NextReason ==
    ASSUME TypeOK, Control, Loading, RoundOwn, StaleForAReason, [Next]_vars
    PROVE  StaleForAReason'
  <1>1. stop => stop'
    BY StopSteps DEF RequestStop
  <1>2. CASE BeginRound /\ ~stop
    <2>1. round'.stale = FALSE
      BY <1>2 DEF BeginRound
    <2> QED  BY <2>1 DEF StaleForAReason
  <1>3. CASE LookAtGpus \/ CandidatePumped \/ AfterCpuPumped
    <2>1. generation' = generation
      BY <1>3 DEF LookAtGpus, CandidatePumped, AfterCpuPumped, session
    <2>2. CASE round' = None
      BY <2>2 DEF StaleForAReason
    <2>3. CASE /\ round # None /\ round'.generation = round.generation
               /\ round'.stale = Stale
      <3>1. Stale => generation # round.generation \/ stop
        BY <2>3 DEF Stale, StaleForAReason
      <3> QED  BY <1>1, <2>1, <2>3, <3>1 DEF StaleForAReason
    <2> QED  BY <1>3, <2>2, <2>3, LookForm
  <1>4. CASE Consume
    <2>1. /\ generation' = generation /\ round'.generation = round.generation
          /\ round'.stale = ~Relaunches(on) /\ on \in Gpus /\ round # None
          /\ slot[on] \in Slots /\ slot[on].state = "done"
      BY <1>4, ConsumeForm, NoneIsNothing DEF Consume, session
    <2>2. generation = round.generation => slot[on].generation = round.generation
      <3>1. slot[on] # Idle
        BY <2>1, SlotForms
      <3> QED  BY <2>1, <3>1 DEF RoundOwn, RoundLoaded, Loading, GpuLoaded
    <2>3. ~Relaunches(on) => generation # round.generation \/ stop
      BY <2>1, <2>2 DEF Relaunches, ResultStale, Stale, StaleForAReason
    <2> QED  BY <1>1, <2>1, <2>3 DEF StaleForAReason
  <1>5. CASE round' = None
    BY <1>5 DEF StaleForAReason
  <1>6. CASE UNCHANGED round /\ round # None
    <2>1. round.generation \in Nat /\ round.generation <= generation
          /\ generation \in Nat
      BY <1>6, StaleIsBoolean DEF RoundOwn, RoundLoaded, TypeOK
    <2>2. generation # round.generation => generation' # round.generation
      BY <2>1, JobSteps
    <2> QED  BY <1>1, <1>6, <2>2 DEF StaleForAReason
  <1> QED  BY <1>2, <1>3, <1>4, <1>5, <1>6, RoundMoves
--------------------------------------------------------------------------------
(* The session, and the whole of the type                                  *)

SessionType ==
    /\ mode \in Modes /\ stop \in BOOLEAN
    /\ generation \in Nat /\ valid \in BOOLEAN
    /\ extranonce2 \in 0 .. Extranonces - 1
    /\ nonce \in 0 .. NonceSpace - 1
    /\ loaded \in {0, generation}
    /\ dead \in BOOLEAN /\ wrapped \in BOOLEAN
    /\ covered \in GpuSpace .. NonceSpace

LEMMA TypeParts ==
    TypeOK <=> SessionType /\ ThreadType /\ GpuType /\ balance \in Int
  BY DEF TypeOK, SessionType, ThreadType, GpuType

LEMMA NextDead ==
    ASSUME TypeOK, [Next]_vars
    PROVE  dead' \in BOOLEAN /\ mode' = mode
  <1>1. \/ Reset \/ SessionEnds \/ SessionPumped \/ Drain \/ Upload \/ BeginRound
        \/ LookAtGpus \/ SkipGpu \/ TakeError \/ Consume \/ CandidatePumped
        => dead' \in BOOLEAN /\ mode' = mode
    BY DEF Reset, SessionEnds, SessionPumped, Drain, Upload, BeginRound, LookAtGpus,
           SkipGpu, TakeError, Consume, CandidatePumped, session, history, TypeOK
  <1>2. \/ GpuSubmit \/ ConsumeReturns \/ CpuStart \/ Service \/ BatchReturns
        \/ CpuCandidatePumped \/ CpuSubmit \/ AfterCpuPumped \/ HashOne
        => dead' \in BOOLEAN /\ mode' = mode
    BY DEF GpuSubmit, ConsumeReturns, CpuStart, Service, BatchReturns,
           CpuCandidatePumped, CpuSubmit, AfterCpuPumped, HashOne, session, history,
           TypeOK
  <1>3. \/ RequestStop \/ Notify \/ BadNotify \/ PumpThrows \/ SocketFails \/ FeeSwitch
        \/ (\E g \in Gpus : FinishScan(g)) \/ UNCHANGED vars
        => dead' \in BOOLEAN /\ mode' = mode
    BY DEF RequestStop, Notify, BadNotify, PumpThrows, SocketFails, FeeSwitch,
           FinishScan, session, history, vars, TypeOK
  <1> QED  BY <1>1, <1>2, <1>3 DEF Next, ThreadStep, Environment

(* The balance changes when a scan ends and when its result is counted.    *)
LEMMA BalanceSteps ==
    ASSUME [Next]_vars
    PROVE  (\E g \in Gpus : FinishScan(g)) \/ Consume \/ balance' = balance
  <1>1. \/ Reset \/ SessionEnds \/ SessionPumped \/ Drain \/ Upload \/ BeginRound
        \/ LookAtGpus \/ SkipGpu \/ TakeError \/ CandidatePumped
        => balance' = balance
    BY DEF Reset, SessionEnds, SessionPumped, Drain, Upload, BeginRound, LookAtGpus,
           SkipGpu, TakeError, CandidatePumped, history
  <1>2. \/ GpuSubmit \/ ConsumeReturns \/ CpuStart \/ Service \/ BatchReturns
        \/ CpuCandidatePumped \/ CpuSubmit \/ AfterCpuPumped \/ HashOne
        => balance' = balance
    BY DEF GpuSubmit, ConsumeReturns, CpuStart, Service, BatchReturns,
           CpuCandidatePumped, CpuSubmit, AfterCpuPumped, HashOne, history
  <1>3. \/ RequestStop \/ Notify \/ BadNotify \/ PumpThrows \/ SocketFails \/ FeeSwitch
        \/ UNCHANGED vars
        => balance' = balance
    BY DEF RequestStop, Notify, BadNotify, PumpThrows, SocketFails, FeeSwitch,
           history, vars
  <1> QED  BY <1>1, <1>2, <1>3 DEF Next, ThreadStep, Environment

LEMMA NextBalance ==
    ASSUME TypeOK, Control, [Next]_vars
    PROVE  balance' \in Int
  <1>0. balance \in Int
    BY DEF TypeOK
  <1>1. CASE \E g \in Gpus : FinishScan(g)
    <2>1. PICK g \in Gpus : FinishScan(g)
      BY <1>1
    <2>2. slot[g].size \in Int
      BY <2>1, FinishForm, SlotForms, SizeFacts
    <2>3. balance' = balance + slot[g].size \/ balance' = balance
      BY <2>1 DEF FinishScan
    <2> QED  BY <1>0, <2>2, <2>3
  <1>2. CASE Consume
    <2>1. round.pending[on] \in Sizes \cup {Taken}
      BY <1>2, ConsumeForm, StaleIsBoolean
    <2>2. round.pending[on] \in Int
      BY <2>1, SizeFacts DEF Taken
    <2> QED  BY <1>0, <1>2, <2>2 DEF Consume
  <1> QED  BY <1>0, <1>1, <1>2, BalanceSteps

LEMMA CpuStartTyped ==
    ASSUME TypeOK, Control, CpuStart
    PROVE  /\ nonce' \in 0 .. NonceSpace - 1 /\ covered' \in GpuSpace .. NonceSpace
           /\ extranonce2' \in 0 .. Extranonces - 1 /\ wrapped' \in BOOLEAN
  <1>0. /\ GpuSpace \in Nat /\ NonceSpace \in Nat /\ GpuSpace < NonceSpace
        /\ CpuTotal \in Nat /\ CpuTotal > 0
        /\ nonce \in 0 .. NonceSpace - 1 /\ covered \in GpuSpace .. NonceSpace
        /\ extranonce2 \in 0 .. Extranonces - 1 /\ wrapped \in BOOLEAN
    BY HybridRoundAssumption DEF TypeOK
  <1>1. CASE UNCHANGED <<extranonce2, nonce, wrapped, covered>>
    BY <1>0, <1>1
  <1>2. CASE \E start \in GpuSpace .. NonceSpace - 1, wraps \in BOOLEAN :
                /\ start + CpuTotal <= NonceSpace
                /\ extranonce2' = IF wraps THEN NextExtranonce ELSE extranonce2
                /\ wrapped' = (wrapped \/ wraps)
                /\ \/ /\ nonce' = start
                      /\ covered' = IF wraps THEN GpuSpace ELSE covered
                   \/ /\ nonce' = (start + CpuTotal) % NonceSpace
                      /\ covered' = start + CpuTotal
    <2>1. PICK start \in GpuSpace .. NonceSpace - 1, wraps \in BOOLEAN :
                /\ start + CpuTotal <= NonceSpace
                /\ extranonce2' = IF wraps THEN NextExtranonce ELSE extranonce2
                /\ wrapped' = (wrapped \/ wraps)
                /\ \/ /\ nonce' = start
                      /\ covered' = IF wraps THEN GpuSpace ELSE covered
                   \/ /\ nonce' = (start + CpuTotal) % NonceSpace
                      /\ covered' = start + CpuTotal
      BY <1>2
    <2>2. start \in 0 .. NonceSpace - 1 /\ start + CpuTotal \in GpuSpace .. NonceSpace
      BY <1>0, <2>1
    <2>3. (start + CpuTotal) % NonceSpace \in 0 .. NonceSpace - 1
      BY <1>0, <2>2
    <2>4. extranonce2' \in 0 .. Extranonces - 1 /\ wrapped' \in BOOLEAN
      BY <1>0, <2>1, ExtranonceMoves
    <2>5. nonce' \in 0 .. NonceSpace - 1
      BY <2>1, <2>2, <2>3
    <2>6. GpuSpace \in GpuSpace .. NonceSpace
      BY <1>0
    <2>7. covered' \in GpuSpace .. NonceSpace
      BY <1>0, <2>1, <2>2, <2>6
    <2> QED  BY <2>4, <2>5, <2>7
  <1> QED  BY <1>1, <1>2, CpuStartForm

LEMMA NextSessionType ==
    ASSUME TypeOK, Control, Loading, [Next]_vars
    PROVE  SessionType'
  <1>1. dead' \in BOOLEAN /\ mode' \in Modes /\ stop' \in BOOLEAN
    BY NextDead, StopSteps DEF RequestStop, TypeOK
  <1>2. CASE Notify
    <2>1. /\ generation' \in Nat /\ valid' \in BOOLEAN /\ nonce' = GpuSpace
          /\ loaded' = 0 /\ wrapped' = FALSE /\ covered' = GpuSpace
          /\ extranonce2' \in {extranonce2, NextExtranonce}
      BY <1>2 DEF Notify, TypeOK
    <2>2. extranonce2' \in 0 .. Extranonces - 1
      BY <2>1, ExtranonceMoves DEF TypeOK
    <2>3. GpuSpace \in 0 .. NonceSpace - 1 /\ GpuSpace \in GpuSpace .. NonceSpace
      BY HybridRoundAssumption
    <2> QED  BY <1>1, <2>1, <2>2, <2>3 DEF SessionType
  <1>3. CASE BadNotify \/ Reset \/ UNCHANGED <<session, wrapped, covered>>
    <2>1. UNCHANGED <<generation, extranonce2, nonce, loaded, wrapped, covered>>
          /\ valid' \in BOOLEAN
      BY <1>3 DEF BadNotify, Reset, session, history, TypeOK
    <2> QED  BY <1>1, <2>1 DEF SessionType, TypeOK
  <1>4. CASE Upload
    <2>1. /\ UNCHANGED <<generation, valid, extranonce2, wrapped, covered>>
          /\ nonce' \in {GpuSpace, nonce} /\ loaded' \in {loaded, generation}
      BY <1>4 DEF Upload, history
    <2>2. GpuSpace \in 0 .. NonceSpace - 1
      BY HybridRoundAssumption
    <2> QED  BY <1>1, <2>1, <2>2 DEF SessionType, TypeOK
  <1>5. CASE CpuStart
    <2>1. UNCHANGED <<generation, valid, loaded>>
      BY <1>5 DEF CpuStart
    <2> QED  BY <1>1, <1>5, <2>1, CpuStartTyped DEF SessionType, TypeOK
  <1> QED  BY <1>2, <1>3, <1>4, <1>5, SessionSteps
--------------------------------------------------------------------------------
(* What is counted                                                         *)

(* What may become of the scan of one GPU.                                 *)
LEMMA ScanSteps ==
    ASSUME TypeOK, Control, [Next]_vars, NEW g \in Gpus
    PROVE  \/ slot'[g] = slot[g] /\ size'[g] = size[g]
           \/ slot'[g] = Idle
           \/ /\ (BeginRound /\ ~stop) \/ (Consume /\ g = on)
              /\ slot'[g].state = "running" /\ slot'[g].size = size'[g]
           \/ /\ FinishScan(g) /\ slot[g] # Idle
              /\ slot'[g].size = slot[g].size /\ size'[g] = size[g]
  <1>0. slot \in [Gpus -> Slots] /\ size \in [Gpus -> Sizes]
    BY DEF TypeOK
  <1>1. CASE \E h \in Gpus : FinishScan(h)
    <2>1. PICK h \in Gpus : FinishScan(h)
      BY <1>1
    <2>2. slot' = [slot EXCEPT ![h] = slot'[h]] /\ size' = size
      BY <2>1, FinishForm DEF FinishScan
    <2>3. CASE h = g
      BY <2>1, <2>2, <2>3, FinishForm
    <2>4. CASE h # g
      BY <1>0, <2>2, <2>4
    <2> QED  BY <2>3, <2>4
  <1>2. CASE Drain
    BY <1>2 DEF Drain, Drained
  <1>3. CASE Upload
    BY <1>3 DEF Upload, Drained
  <1>4. CASE BeginRound
    <2>1. CASE stop
      BY <1>4, <2>1 DEF BeginRound, gpus
    <2>2. CASE ~stop
      <3>1. PICK count \in [Gpus -> Sizes] :
               /\ \A h \in Gpus : \/ count[h] = size[h]
                                  \/ ~Active(h) /\ count[h] < size[h]
               /\ slot' = [h \in Gpus |-> IF Active(h) THEN slot[h]
                                         ELSE Launched(h, count[h])]
               /\ size' = count
        BY <1>4, <2>2 DEF BeginRound
      <3>2. CASE Active(g)
        BY <3>1, <3>2
      <3>3. CASE ~Active(g)
        <4>1. slot'[g] = Launched(g, count[g]) /\ size'[g] = count[g]
          BY <3>1, <3>3
        <4> QED  BY <1>4, <2>2, <4>1, LaunchedForm
      <3> QED  BY <3>2, <3>3
    <2> QED  BY <2>1, <2>2
  <1>5. CASE TakeError
    BY <1>0, <1>5 DEF TakeError
  <1>6. CASE Consume
    <2>1. PICK count \in Sizes :
             /\ size' = [size EXCEPT ![on] = count]
             /\ slot' = [slot EXCEPT ![on] =
                            IF Relaunches(on) THEN Launched(on, count) ELSE Idle]
      BY <1>6, ConsumeForm
    <2>2. CASE g # on
      BY <1>0, <2>1, <2>2
    <2>3. CASE g = on /\ Relaunches(on)
      <3>1. slot'[g] = Launched(g, count) /\ size'[g] = count
        BY <1>0, <2>1, <2>3
      <3> QED  BY <1>6, <2>3, <3>1, LaunchedForm
    <2>4. CASE g = on /\ ~Relaunches(on)
      BY <1>0, <2>1, <2>4
    <2> QED  BY <2>2, <2>3, <2>4
  <1>7. CASE UNCHANGED gpus
    BY <1>7 DEF gpus
  <1> QED  BY <1>1, <1>2, <1>3, <1>4, <1>5, <1>6, <1>7, GpuSteps

LEMMA NextScansSized ==
    ASSUME TypeOK, Control, ScansSized, [Next]_vars
    PROVE  ScansSized'
  <1> SUFFICES ASSUME NEW g \in Gpus, slot'[g] # Idle
               PROVE  slot'[g].size = size'[g]
    BY DEF ScansSized
  <1> QED  BY ScanSteps DEF ScansSized

(* The tasks of a round that remain are those it began with.               *)
LEMMA TaskSteps ==
    ASSUME TypeOK, Control, [Next]_vars, round' # None, ~(BeginRound /\ ~stop),
           NEW g \in Gpus
    PROVE  /\ round # None
           /\ \/ round'.pending[g] = Taken
              \/ round'.pending[g] = round.pending[g] /\ ~(Consume /\ g = on)
  <1>1. CASE Consume
    <2>1. round \in Round /\ round # None
      BY <1>1, ConsumeForm, NoneIsNothing
    <2>2. \E b : round' = [round EXCEPT !.pending[on] = Taken, !.stale = b]
      BY <1>1 DEF Consume
    <2>3. round'.pending = [round.pending EXCEPT ![on] = Taken]
      BY <2>1, <2>2 DEF Round
    <2>4. round.pending \in [Gpus -> Sizes \cup {Taken}]
      BY <2>1 DEF Round
    <2> QED  BY <2>1, <2>3, <2>4
  <1>2. CASE ~Consume /\ (LookAtGpus \/ CandidatePumped \/ AfterCpuPumped)
    <2>1. round \in Round /\ round # None
          /\ \E b : round' = [round EXCEPT !.stale = b]
      BY <1>2, LookForm
    <2>2. round'.pending = round.pending
      BY <2>1 DEF Round
    <2> QED  BY <1>2, <2>1, <2>2
  <1>3. CASE ~Consume /\ UNCHANGED round
    BY <1>3
  <1> QED  BY <1>1, <1>2, <1>3, RoundMoves

LEMMA NextTasksSized ==
    ASSUME TypeOK, Control, TasksSized, [Next]_vars
    PROVE  TasksSized'
  <1> SUFFICES ASSUME round' # None, NEW g \in Gpus,
                      round'.pending[g] # Taken, slot'[g] # Idle
               PROVE  round'.pending[g] = size'[g]
    BY DEF TasksSized
  <1>1. CASE BeginRound /\ ~stop
    <2>1. PICK count \in [Gpus -> Sizes] :
             /\ \A h \in Gpus : \/ count[h] = size[h]
                                \/ ~Active(h) /\ count[h] < size[h]
             /\ size' = count
             /\ round' = [generation |-> generation, extranonce2 |-> extranonce2,
                          pending |-> [h \in Gpus |-> TaskCount(h, count[h])],
                          stale |-> FALSE]
      BY <1>1 DEF BeginRound
    <2>2. round'.pending[g] = TaskCount(g, count[g])
      BY <2>1
    <2> QED  BY <2>1, <2>2 DEF TaskCount
  <1>2. CASE ~(BeginRound /\ ~stop)
    <2>1. /\ round # None /\ round.pending[g] # Taken /\ ~(Consume /\ g = on)
          /\ round'.pending[g] = round.pending[g]
      BY <1>2, TaskSteps
    <2>2. slot[g] # Idle /\ size'[g] = size[g]
      BY <1>2, <2>1, ScanSteps
    <2> QED  BY <2>1, <2>2 DEF TasksSized
  <1> QED  BY <1>1, <1>2

(* The hashes of one scan.                                                 *)
HashesOf(g, count) == {g} \X (1 .. count)

LEMMA CountingFacts ==
    /\ IsFiniteSet(Uncollected) /\ Cardinality(Uncollected) \in Nat
    /\ \A g \in Gpus, count \in Nat :
          /\ IsFiniteSet(HashesOf(g, count))
          /\ Cardinality(HashesOf(g, count)) = count
  <1>1. IsFiniteSet(Gpus \X (1 .. GpuSpace))
    <2>1. NumGpus \in Int /\ GpuSpace \in Int /\ 1 \in Int
      BY HybridRoundAssumption
    <2>2. IsFiniteSet(1 .. NumGpus) /\ IsFiniteSet(1 .. GpuSpace)
      BY <2>1, FS_Interval
    <2> QED  BY <2>2, FS_Product DEF Gpus
  <1>2. Uncollected \subseteq Gpus \X (1 .. GpuSpace)
    BY DEF Uncollected
  <1>3. IsFiniteSet(Uncollected) /\ Cardinality(Uncollected) \in Nat
    BY <1>1, <1>2, FS_Subset, FS_CardinalityType
  <1>4. ASSUME NEW g \in Gpus, NEW count \in Nat
        PROVE  /\ IsFiniteSet(HashesOf(g, count))
               /\ Cardinality(HashesOf(g, count)) = count
    <2>1. IsFiniteSet({g}) /\ Cardinality({g}) = 1
      BY FS_Singleton
    <2>2. 1 \in Int /\ count \in Int /\ count >= 0
      OBVIOUS
    <2>3. IsFiniteSet(1 .. count) /\ Cardinality(1 .. count) = count
      BY <2>2, FS_Interval
    <2>4. /\ IsFiniteSet({g} \X (1 .. count))
          /\ Cardinality({g} \X (1 .. count)) = 1 * count
      <3>1. /\ IsFiniteSet({g} \X (1 .. count))
            /\ Cardinality({g} \X (1 .. count)) = Cardinality({g}) * Cardinality(1 .. count)
        BY <2>1, <2>3, FS_Product, Zenon
      <3> QED  BY <2>1, <2>3, <3>1, Zenon
    <2>5. 1 * count = count
      OBVIOUS
    <2> QED  BY <2>4, <2>5 DEF HashesOf
  <1> QED  BY <1>3, <1>4

(* A step that leaves no result where there was none adds nothing.         *)
LEMMA NothingAdded ==
    ASSUME \A g \in Gpus : \/ slot'[g] = slot[g] \/ slot'[g].state # "done"
                           \/ slot'[g].failed
    PROVE  /\ Uncollected' \subseteq Uncollected
           /\ Cardinality(Uncollected') <= Cardinality(Uncollected)
  <1>1. Uncollected' \subseteq Uncollected
    BY DEF Uncollected
  <1> QED  BY <1>1, CountingFacts, FS_Subset

LEMMA FinishCounted ==
    ASSUME TypeOK, CountedWasComputed, NEW g \in Gpus, FinishScan(g)
    PROVE  CountedWasComputed'
  <1>0. /\ slot' = [slot EXCEPT ![g] = slot'[g]] /\ slot \in [Gpus -> Slots]
        /\ slot'[g].size = slot[g].size /\ slot[g].size \in Nat
        /\ balance \in Int /\ Cardinality(Uncollected) \in Nat
    BY FinishForm, SlotForms, SizeFacts, CountingFacts DEF TypeOK
  <1>1. CASE balance' = balance + slot[g].size
    <2> DEFINE more == HashesOf(g, slot[g].size)
    <2>1. IsFiniteSet(more) /\ Cardinality(more) = slot[g].size
      BY <1>0, CountingFacts
    <2>2. Uncollected' \subseteq Uncollected \cup more
      BY <1>0 DEF Uncollected, HashesOf
    <2>3. /\ IsFiniteSet(Uncollected \cup more)
          /\ Cardinality(Uncollected \cup more)
                = Cardinality(Uncollected) + Cardinality(more)
                    - Cardinality(Uncollected \cap more)
      BY <2>1, CountingFacts, FS_Union
    <2>4. Cardinality(Uncollected \cap more) \in Nat
      BY <2>1, CountingFacts, FS_Intersection, FS_CardinalityType
    <2>5. /\ Cardinality(Uncollected') \in Nat
          /\ Cardinality(Uncollected') <= Cardinality(Uncollected \cup more)
      BY <2>2, <2>3, FS_Subset, FS_CardinalityType
    <2> HIDE DEF more
    <2> QED  BY <1>0, <1>1, <2>1, <2>3, <2>4, <2>5 DEF CountedWasComputed
  <1>2. CASE slot' = [slot EXCEPT ![g] = Done(slot[g], 0, TRUE)] /\ balance' = balance
    <2>1. slot'[g].failed
      BY <1>0, <1>2 DEF Done
    <2>2. Cardinality(Uncollected') <= Cardinality(Uncollected)
      BY <1>0, <2>1, NothingAdded
    <2>3. Cardinality(Uncollected') \in Nat
      BY CountingFacts, <2>1, <1>0, NothingAdded, FS_Subset, FS_CardinalityType
    <2> QED  BY <1>0, <1>2, <2>2, <2>3 DEF CountedWasComputed
  <1> QED  BY <1>1, <1>2 DEF FinishScan

(* The task has the size of the scan whose result is taken.                *)
LEMMA ConsumeCounted ==
    ASSUME TypeOK, Control, ScansSized, TasksSized, CountedWasComputed, Consume
    PROVE  CountedWasComputed'
  <1>0. /\ on \in Gpus /\ slot \in [Gpus -> Slots] /\ balance \in Int
        /\ slot[on].state = "done" /\ ~slot[on].failed /\ Ready(on)
        /\ Cardinality(Uncollected) \in Nat /\ round # None
    BY ConsumeForm, CountingFacts, NoneIsNothing DEF Consume, TypeOK
  <1>1. slot[on] # Idle /\ slot[on].size \in Nat /\ slot[on].size <= GpuSpace
    <2>1. slot[on] # Idle
      BY <1>0 DEF Idle
    <2>2. slot[on].size \in Sizes
      BY <1>0, <2>1, SlotForms
    <2>3. /\ RegionStart(on) \in Nat /\ RegionEnd(on) \in Int
          /\ RegionStart(on) + Length - 1 <= RegionEnd(on) /\ RegionEnd(on) < GpuSpace
      BY <1>0, RegionFacts
    <2>4. slot[on].size \in Nat /\ slot[on].size <= Length
      BY <2>2, SizeFacts
    <2>5. Length \in Nat /\ GpuSpace \in Nat
      BY LengthFacts, HybridRoundAssumption
    <2>6. slot[on].size <= GpuSpace
      <3> DEFINE first == RegionStart(on)
                 last == RegionEnd(on)
                 count == slot[on].size
      <3> HIDE DEF first, last, count
      <3>1. /\ first \in Nat /\ last \in Int /\ count \in Nat
            /\ first + Length - 1 <= last /\ last < GpuSpace /\ count <= Length
        BY <2>3, <2>4 DEF first, last, count
      <3>2. count <= GpuSpace
        BY <2>5, <3>1
      <3> QED  BY <3>2 DEF count
    <2> QED  BY <2>1, <2>4, <2>6
  <1>2. balance' = balance - slot[on].size
    BY <1>0, <1>1 DEF Consume, ScansSized, TasksSized, Ready
  <1> DEFINE less == HashesOf(on, slot[on].size)
  <1>3. IsFiniteSet(less) /\ Cardinality(less) = slot[on].size
    BY <1>0, <1>1, CountingFacts
  <1>4. less \subseteq Uncollected
    BY <1>0, <1>1, HybridRoundAssumption DEF HashesOf, Uncollected
  <1>5. Uncollected' \subseteq Uncollected \ less
    <2>1. PICK scan : slot' = [slot EXCEPT ![on] = scan] /\ scan.state # "done"
      BY ConsumeForm, LaunchedForm DEF Idle
    <2>2. slot'[on].state # "done" /\ \A g \in Gpus : g # on => slot'[g] = slot[g]
      BY <1>0, <2>1
    <2> QED  BY <2>2 DEF Uncollected, HashesOf
  <1>6. /\ IsFiniteSet(Uncollected \ less)
        /\ Cardinality(Uncollected \ less)
              = Cardinality(Uncollected) - Cardinality(less)
    <2> HIDE DEF less
    <2>1. Uncollected \cap less = less
      BY <1>4
    <2>2. IsFiniteSet(Uncollected)
      BY CountingFacts
    <2> QED  BY <2>1, <2>2, FS_Difference
  <1>7. /\ Cardinality(Uncollected') \in Nat
        /\ Cardinality(Uncollected') <= Cardinality(Uncollected \ less)
    BY <1>5, <1>6, FS_Subset, FS_CardinalityType
  <1> HIDE DEF less
  <1> QED  BY <1>0, <1>1, <1>2, <1>3, <1>6, <1>7 DEF CountedWasComputed

LEMMA NextCounted ==
    ASSUME TypeOK, Control, ScansSized, TasksSized, CountedWasComputed, [Next]_vars
    PROVE  CountedWasComputed'
  <1>1. CASE \E g \in Gpus : FinishScan(g)
    BY <1>1, FinishCounted
  <1>2. CASE Consume
    BY <1>2, ConsumeCounted
  <1>3. CASE ~(\E g \in Gpus : FinishScan(g)) /\ ~Consume
    <2>1. \A g \in Gpus : slot'[g] = slot[g] \/ slot'[g].state # "done"
      BY <1>3, ScanSteps DEF Idle
    <2>2. /\ Uncollected' \subseteq Uncollected
          /\ Cardinality(Uncollected') <= Cardinality(Uncollected)
      BY <2>1, NothingAdded
    <2>3. Cardinality(Uncollected') \in Nat /\ Cardinality(Uncollected) \in Nat
      BY <2>2, CountingFacts, FS_Subset, FS_CardinalityType
    <2>4. balance' = balance /\ balance \in Int
      BY <1>3, BalanceSteps DEF TypeOK
    <2> QED  BY <2>2, <2>3, <2>4 DEF CountedWasComputed
  <1> QED  BY <1>1, <1>2, <1>3
--------------------------------------------------------------------------------
(* The invariant                                                           *)

LEMMA InitInv == Init => IInv
  <1> SUFFICES ASSUME Init PROVE IInv
    OBVIOUS
  <1>0. /\ GpuSpace \in Nat /\ NonceSpace \in Nat /\ GpuSpace < NonceSpace
        /\ Extranonces \in Nat /\ Extranonces > 1 /\ NumGpus \in Nat \ {0}
    BY HybridRoundAssumption
  <1>1. SessionType /\ balance \in Int
    <2>1. /\ mode \in Modes /\ stop = FALSE /\ generation = 0 /\ valid = FALSE
          /\ extranonce2 = 0 /\ nonce = GpuSpace /\ loaded = 0 /\ dead = FALSE
          /\ wrapped = FALSE /\ covered = GpuSpace /\ balance = 0
      BY DEF Init
    <2>2. /\ 0 \in 0 .. Extranonces - 1 /\ GpuSpace \in 0 .. NonceSpace - 1
          /\ GpuSpace \in GpuSpace .. NonceSpace
      BY <1>0
    <2>3. stop \in BOOLEAN /\ valid \in BOOLEAN /\ dead \in BOOLEAN /\ wrapped \in BOOLEAN
      BY <2>1
    <2>4. /\ generation \in Nat /\ loaded \in {0, generation} /\ balance \in Int
          /\ extranonce2 \in 0 .. Extranonces - 1 /\ nonce \in 0 .. NonceSpace - 1
          /\ covered \in GpuSpace .. NonceSpace
      BY <2>1, <2>2
    <2> QED  BY <2>1, <2>3, <2>4 DEF SessionType
  <1>2. ThreadType
    BY <1>0 DEF Init, ThreadType, ThreadAt, PumpAt
  <1>3. GpuType
    BY <1>0 DEF Init, GpuType, Slots
  <1>4. Control
    BY DEF Init, Control, Outside
  <1>5. Loading
    BY DEF Init, Loading
  <1>6. RoundOwn /\ HeldOwn /\ BatchOwn /\ StaleForAReason /\ FailureHeld
    BY DEF Init, RoundOwn, RoundLoaded, RoundNotices, HeldOwn, BatchOwn,
           StaleForAReason, FailureHeld
  <1>7. CursorAhead
    BY DEF Init, CursorAhead
  <1>8. RegionsApart
    BY DEF Init, RegionsApart
  <1>9. ScansSized /\ TasksSized
    BY DEF Init, ScansSized, TasksSized
  <1>10. CountedWasComputed
    <2>1. Uncollected = {}
      BY DEF Init, Uncollected, Idle
    <2> QED  BY <2>1, FS_EmptySet DEF Init, CountedWasComputed
  <1> QED
    BY <1>1, <1>2, <1>3, <1>4, <1>5, <1>6, <1>7, <1>8, <1>9, <1>10, TypeParts
    DEF IInv

LEMMA NextInv == IInv /\ [Next]_vars => IInv'
  <1> SUFFICES ASSUME IInv, [Next]_vars PROVE IInv'
    OBVIOUS
  <1>0. /\ TypeOK /\ Control /\ Loading /\ RoundOwn /\ HeldOwn /\ BatchOwn
        /\ CursorAhead /\ FailureHeld /\ RegionsApart /\ StaleForAReason
        /\ ScansSized /\ TasksSized /\ CountedWasComputed
    BY DEF IInv
  <1>1. \A g \in Gpus : GpuGood(g)
    BY <1>0 DEF GpuGood, Loading, RegionsApart
  <1>2. ThreadType' /\ Control'
    BY <1>0, NextControl
  <1>3. Loading' /\ \A g \in Gpus : GpuGood(g)'
    BY <1>0, <1>1, NextLoading
  <1>4. TypeOK'
    <2>1. SessionType' /\ GpuType' /\ balance' \in Int
      BY <1>0, NextSessionType, NextGpuType, NextBalance
    <2> QED  BY <1>2, <2>1 DEF TypeOK, SessionType, ThreadType, GpuType
  <1>5. RoundOwn'
    BY <1>0, NextRoundLoaded, NextRoundNotices DEF RoundOwn
  <1>6. HeldOwn' /\ BatchOwn' /\ CursorAhead' /\ FailureHeld'
    BY <1>0, NextHeld, NextBatch, NextCursor, NextFailure
  <1>7. RegionsApart' /\ StaleForAReason'
    BY <1>0, <1>2, <1>3, NextRegions, NextReason
  <1>8. ScansSized' /\ TasksSized' /\ CountedWasComputed'
    BY <1>0, NextScansSized, NextTasksSized, NextCounted
  <1> QED  BY <1>2, <1>3, <1>4, <1>5, <1>6, <1>7, <1>8 DEF IInv

LEMMA InvHolds == Spec => []IInv
  BY InitInv, NextInv, PTL DEF Spec
--------------------------------------------------------------------------------

(***************************************************************************)
(* Theorems                                                                *)
(***************************************************************************)

(* Every variable keeps to its type: cursors to the nonce space, batch     *)
(* sizes to those a region has room for, scans and batches to their shape. *)
THEOREM TypeCorrect == Spec => []TypeOK
  <1>1. IInv => TypeOK
    BY DEF IInv
  <1> QED  BY <1>1, InvHolds, PTL

(* GPUs and CPU never work on the same nonce: scans stay in the region of  *)
(* their GPU, batches above all of them.                                   *)
THEOREM RegionsStayApart == Spec => []RegionsApart
  <1>1. IInv => RegionsApart
    BY DEF IInv
  <1> QED  BY <1>1, InvHolds, PTL

(* What is sent to the pool was hashed for the job the message names and   *)
(* with the extranonce2 it carries.                                        *)
THEOREM SubmissionCorrect == Spec => []SubmitsWhatWasHashed
  <1>1. ASSUME IInv PROVE SubmitsWhatWasHashed
    <2>0. /\ TypeOK /\ Control /\ Loading /\ RoundOwn /\ HeldOwn /\ BatchOwn
      BY <1>1 DEF IInv
    <2>1. ASSUME at = "gpuSubmit"
          PROVE  /\ held.header.generation = generation
                 /\ held.header.extranonce2 = round.extranonce2 \/ wrapped
      <3>1. held # None /\ round # None /\ generation = round.generation
        BY <2>0, <2>1 DEF Control, Outside, RoundOwn, RoundNotices
      <3> QED  BY <2>0, <3>1 DEF HeldOwn, RoundOwn, RoundLoaded
    <2>2. ASSUME at = "cpuSubmit" PROVE batch.header = CurrentHeader
      <3>1. /\ batch # None /\ batch \in Batch
            /\ batch.header.generation = generation
            /\ batch.header.extranonce2 = extranonce2
        BY <2>0, <2>2 DEF Control, BatchOwn, TypeOK
      <3>2. batch.header \in Header
        BY <3>1, BatchFields
      <3> QED  BY <3>1, <3>2 DEF Header, CurrentHeader
    <2> QED  BY <2>1, <2>2 DEF SubmitsWhatWasHashed
  <1> QED  BY <1>1, InvHolds, PTL

(* The GPU hashes that are reported were computed: what is computed and    *)
(* not reported covers at least the results nobody has taken.              *)
THEOREM CountingCorrect == Spec => []CountedWasComputed
  <1>1. IInv => CountedWasComputed
    BY DEF IInv
  <1> QED  BY <1>1, InvHolds, PTL

(* A round is stale only if its job was replaced or the miner stops.       *)
THEOREM StalenessCorrect == Spec => []StaleForAReason
  <1>1. IInv => StaleForAReason
    BY DEF IInv
  <1> QED  BY <1>1, InvHolds, PTL

(* After a failure of the socket the session only winds down.              *)
THEOREM FailureCorrect == Spec => []SilentAfterFailure
  <1>1. IInv => SilentAfterFailure
    BY DEF IInv, FailureHeld, SilentAfterFailure
  <1> QED  BY <1>1, InvHolds, PTL

(* The CPU never hashes a nonce twice under one header.                    *)
THEOREM NoncesCorrect == Spec => CpuNoncesFresh
  <1>1. ASSUME IInv, [Next]_vars, batch = None, batch' # None,
               batch'.header = CurrentHeader
        PROVE  batch'.start >= covered \/ covered = NonceSpace
    <2>0. TypeOK /\ Control /\ CursorAhead
      BY <1>1 DEF IInv
    <2>1. CpuStart
      BY <1>1, <2>0, BatchSteps
    <2>2. PICK start \in GpuSpace .. NonceSpace - 1, wraps \in BOOLEAN :
             /\ ~wraps => start >= nonce
             /\ extranonce2' = IF wraps THEN NextExtranonce ELSE extranonce2
             /\ batch' = [header |-> [generation |-> generation,
                                     extranonce2 |-> extranonce2'],
                          start |-> start, done |-> 0, found |-> 0,
                          cancel |-> FALSE, ok |-> TRUE]
      BY <1>1, <2>0, <2>1, CpuStartForm
    <2>3. batch'.header = [generation |-> generation, extranonce2 |-> extranonce2']
          /\ batch'.start = start
      BY <2>2
    <2>4. extranonce2' = extranonce2
      BY <1>1, <2>3 DEF CurrentHeader
    <2>5. start >= nonce
      BY <2>0, <2>2, <2>4, ExtranonceMoves
    <2>6. /\ GpuSpace \in Nat /\ NonceSpace \in Nat
          /\ nonce \in Nat /\ covered \in Nat
      BY <2>0, HybridRoundAssumption DEF TypeOK
    <2> QED  BY <2>0, <2>2, <2>3, <2>5, <2>6 DEF CursorAhead
  <1>2. IInv /\ [Next]_vars
          => [batch = None /\ batch' # None /\ batch'.header = CurrentHeader
                => batch'.start >= covered \/ covered = NonceSpace]_vars
    BY <1>1
  <1> QED  BY <1>2, InvHolds, PTL DEF Spec, CpuNoncesFresh

(* After a stop request no CPU batch begins and no GPU whose result is     *)
(* taken is launched again.                                                *)
THEOREM StopCorrect == Spec => NothingStartsAfterStop
  <1>1. ASSUME IInv, [Next]_vars, stop, batch' # None PROVE batch # None
    <2>1. TypeOK /\ Control
      BY <1>1 DEF IInv
    <2>2. CpuStart => at' # "cpu"
      BY <1>1, <2>1, CpuStartForm
    <2> QED  BY <1>1, <2>1, <2>2, BatchSteps
  <1>2. ASSUME IInv, [Next]_vars, stop, NEW g \in Gpus, slot[g].state = "done"
        PROVE  slot'[g].state # "running"
    <2>0. TypeOK /\ Control /\ slot \in [Gpus -> Slots]
      BY <1>2 DEF IInv, TypeOK
    <2>1. CASE \E h \in Gpus : FinishScan(h)
      <3>1. PICK h \in Gpus : FinishScan(h)
        BY <2>1
      <3>2. /\ slot' = [slot EXCEPT ![h] = slot'[h]] /\ slot'[h].state = "done"
        BY <2>0, <3>1, FinishForm
      <3>3. CASE g = h
        BY <3>2, <3>3
      <3>4. CASE g # h
        BY <1>2, <2>0, <3>2, <3>4
      <3> QED  BY <3>3, <3>4
    <2>2. CASE Drain \/ Upload
      BY <2>2 DEF Drain, Upload, Drained, Idle
    <2>3. CASE BeginRound \/ UNCHANGED gpus
      BY <1>2, <2>3 DEF BeginRound, gpus
    <2>4. CASE TakeError
      BY <1>2, <2>0, <2>4 DEF TakeError, Idle
    <2>5. CASE Consume
      <3>1. ~Relaunches(on)
        BY <1>2 DEF Relaunches
      <3>2. slot' = [slot EXCEPT ![on] = Idle] /\ on \in Gpus
        BY <2>0, <2>5, <3>1, ConsumeForm
      <3> QED  BY <1>2, <2>0, <3>2 DEF Idle
    <2> QED  BY <1>2, <2>1, <2>2, <2>3, <2>4, <2>5, GpuSteps
  <1>3. IInv /\ [Next]_vars
          => [stop => /\ batch' # None => batch # None
                      /\ \A g \in Gpus : slot[g].state = "done"
                                            => slot'[g].state # "running"]_vars
    BY <1>1, <1>2
  <1> QED  BY <1>3, InvHolds, PTL DEF Spec, NothingStartsAfterStop
================================================================================
