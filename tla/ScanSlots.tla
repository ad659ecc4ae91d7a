------------------------------- MODULE ScanSlots -------------------------------
(***************************************************************************)
(* What the scheduler may rely on when it launches GPU scans, without      *)
(* threads: each GPU has one slot and one engine.  A scan is launched in   *)
(* an idle slot on the engine's job; nobody configures the engine before   *)
(* it is done; a scan that is done carries what its ticket says, or an     *)
(* error, and leaves the slot once, delivered or abandoned.                *)
(***************************************************************************)
EXTENDS Naturals

CONSTANTS NumGpus, Batches, Starts, None

Gpus == 1 .. NumGpus

Ticket == [job: Nat, start: Starts, size: Batches, learned: Batches,
           shaped: BOOLEAN]

VARIABLES
    slot,       \* idle, running or done, with its ticket, scan and failure
    engine,     \* the job and the batch size of each engine
    held        \* the result the scheduler has taken and not dealt with yet

vars == <<slot, engine, held>>

Idle == [state |-> "idle", ticket |-> None, scan |-> None, failed |-> FALSE]

Running(t) == [state |-> "running", ticket |-> t, scan |-> None, failed |-> FALSE]

(* The result of a scan: what its ticket says was hashed, or an error.     *)
Done(t, failed) ==
    [state |-> "done", ticket |-> t,
     scan |-> IF failed THEN None
              ELSE [job |-> t.job, start |-> t.start, size |-> t.size],
     failed |-> failed]

Init ==
    /\ slot = [g \in Gpus |-> Idle]
    /\ engine \in [Gpus -> [job: {0}, size: Batches]]
    /\ held = None

(* Only engine g changes, to another job or batch size.                    *)
Reconfigured(g) ==
    /\ engine' = [engine EXCEPT ![g] = engine'[g]]
    /\ engine'[g] \in [job: Nat, size: Batches]

Configure(g) ==
    /\ slot[g] = Idle
    /\ Reconfigured(g)
    /\ UNCHANGED slot
    /\ held' \in {held, None}

Launch(g) ==
    /\ slot[g] = Idle
    /\ slot'[g].ticket \in Ticket
    /\ slot' = [slot EXCEPT ![g] = Running(slot'[g].ticket)]
    /\ Reconfigured(g)
    /\ slot'[g].ticket.job = engine[g].job
    /\ engine'[g].job = engine[g].job
    /\ engine'[g].size = slot'[g].ticket.size
    /\ UNCHANGED held

Finish(g) ==
    /\ slot[g].state = "running"
    /\ \E failed \in BOOLEAN :
          slot' = [slot EXCEPT ![g] = Done(slot[g].ticket, failed)]
    /\ UNCHANGED <<engine, held>>

Deliver(g) ==
    /\ slot[g].state = "done"
    /\ slot' = [slot EXCEPT ![g] = Idle]
    /\ held' = [ticket |-> slot[g].ticket, result |-> slot[g].scan,
                error |-> slot[g].failed]
    /\ UNCHANGED engine

Abandon(g) ==
    /\ slot[g].state = "done"
    /\ slot' = [slot EXCEPT ![g] = Idle]
    /\ UNCHANGED <<engine, held>>

Next == \E g \in Gpus : \/ Configure(g) \/ Launch(g) \/ Finish(g)
                        \/ Deliver(g) \/ Abandon(g)

Spec == Init /\ [][Next]_vars
=============================================================================
