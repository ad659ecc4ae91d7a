----------------------------- MODULE StratumSession -----------------------------
(***************************************************************************)
(* The Stratum sessions of the client (src/stratum/stratum.cpp: run,       *)
(* run_session, pump_socket_messages, handle_message, submit_share) and    *)
(* the rotation telemetry that its counters feed (rotation_telemetry.h).   *)
(*                                                                         *)
(* A session subscribes, authorizes, and mines once it is authorized, has  *)
(* a job and a target.  The pool sends its messages in any order, but      *)
(* answers the two requests in theirs; each message is handled where the   *)
(* thread reads the socket, in the middle of a round too.  A session ends  *)
(* when the pool closes it, a send fails, a handler throws, the fee clock  *)
(* wants the other pool, or the miner stops; all but the shares in flight, *)
(* the extranonce and the telemetry starts anew with the next one.         *)
(*                                                                         *)
(* One round stands for any of the mining functions (HybridRound models    *)
(* them): it hashes the job it began with and may find a share.            *)
(***************************************************************************)
EXTENDS Integers, FiniteSets

CONSTANTS
    Jobs,           \* contents of a mining.notify
    Rotations,      \* schedule fingerprints
    RotationOf,     \* the fingerprint of a job's header
    Targets,        \* share targets
    IdCycle,        \* shares have ids 1000 + n % IdCycle, 1000000 in the code
    MaxSubmitted,   \* bound on shares
    MaxSessions,    \* bound on sessions
    MaxHashes,      \* bound on the hashes of all sessions
    None

(* What a round captures: the job and extranonce of its header, and that   *)
(* no other job came since.                                                *)
Work == [job: Jobs, extranonce1: 1 .. MaxSessions, fresh: BOOLEAN]

ASSUME StratumSessionAssumption ==
    /\ RotationOf \in [Jobs -> Rotations]
    /\ IdCycle \in Nat \ {0}
    /\ MaxSubmitted \in Nat /\ MaxSessions \in Nat /\ MaxHashes \in Nat
    /\ None \notin Jobs \cup Rotations \cup Targets \cup Work

VARIABLES
    stop,           \* stop_requested
    at,             \* where Client::run is
    \* What run_session resets.
    authorized, job, targetReady, pendingTarget,
    \* What it does not.
    extranonce1,    \* the session whose pool assigned it, 0 for empty
    target,         \* target_le_
    submitted,      \* shares_submitted_
    pending,        \* g_pending_shares: the share filed under an id
    answers,        \* shares_accepted_ and shares_rejected_ in one
    work,           \* the round: what it captured
    \* RotationTelemetryState.
    activeRotation, \* active_rotation_fingerprint_, of client and telemetry
    activeHashes,   \* active_hashes_
    aggregates,     \* hashes of a rotation in aggregates_
    \* The pool's side of the session, and history.
    session,        \* number of the session
    answered,       \* requests the pool has answered
    assigned,       \* it has accepted the subscription
    told,           \* the last target it told in this session
    meant,          \* the target of the last job it told
    owed,           \* shares it has received and not answered
    lost,           \* shares it did not answer before the session ended
    hashed,         \* hashes of each rotation that were worth counting
    badWork         \* a share was sent with the extranonce of another session

client    == <<authorized, job, targetReady, pendingTarget>>
kept      == <<extranonce1, target>>
shares    == <<submitted, pending, answers>>
telemetry == <<activeRotation, activeHashes, aggregates>>
pool      == <<session, answered, assigned, told, meant>>
history   == <<lost, hashed, badWork>>
vars      == <<stop, at, client, kept, shares, work, telemetry, pool, owed, history>>

Ids == 0 .. IdCycle - 1

(* The thread reads the socket here.                                       *)
Pumps == {"pump", "hash", "candidate"}

TypeOK ==
    /\ stop \in BOOLEAN
    /\ at \in Pumps \cup {"start", "connecting", "head", "submit", "waiting",
                          "stopped"}
    /\ authorized \in BOOLEAN
    /\ job \in Jobs \cup {None}
    /\ targetReady \in BOOLEAN
    /\ pendingTarget \in Targets \cup {None}
    /\ extranonce1 \in 0 .. MaxSessions
    /\ target \in Targets \cup {None}
    /\ submitted \in 0 .. MaxSubmitted /\ answers \in 0 .. MaxSubmitted
    /\ pending \in [Ids -> 0 .. MaxSubmitted]
    /\ work \in Work \cup {None}
    /\ activeRotation \in Rotations \cup {None}
    /\ activeHashes \in 0 .. MaxHashes
    /\ aggregates \in [Rotations -> 0 .. MaxHashes]
    /\ session \in 0 .. MaxSessions /\ answered \in 0 .. 2
    /\ assigned \in BOOLEAN
    /\ told \in Targets \cup {None} /\ meant \in Targets \cup {None}
    /\ owed \subseteq [number: 1 .. MaxSubmitted, id: Ids]
    /\ lost \in 0 .. MaxSubmitted
    /\ hashed \in [Rotations -> 0 .. MaxHashes]
    /\ badWork \in BOOLEAN
--------------------------------------------------------------------------------
(* Client::run and the ends of a session                                   *)

(* Mutant: the pending target of the last session is not forgotten.        *)
MutReset ==
    /\ authorized' = FALSE /\ job' = None
    /\ targetReady' = FALSE /\ UNCHANGED pendingTarget

Reset ==
    /\ authorized' = FALSE /\ job' = None
    /\ targetReady' = FALSE /\ pendingTarget' = None

(* run_session up to connect_tcp; before the first session and after the   *)
(* wait run looks at the stop flag.                                        *)
StartSession ==
    /\ at = "start" /\ ~stop
    /\ session < MaxSessions
    /\ Reset
    /\ at' = "connecting"
    /\ UNCHANGED <<stop, kept, shares, work, telemetry, pool, owed, history>>

(* The requests are sent; or there is no connection, or they are not.      *)
Connect ==
    /\ at = "connecting"
    /\ \/ at' = "waiting" /\ UNCHANGED pool
       \/ /\ at' = "head"
          /\ session' = session + 1
          /\ answered' = 0 /\ assigned' = FALSE
          /\ told' = None /\ meant' = None
    /\ UNCHANGED <<stop, client, kept, shares, work, telemetry, owed, history>>

(* The pool forgets the session and the shares it has not answered.        *)
EndSession(next) ==
    /\ at' = next
    /\ work' = None
    /\ owed' = {}
    /\ lost' = lost + Cardinality(owed)
    /\ UNCHANGED <<stop, client, kept, shares, telemetry, pool, hashed, badWork>>

LoopEnds == stop

(* The head of the session loop: the stop flag, then the fee clock, which  *)
(* lets run start the next session without a wait.                         *)
Head ==
    /\ at = "head"
    /\ IF LoopEnds
       THEN EndSession("stopped")
       ELSE \/ EndSession("start")
            \/ /\ at' = "pump"
               /\ UNCHANGED <<stop, client, kept, shares, work, telemetry,
                              pool, owed, history>>

(* The pool closes the connection (recv returns 0), a send fails (in       *)
(* submit_share), or handle_message throws: run waits and reconnects.      *)
Lose ==
    /\ at \in Pumps \cup {"submit"}
    /\ EndSession("waiting")

(* Five seconds, in steps that look at the stop flag.                      *)
Reconnect ==
    /\ at = "waiting"
    /\ at' = IF stop THEN "stopped" ELSE "start"
    /\ UNCHANGED <<stop, client, kept, shares, work, telemetry, pool, owed,
                   history>>

RunEnds ==
    /\ at = "start" /\ stop
    /\ at' = "stopped"
    /\ UNCHANGED <<stop, client, kept, shares, work, telemetry, pool, owed,
                   history>>
--------------------------------------------------------------------------------
(* handle_message                                                          *)

(* Answers to mining.subscribe and mining.authorize, in this order.  A     *)
(* subscription that is refused, or accepted in another shape, leaves the  *)
(* extranonce of the last session in place.  (subscribed_ is never read.)  *)
AnswerSubscribe(ok) ==
    /\ answered = 0
    /\ answered' = 1
    /\ assigned' = ok
    /\ extranonce1' = IF ok THEN session ELSE extranonce1
    /\ UNCHANGED <<authorized, job, targetReady, pendingTarget, target, shares,
                   work, telemetry, session, told, meant, owed, history>>

AnswerAuthorize(ok) ==
    /\ answered = 1
    /\ answered' = 2
    /\ authorized' = ok
    /\ UNCHANGED <<job, targetReady, pendingTarget, kept, shares,
                   work, telemetry, session, assigned, told, meant, owed,
                   history>>

(* Mutant: ids are counted from the answers.                               *)
MutId(n) == answers % IdCycle

(* The id, less 1000, of the share that makes the count n + 1.             *)
Id(n) == n % IdCycle

(* An answer, of either kind, to a share: it is counted, and resolves what *)
(* is filed under its id.                                                  *)
AnswerShare(share) ==
    /\ owed' = owed \ {share}
    /\ answers' = answers + 1
    /\ pending' = [pending EXCEPT ![share.id] = 0]
    /\ UNCHANGED <<client, kept, submitted, work, telemetry, pool, history>>

(* mining.set_difficulty and mining.set_target queue the target; that of   *)
(* the active job remains.                                                 *)
SetTarget(t) ==
    /\ pendingTarget' = t
    /\ told' = t
    /\ UNCHANGED <<authorized, job, targetReady, kept, shares, work,
                   telemetry, session, answered, assigned, meant, owed, history>>

ActivatePendingTarget ==
    /\ target' = IF pendingTarget = None THEN target ELSE pendingTarget
    /\ targetReady' = (targetReady \/ pendingTarget # None)
    /\ pendingTarget' = None

(* RotationFingerprint::operator= and RotationTelemetryState::activate: a  *)
(* new rotation closes the account of the last one.                        *)
Activate(rotation) ==
    /\ activeRotation' = rotation
    /\ activeHashes' = 0
    /\ aggregates' = IF activeRotation = None THEN aggregates
                     ELSE [aggregates EXCEPT ![activeRotation] =
                                                        @ + activeHashes]

(* Mutant: the rotation is taken up at the first job only.                 *)
MutUpdateRotationEpoch(j) ==
    IF extranonce1 = 0 \/ activeRotation # None
    THEN UNCHANGED telemetry
    ELSE Activate(RotationOf[j])

(* Without a header to build (no extranonce yet) the epoch stays.          *)
UpdateRotationEpoch(j) ==
    IF extranonce1 = 0 \/ RotationOf[j] = activeRotation
    THEN UNCHANGED telemetry
    ELSE Activate(RotationOf[j])

Outdated == IF work = None THEN None ELSE [work EXCEPT !.fresh = FALSE]

Notify(j) ==
    /\ job' = j
    /\ ActivatePendingTarget
    /\ UpdateRotationEpoch(j)
    /\ work' = Outdated
    /\ meant' = told
    /\ UNCHANGED <<authorized, extranonce1, shares, session,
                   answered, assigned, told, owed, history>>

(* A job that does not decode leaves the generation and the target alone.  *)
BadNotify ==
    /\ job' = None
    /\ UNCHANGED <<authorized, targetReady, pendingTarget, kept,
                   shares, work, telemetry, pool, owed, history>>

HandleMessage ==
    \/ \E ok \in BOOLEAN : AnswerSubscribe(ok) \/ AnswerAuthorize(ok)
    \/ \E share \in owed : AnswerShare(share)
    \/ \E t \in Targets : SetTarget(t)
    \/ \E j \in Jobs : Notify(j)
    \/ BadNotify

Pump ==
    /\ at \in Pumps
    /\ HandleMessage
    /\ UNCHANGED <<stop, at>>
--------------------------------------------------------------------------------
(* The round                                                               *)

Ready == authorized /\ job # None /\ targetReady

(* Without an extranonce the round has no header and does nothing.         *)
BeginRound ==
    /\ at = "pump"
    /\ IF Ready /\ extranonce1 # 0 /\ \A r \in Rotations : hashed[r] < MaxHashes
       THEN /\ at' = "hash"
            /\ work' = [job |-> job, extranonce1 |-> extranonce1, fresh |-> TRUE]
       ELSE /\ at' = "head"
            /\ UNCHANGED work
    /\ UNCHANGED <<stop, client, kept, shares, telemetry, pool, owed, history>>

(* Bounds: on shares, and a pool answers a share before its id is reused.  *)
MayShare ==
    /\ submitted < MaxSubmitted
    /\ \A share \in owed : share.number > submitted + 1 - IdCycle

(* The hashes of a job that was replaced are not the rotation's; the       *)
(* telemetry counts nothing before the first rotation.                     *)
HashRound ==
    /\ at = "hash"
    /\ at' \in IF work.fresh /\ MayShare THEN {"candidate", "head"}
                                         ELSE {"head"}
    /\ work' = IF at' = "head" THEN None ELSE work
    /\ IF work.fresh /\ activeRotation # None
       THEN /\ activeHashes' = activeHashes + 1
            /\ hashed' = [hashed EXCEPT ![RotationOf[work.job]] = @ + 1]
       ELSE UNCHANGED <<activeHashes, hashed>>
    /\ UNCHANGED <<stop, client, kept, shares, activeRotation, aggregates,
                   pool, owed, lost, badWork>>

(* A candidate of a job that was replaced is suppressed.                   *)
CheckCandidate ==
    /\ at = "candidate"
    /\ at' = IF work.fresh THEN "submit" ELSE "head"
    /\ work' = IF work.fresh THEN work ELSE None
    /\ UNCHANGED <<stop, client, kept, shares, telemetry, pool, owed, history>>

(* submit_share: the pool has the share, then it is filed and counted.     *)
SubmitShare ==
    /\ at = "submit"
    /\ submitted' = submitted + 1
    /\ pending' = [pending EXCEPT ![Id(submitted)] = submitted']
    /\ owed' = owed \cup {[number |-> submitted', id |-> Id(submitted)]}
    /\ badWork' = (badWork \/ (assigned /\ work.extranonce1 # session))
    /\ work' = None
    /\ at' = "head"
    /\ UNCHANGED <<stop, client, kept, answers, telemetry, pool, lost, hashed>>

Stop ==
    /\ ~stop
    /\ stop' = TRUE
    /\ UNCHANGED <<at, client, kept, shares, work, telemetry, pool, owed, history>>

(* The process is over.                                                    *)
Stopped == at = "stopped" /\ UNCHANGED vars
--------------------------------------------------------------------------------
Init ==
    /\ stop = FALSE /\ at = "start"
    /\ authorized = FALSE /\ job = None
    /\ targetReady = FALSE /\ pendingTarget = None
    /\ extranonce1 = 0 /\ target = None
    /\ submitted = 0 /\ answers = 0 /\ pending = [i \in Ids |-> 0]
    /\ work = None
    /\ activeRotation = None /\ activeHashes = 0
    /\ aggregates = [r \in Rotations |-> 0]
    /\ session = 0 /\ answered = 0 /\ assigned = FALSE
    /\ told = None /\ meant = None
    /\ owed = {} /\ lost = 0
    /\ hashed = [r \in Rotations |-> 0] /\ badWork = FALSE

ThreadStep == StartSession \/ Connect \/ Head \/ Reconnect \/ RunEnds
              \/ BeginRound \/ HashRound \/ CheckCandidate \/ SubmitShare

Next == ThreadStep \/ Pump \/ Lose \/ Stop \/ Stopped

Spec == Init /\ [][Next]_vars
--------------------------------------------------------------------------------
(* Properties                                                              *)

(* Every share sent is answered once, open, or lost with its session, and  *)
(* the id of an open one still leads to it: ids of earlier sessions, which *)
(* nobody answers any more, do not get in the way.                         *)
SharesAccounted ==
    /\ submitted = answers + Cardinality(owed) + lost
    /\ \A share \in owed : pending[share.id] = share.number

(* A session that is set up mines with its own pool's values: the          *)
(* extranonce its pool has assigned, and the target it told last before    *)
(* the job it told last, whatever came in between or is left from before.  *)
OwnSession ==
    /\ ~badWork
    /\ at \notin {"start", "connecting", "waiting", "stopped"} =>
            /\ targetReady <=> meant # None
            /\ targetReady => target = meant

(* The telemetry's account of a rotation is the hashes computed for it,    *)
(* over reconnects, stale rounds and jobs that did not decode.             *)
RotationExact ==
    \A r \in Rotations :
        aggregates[r] + (IF activeRotation = r THEN activeHashes ELSE 0)
            = hashed[r]

================================================================================
