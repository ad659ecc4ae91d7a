-------------------------- MODULE StratumSessionProofs --------------------------
(***************************************************************************)
(* Proofs about StratumSession, for every set of jobs, rotations and       *)
(* targets, every cycle of share ids and all bounds.                       *)
(***************************************************************************)
EXTENDS StratumSession, FiniteSetTheorems, TLAPS

(* A round is going on; a session is connected.                            *)
Rounds == {"hash", "candidate", "submit"}

Connected == Rounds \cup {"pump", "head"}

Share == [number: 1 .. MaxSubmitted, id: Ids]

(* The session the thread is in: its number, what has been answered, and   *)
(* that a round runs only between the answers and the end of the session.  *)
SessionStaged ==
    /\ at = "connecting" => /\ session < MaxSessions
                            /\ ~authorized /\ job = None
                            /\ ~targetReady /\ pendingTarget = None
    /\ at \in Connected => session > 0
    /\ authorized => answered = 2
    /\ at \in Rounds <=> work # None
    /\ work # None => answered = 2

(* The target: what the pool told is queued or was taken up with the job.  *)
TargetQueued ==
    at \in Connected =>
        /\ pendingTarget = None => told = meant
        /\ pendingTarget # None => told = pendingTarget
        /\ targetReady <=> meant # None
        /\ targetReady => target = meant

(* The extranonce the pool assigned is the one in use.                     *)
ExtranonceOwn ==
    /\ at \in Connected /\ assigned => extranonce1 = session
    /\ work # None /\ assigned => work.extranonce1 = session
    /\ ~badWork

(* An open share has the id of its number, which is at most a cycle old.   *)
ShareFiled(share) ==
    /\ share.id = Id(share.number - 1)
    /\ share.number <= submitted /\ share.number > submitted - IdCycle
    /\ pending[share.id] = share.number

SharesFiled ==
    /\ IsFiniteSet(owed)
    /\ submitted = answers + Cardinality(owed) + lost
    /\ \A share \in owed : ShareFiled(share)
    /\ at \in {"candidate", "submit"} => MayShare

(* The telemetry's rotation is that of the job, and of the round that is   *)
(* not stale.                                                              *)
RotationOwn ==
    /\ activeRotation # None => extranonce1 # 0
    /\ activeRotation # None /\ job # None => activeRotation = RotationOf[job]
    /\ activeRotation # None /\ work # None /\ work.fresh =>
            activeRotation = RotationOf[work.job]
    /\ activeRotation = None => activeHashes = 0
    /\ at = "hash" => \A r \in Rotations : hashed[r] < MaxHashes

(* The inductive invariant.                                                *)
IInv ==
    /\ TypeOK
    /\ SessionStaged
    /\ TargetQueued
    /\ ExtranonceOwn
    /\ SharesFiled
    /\ RotationOwn
    /\ RotationExact
--------------------------------------------------------------------------------
(* What a step may do, by the parts of the state it changes                *)

(* The thread goes on, or stops between two sessions; nothing else moves.  *)
Moves ==
    /\ stop' \in BOOLEAN
    /\ \/ at' = at
       \/ at = "head" /\ at' = "pump"
       \/ at \in {"start", "waiting"} /\ at' \in {"start", "stopped"}
    /\ UNCHANGED <<client, kept, shares, work, telemetry, pool, owed, history>>

(* A session ends.                                                         *)
Ends ==
    /\ at \in Connected
    /\ \E next \in {"start", "waiting", "stopped"} : EndSession(next)

(* The pool's messages, as they change the session.                        *)
Handles(message) == at \in Pumps /\ message /\ UNCHANGED <<stop, at>>

LEMMA StepCases ==
    ASSUME TypeOK, [Next]_vars
    PROVE  \/ StartSession \/ Connect \/ Moves \/ Ends
           \/ BeginRound \/ HashRound \/ CheckCandidate \/ SubmitShare
           \/ Handles(\E ok \in BOOLEAN : AnswerSubscribe(ok))
           \/ Handles(\E ok \in BOOLEAN : AnswerAuthorize(ok))
           \/ Handles(\E share \in owed : AnswerShare(share))
           \/ Handles(\E t \in Targets : SetTarget(t))
           \/ Handles(\E j \in Jobs : Notify(j))
           \/ Handles(BadNotify)
  <1>1. CASE Head
    <2>1. CASE EndSession("stopped") \/ EndSession("start")
      BY <1>1, <2>1 DEF Head, Ends, Connected
    <2>2. CASE /\ at' = "pump"
               /\ UNCHANGED <<stop, client, kept, shares, work, telemetry,
                              pool, owed, history>>
      BY <1>1, <2>2 DEF Head, Moves, TypeOK
    <2> QED  BY <1>1, <2>1, <2>2 DEF Head
  <1>2. CASE Reconnect \/ RunEnds
    BY <1>2 DEF Reconnect, RunEnds, Moves, TypeOK
  <1>3. CASE Stop
    BY <1>3 DEF Stop, Moves
  <1>4. CASE Stopped \/ UNCHANGED vars
    BY <1>4 DEF Stopped, vars, Moves, TypeOK
  <1>5. CASE Lose
    BY <1>5 DEF Lose, Ends, Connected, Rounds, Pumps
  <1>6. CASE Pump
    BY <1>6 DEF Pump, HandleMessage, Handles
  <1> QED  BY <1>1, <1>2, <1>3, <1>4, <1>5, <1>6 DEF Next, ThreadStep
--------------------------------------------------------------------------------
(* Preservation, one part of the invariant at a time                       *)

(* A round holds a work: it is none of the values that stand for "none".   *)
LEMMA WorkHeld ==
    ASSUME TypeOK, SessionStaged, at \in Rounds
    PROVE  work \in Work /\ work # None
  BY DEF TypeOK, SessionStaged

LEMMA NoneIsNoWork ==
    ASSUME NEW w \in Work
    PROVE  w # None /\ [w EXCEPT !.fresh = FALSE] \in Work
  BY StratumSessionAssumption DEF Work

(* What a round captures when it begins.                                   *)
LEMMA RoundBegins ==
    ASSUME TypeOK, BeginRound, at' = "hash"
    PROVE  /\ work' = [job |-> job, extranonce1 |-> extranonce1, fresh |-> TRUE]
           /\ work' \in Work
           /\ authorized /\ job # None /\ extranonce1 # 0
           /\ \A r \in Rotations : hashed[r] < MaxHashes
  <1>1. /\ work' = [job |-> job, extranonce1 |-> extranonce1, fresh |-> TRUE]
        /\ authorized /\ job # None /\ extranonce1 # 0
        /\ \A r \in Rotations : hashed[r] < MaxHashes
    BY DEF BeginRound, Ready
  <1>2. job \in Jobs /\ extranonce1 \in 1 .. MaxSessions
    BY <1>1, StratumSessionAssumption DEF TypeOK
  <1> QED  BY <1>1, <1>2 DEF Work

(* A message of the pool does not end or begin a round.                    *)
LEMMA NotifyWork ==
    ASSUME TypeOK, NEW j, Notify(j)
    PROVE  /\ work' \in Work \cup {None}
           /\ work = None <=> work' = None
           /\ work # None => work' = [work EXCEPT !.fresh = FALSE]
  BY NoneIsNoWork DEF Notify, Outdated, TypeOK

LEMMA NextStaged ==
    ASSUME TypeOK, SessionStaged, [Next]_vars
    PROVE  SessionStaged'
  <1> USE DEF SessionStaged, Connected, Rounds
  <1>1. CASE StartSession
    BY <1>1 DEF StartSession, Reset, pool
  <1>2. CASE Connect
    BY <1>2 DEF Connect, client, pool, TypeOK
  <1>3. CASE Moves
    BY <1>3 DEF Moves, client, pool, TypeOK
  <1>4. CASE Ends
    BY <1>4 DEF Ends, EndSession, client, pool
  <1>5. CASE BeginRound
    <2>1. CASE at' = "hash"
      BY <1>5, <2>1, RoundBegins, NoneIsNoWork DEF BeginRound, client, pool
    <2>2. CASE at' # "hash"
      BY <1>5, <2>2 DEF BeginRound, client, pool
    <2> QED  BY <2>1, <2>2
  <1>6. CASE HashRound \/ CheckCandidate
    BY <1>6 DEF HashRound, CheckCandidate, client, pool, telemetry
  <1>7. CASE SubmitShare
    BY <1>7 DEF SubmitShare, client, pool
  <1>8. CASE Handles(\E ok \in BOOLEAN : AnswerSubscribe(ok))
    BY <1>8 DEF Handles, AnswerSubscribe, Pumps
  <1>9. CASE Handles(\E ok \in BOOLEAN : AnswerAuthorize(ok))
    BY <1>9 DEF Handles, AnswerAuthorize, Pumps
  <1>10. CASE Handles(\E share \in owed : AnswerShare(share))
    BY <1>10 DEF Handles, AnswerShare, client, pool, Pumps
  <1>11. CASE Handles(\E t \in Targets : SetTarget(t))
    BY <1>11 DEF Handles, SetTarget, Pumps
  <1>12. CASE Handles(\E j \in Jobs : Notify(j))
    BY <1>12, NotifyWork DEF Handles, Notify, Pumps
  <1>13. CASE Handles(BadNotify)
    BY <1>13 DEF Handles, BadNotify, pool, Pumps
  <1> QED  BY <1>1, <1>2, <1>3, <1>4, <1>5, <1>6, <1>7, <1>8, <1>9, <1>10,
              <1>11, <1>12, <1>13, StepCases

LEMMA NextTarget ==
    ASSUME TypeOK, SessionStaged, TargetQueued, [Next]_vars
    PROVE  TargetQueued'
  <1> USE DEF TargetQueued, Connected, Rounds
  <1>1. CASE StartSession
    BY <1>1 DEF StartSession
  <1>2. CASE Connect
    BY <1>2 DEF Connect, client, pool, kept, SessionStaged
  <1>3. CASE Moves
    BY <1>3 DEF Moves, client, pool, kept
  <1>4. CASE Ends
    BY <1>4 DEF Ends, EndSession
  <1>5. CASE BeginRound
    BY <1>5 DEF BeginRound, client, pool, kept
  <1>6. CASE HashRound \/ CheckCandidate
    BY <1>6 DEF HashRound, CheckCandidate, client, pool, kept
  <1>7. CASE SubmitShare
    BY <1>7 DEF SubmitShare, client, pool, kept
  <1>8. CASE Handles(\E ok \in BOOLEAN : AnswerSubscribe(ok))
    BY <1>8 DEF Handles, AnswerSubscribe, Pumps
  <1>9. CASE Handles(\E ok \in BOOLEAN : AnswerAuthorize(ok))
    BY <1>9 DEF Handles, AnswerAuthorize, kept, Pumps
  <1>10. CASE Handles(\E share \in owed : AnswerShare(share))
    BY <1>10 DEF Handles, AnswerShare, client, pool, kept, Pumps
  <1>11. CASE Handles(\E t \in Targets : SetTarget(t))
    BY <1>11, StratumSessionAssumption DEF Handles, SetTarget, kept, Pumps
  <1>12. CASE Handles(\E j \in Jobs : Notify(j))
    BY <1>12 DEF Handles, Notify, ActivatePendingTarget, Pumps
  <1>13. CASE Handles(BadNotify)
    BY <1>13 DEF Handles, BadNotify, pool, kept, Pumps
  <1> QED  BY <1>1, <1>2, <1>3, <1>4, <1>5, <1>6, <1>7, <1>8, <1>9, <1>10,
              <1>11, <1>12, <1>13, StepCases

LEMMA NextExtranonce ==
    ASSUME TypeOK, SessionStaged, ExtranonceOwn, [Next]_vars
    PROVE  ExtranonceOwn'
  <1> USE DEF ExtranonceOwn, Connected, Rounds
  <1>1. CASE StartSession
    BY <1>1 DEF StartSession, kept, pool, history
  <1>2. CASE Connect
    BY <1>2 DEF Connect, kept, pool, history, SessionStaged
  <1>3. CASE Moves
    BY <1>3 DEF Moves, pool, kept, history
  <1>4. CASE Ends
    BY <1>4 DEF Ends, EndSession, pool, kept
  <1>5. CASE BeginRound
    BY <1>5 DEF BeginRound, pool, kept, history
  <1>6. CASE HashRound \/ CheckCandidate
    BY <1>6 DEF HashRound, CheckCandidate, pool, kept, history
  <1>7. CASE SubmitShare
    BY <1>7, WorkHeld DEF SubmitShare, pool, kept
  <1>8. CASE Handles(\E ok \in BOOLEAN : AnswerSubscribe(ok))
    BY <1>8 DEF Handles, AnswerSubscribe, Pumps, history, SessionStaged
  <1>9. CASE Handles(\E ok \in BOOLEAN : AnswerAuthorize(ok))
    BY <1>9 DEF Handles, AnswerAuthorize, kept, Pumps, history
  <1>10. CASE Handles(\E share \in owed : AnswerShare(share))
    BY <1>10 DEF Handles, AnswerShare, pool, kept, Pumps, history
  <1>11. CASE Handles(\E t \in Targets : SetTarget(t))
    BY <1>11 DEF Handles, SetTarget, kept, Pumps, history
  <1>12. CASE Handles(\E j \in Jobs : Notify(j))
    BY <1>12, NoneIsNoWork DEF Handles, Notify, Outdated, Pumps, history, TypeOK, Work
  <1>13. CASE Handles(BadNotify)
    BY <1>13 DEF Handles, BadNotify, pool, kept, Pumps, history
  <1> QED  BY <1>1, <1>2, <1>3, <1>4, <1>5, <1>6, <1>7, <1>8, <1>9, <1>10,
              <1>11, <1>12, <1>13, StepCases

(* A job's rotation is a rotation, not the value for "none".               *)
LEMMA RotationOfJob ==
    ASSUME NEW j \in Jobs
    PROVE  RotationOf[j] \in Rotations /\ RotationOf[j] # None /\ j # None
  BY StratumSessionAssumption

LEMMA NextRotation ==
    ASSUME TypeOK, SessionStaged, RotationOwn, [Next]_vars
    PROVE  RotationOwn'
  <1> USE DEF RotationOwn
  <1>1. CASE StartSession
    BY <1>1 DEF StartSession, Reset, kept, telemetry, history
  <1>2. CASE Connect
    BY <1>2 DEF Connect, client, kept, telemetry, history
  <1>3. CASE Moves
    BY <1>3 DEF Moves, client, kept, telemetry, history
  <1>4. CASE Ends
    BY <1>4 DEF Ends, EndSession, client, kept, telemetry
  <1>5. CASE BeginRound
    <2>1. CASE at' = "hash"
      BY <1>5, <2>1, RoundBegins DEF BeginRound, client, kept, telemetry, history
    <2>2. CASE at' # "hash"
      BY <1>5, <2>2 DEF BeginRound, client, kept, telemetry, history
    <2> QED  BY <2>1, <2>2
  <1>6. CASE HashRound
    BY <1>6 DEF HashRound, client, kept
  <1>7. CASE CheckCandidate
    BY <1>7 DEF CheckCandidate, client, kept, telemetry, history
  <1>8. CASE SubmitShare
    BY <1>8 DEF SubmitShare, client, kept, telemetry, history
  <1>9. CASE Handles(\E ok \in BOOLEAN : AnswerSubscribe(ok))
    BY <1>9 DEF Handles, AnswerSubscribe, telemetry, history, SessionStaged, Pumps,
                Connected, Rounds, TypeOK
  <1>10. CASE Handles(\E ok \in BOOLEAN : AnswerAuthorize(ok))
    BY <1>10 DEF Handles, AnswerAuthorize, kept, telemetry, history
  <1>11. CASE Handles(\E share \in owed : AnswerShare(share))
    BY <1>11 DEF Handles, AnswerShare, client, kept, telemetry, history
  <1>12. CASE Handles(\E t \in Targets : SetTarget(t))
    BY <1>12 DEF Handles, SetTarget, kept, telemetry, history
  <1>13. CASE Handles(\E j \in Jobs : Notify(j))
    <2>1. PICK j \in Jobs : Notify(j)
      BY <1>13 DEF Handles
    <2>2. extranonce1' = extranonce1 /\ job' = j /\ at' = at /\ hashed' = hashed
      BY <1>13, <2>1 DEF Handles, Notify, history
    <2>3. work' # None => ~work'.fresh
      BY <2>1, NotifyWork, NoneIsNoWork DEF TypeOK, Work
    <2>4. CASE extranonce1 = 0 \/ RotationOf[j] = activeRotation
      BY <2>1, <2>2, <2>3, <2>4 DEF Notify, UpdateRotationEpoch, telemetry
    <2>5. CASE ~(extranonce1 = 0 \/ RotationOf[j] = activeRotation)
      BY <2>1, <2>2, <2>3, <2>5, RotationOfJob
      DEF Notify, UpdateRotationEpoch, Activate
    <2> QED  BY <2>4, <2>5
  <1>14. CASE Handles(BadNotify)
    BY <1>14 DEF Handles, BadNotify, kept, telemetry, history
  <1> QED  BY <1>1, <1>2, <1>3, <1>4, <1>5, <1>6, <1>7, <1>8, <1>9, <1>10,
              <1>11, <1>12, <1>13, <1>14, StepCases

(* A new rotation closes the account of the last one.                      *)
LEMMA ActivateExact ==
    ASSUME TypeOK, RotationOwn, RotationExact, hashed' = hashed,
           NEW rotation \in Rotations, rotation # activeRotation,
           Activate(rotation)
    PROVE  RotationExact'
  <1> SUFFICES ASSUME NEW r \in Rotations
               PROVE  aggregates'[r] = hashed[r] /\ hashed[r] \in Int
    BY DEF Activate, RotationExact
  <1>0. aggregates[r] + (IF activeRotation = r THEN activeHashes ELSE 0) = hashed[r]
        /\ aggregates[r] \in Int /\ activeHashes \in Int /\ hashed[r] \in Int
    BY DEF RotationExact, TypeOK
  <1>1. CASE activeRotation = r
    <2>1. aggregates'[r] = aggregates[r] + activeHashes
      BY <1>1, StratumSessionAssumption DEF Activate, TypeOK
    <2> QED  BY <1>0, <1>1, <2>1
  <1>2. CASE activeRotation # r
    <2>1. aggregates'[r] = aggregates[r]
      BY <1>2 DEF Activate, TypeOK
    <2> QED  BY <1>0, <1>2, <2>1
  <1> QED  BY <1>1, <1>2

(* The round of a fresh job counts for the rotation that is active.        *)
LEMMA HashExact ==
    ASSUME TypeOK, SessionStaged, RotationOwn, RotationExact, HashRound
    PROVE  RotationExact'
  <1>1. work \in Work /\ work # None
    BY WorkHeld DEF HashRound, Rounds
  <1>2. CASE work.fresh /\ activeRotation # None
    <2> DEFINE active == RotationOf[work.job]
    <2>1. active \in Rotations /\ activeRotation = active
      BY <1>1, <1>2, RotationOfJob DEF RotationOwn, Work
    <2>2. /\ hashed' = [hashed EXCEPT ![active] = @ + 1]
          /\ activeHashes' = activeHashes + 1
          /\ UNCHANGED <<activeRotation, aggregates>>
      BY <1>2 DEF HashRound
    <2> HIDE DEF active
    <2> SUFFICES ASSUME NEW r \in Rotations
                 PROVE  aggregates[r] + (IF active = r THEN activeHashes + 1 ELSE 0)
                            = hashed'[r]
      BY <2>1, <2>2 DEF RotationExact
    <2>3. /\ aggregates[r] + (IF active = r THEN activeHashes ELSE 0) = hashed[r]
          /\ aggregates[r] \in Int /\ activeHashes \in Int /\ hashed[r] \in Int
      BY <2>1 DEF RotationExact, TypeOK
    <2>4. hashed'[r] = IF active = r THEN hashed[r] + 1 ELSE hashed[r]
      BY <2>1, <2>2 DEF TypeOK
    <2> QED  BY <2>3, <2>4
  <1>3. CASE ~(work.fresh /\ activeRotation # None)
    BY <1>3 DEF HashRound, RotationExact
  <1> QED  BY <1>2, <1>3

(* Only rounds and notifications touch the telemetry.                      *)
LEMMA TelemetryMoves ==
    ASSUME TypeOK, [Next]_vars
    PROVE  \/ HashRound
           \/ Handles(\E j \in Jobs : Notify(j))
           \/ UNCHANGED <<telemetry, hashed>>
  <1>1. StartSession \/ Connect \/ Moves \/ Ends \/ BeginRound \/ CheckCandidate
        \/ SubmitShare => UNCHANGED <<telemetry, hashed>>
    BY DEF StartSession, Connect, Moves, Ends, EndSession, BeginRound,
           CheckCandidate, SubmitShare, history
  <1>2. \/ Handles(\E ok \in BOOLEAN : AnswerSubscribe(ok))
        \/ Handles(\E ok \in BOOLEAN : AnswerAuthorize(ok))
        \/ Handles(\E share \in owed : AnswerShare(share))
        \/ Handles(\E t \in Targets : SetTarget(t))
        \/ Handles(BadNotify)
        => UNCHANGED <<telemetry, hashed>>
    BY DEF Handles, AnswerSubscribe, AnswerAuthorize, AnswerShare, SetTarget,
           BadNotify, history
  <1> QED  BY <1>1, <1>2, StepCases

LEMMA NextExact ==
    ASSUME TypeOK, SessionStaged, RotationOwn, RotationExact, [Next]_vars
    PROVE  RotationExact'
  <1>1. CASE HashRound
    BY <1>1, HashExact
  <1>2. CASE Handles(\E j \in Jobs : Notify(j))
    <2>1. PICK j \in Jobs : Notify(j)
      BY <1>2 DEF Handles
    <2>2. CASE extranonce1 = 0 \/ RotationOf[j] = activeRotation
      BY <2>1, <2>2 DEF Notify, UpdateRotationEpoch, telemetry, history, RotationExact
    <2>3. CASE ~(extranonce1 = 0 \/ RotationOf[j] = activeRotation)
      BY <2>1, <2>3, RotationOfJob, ActivateExact
      DEF Notify, UpdateRotationEpoch, history
    <2> QED  BY <2>2, <2>3
  <1>3. CASE UNCHANGED <<telemetry, hashed>>
    BY <1>3 DEF telemetry, RotationExact
  <1> QED  BY <1>1, <1>2, <1>3, TelemetryMoves

(* Share ids: counts less than a cycle apart have different ids.           *)
LEMMA IdInIds ==
    ASSUME NEW n \in Nat
    PROVE  Id(n) \in Ids
  BY StratumSessionAssumption DEF Id, Ids

LEMMA NoMultipleBetween ==
    ASSUME NEW c \in Nat \ {0}, NEW q \in Int, 0 < c * q, c * q < c
    PROVE  FALSE
  <1>1. CASE q <= 0
    <2>1. c * q <= 0  BY <1>1
    <2> QED  BY <2>1
  <1>2. CASE q >= 1
    <2>1. c * q = c + c * (q - 1)  OBVIOUS
    <2>2. c * (q - 1) >= 0  BY <1>2
    <2> QED  BY <2>1, <2>2
  <1> QED  BY <1>1, <1>2

LEMMA IdsDiffer ==
    ASSUME NEW n \in Nat, NEW m \in Nat, m < n, n - m < IdCycle
    PROVE  Id(n) # Id(m)
  <1> DEFINE c == IdCycle
  <1>0. c \in Nat \ {0}
    BY StratumSessionAssumption
  <1> SUFFICES ASSUME n % c = m % c PROVE FALSE
    BY DEF Id
  <1>1. /\ n = c * (n \div c) + (n % c) /\ n \div c \in Int
        /\ m = c * (m \div c) + (m % c) /\ m \div c \in Int
        /\ n % c \in Int /\ m % c \in Int
    BY <1>0
  <1> DEFINE q == n \div c - m \div c
  <1>2. n - m = c * q /\ q \in Int
    BY <1>0, <1>1
  <1>3. 0 < n - m /\ n - m < c
    OBVIOUS
  <1> HIDE DEF c, q
  <1>4. 0 < c * q /\ c * q < c
    BY <1>2, <1>3
  <1> QED  BY <1>0, <1>2, <1>4, NoMultipleBetween

(* The shares of a state, in the terms the proofs use.                     *)
LEMMA ShareFacts ==
    ASSUME TypeOK, SharesFiled
    PROVE  /\ submitted \in Nat /\ answers \in Nat /\ lost \in Nat
           /\ IsFiniteSet(owed) /\ Cardinality(owed) \in Nat
           /\ \A share \in owed : /\ share \in Share /\ share.id \in Ids
                                  /\ share.number \in 1 .. MaxSubmitted
           /\ pending \in [Ids -> 0 .. MaxSubmitted]
           /\ owed \subseteq Share
  <1>1. /\ submitted \in 0 .. MaxSubmitted /\ answers \in 0 .. MaxSubmitted
        /\ lost \in 0 .. MaxSubmitted /\ owed \subseteq Share
        /\ pending \in [Ids -> 0 .. MaxSubmitted]
    BY DEF TypeOK, Share
  <1>2. submitted \in Nat /\ answers \in Nat /\ lost \in Nat
    BY <1>1, StratumSessionAssumption
  <1>3. IsFiniteSet(owed)
    BY DEF SharesFiled
  <1>4. Cardinality(owed) \in Nat
    BY <1>3, FS_CardinalityType
  <1>5. \A share \in owed : /\ share \in Share /\ share.id \in Ids
                           /\ share.number \in 1 .. MaxSubmitted
    BY <1>1 DEF Share
  <1> QED  BY <1>1, <1>2, <1>3, <1>4, <1>5

(* What a step leaves alone keeps its shares.                              *)
LEMMA SharesKept ==
    ASSUME SharesFiled, UNCHANGED <<submitted, answers, pending, owed, lost>>,
           at' \in {"candidate", "submit"} => MayShare
    PROVE  SharesFiled'
  BY DEF SharesFiled, ShareFiled, MayShare

LEMMA AnswerFiled ==
    ASSUME TypeOK, SharesFiled, at' = at, NEW share \in owed, AnswerShare(share)
    PROVE  SharesFiled'
  <1>0. /\ owed' = owed \ {share} /\ answers' = answers + 1
        /\ pending' = [pending EXCEPT ![share.id] = 0]
        /\ submitted' = submitted /\ lost' = lost
    BY DEF AnswerShare, history
  <1>1. IsFiniteSet(owed') /\ Cardinality(owed') = Cardinality(owed) - 1
    BY <1>0, ShareFacts, FS_RemoveElement
  <1>2. submitted' = answers' + Cardinality(owed') + lost'
    BY <1>0, <1>1, ShareFacts DEF SharesFiled
  <1>3. ASSUME NEW other \in owed'
        PROVE  ShareFiled(other)'
    <2>1. other \in owed /\ other # share
      BY <1>0
    <2>2. other.id # share.id
      <3>1. pending[other.id] = other.number /\ pending[share.id] = share.number
        BY <2>1 DEF SharesFiled, ShareFiled
      <3>2. other.number # share.number \/ other.id # share.id
        BY <2>1, ShareFacts DEF Share
      <3> QED  BY <3>1, <3>2
    <2>3. pending'[other.id] = pending[other.id]
      BY <1>0, <2>1, <2>2, ShareFacts
    <2> QED  BY <1>0, <2>1, <2>3 DEF SharesFiled, ShareFiled
  <1>4. at' \in {"candidate", "submit"} => MayShare'
    BY <1>0 DEF SharesFiled, MayShare
  <1> QED  BY <1>1, <1>2, <1>3, <1>4 DEF SharesFiled

(* A new share has an id of its own: those of its cycle have been answered.*)
LEMMA SubmitFiled ==
    ASSUME TypeOK, SharesFiled, SubmitShare
    PROVE  SharesFiled'
  <1>a. PICK new : new = [number |-> submitted + 1, id |-> Id(submitted)]
    OBVIOUS
  <1>0. /\ owed' = owed \cup {new} /\ submitted' = submitted + 1
        /\ pending' = [pending EXCEPT ![Id(submitted)] = submitted + 1]
        /\ answers' = answers /\ lost' = lost /\ at' = "head" /\ MayShare
    BY <1>a DEF SubmitShare, SharesFiled
  <1>1. new.number = submitted + 1 /\ new.id = Id(submitted)
    BY <1>a
  <1>2. new \notin owed
    BY <1>1, ShareFacts DEF SharesFiled, ShareFiled
  <1>3. IsFiniteSet(owed') /\ Cardinality(owed') = Cardinality(owed) + 1
    BY <1>0, <1>2, ShareFacts, FS_AddElement
  <1>4. submitted' = answers' + Cardinality(owed') + lost'
    BY <1>0, <1>3, ShareFacts DEF SharesFiled
  <1>5. ASSUME NEW share \in owed
        PROVE  ShareFiled(share)'
    <2>1. /\ share.id = Id(share.number - 1) /\ share.id \in Ids
          /\ share.number <= submitted /\ share.number > submitted + 1 - IdCycle
          /\ pending[share.id] = share.number /\ share.number \in 1 .. MaxSubmitted
      BY <1>0, ShareFacts DEF SharesFiled, ShareFiled, MayShare
    <2>2. share.id # Id(submitted)
      <3>1. /\ share.number - 1 \in Nat /\ share.number - 1 < submitted
            /\ submitted - (share.number - 1) < IdCycle
        BY <2>1, ShareFacts, StratumSessionAssumption
      <3> QED  BY <2>1, <3>1, ShareFacts, IdsDiffer
    <2>3. pending'[share.id] = pending[share.id]
      BY <1>0, <2>1, <2>2, ShareFacts
    <2> QED
      BY <1>0, <2>1, <2>3, ShareFacts, StratumSessionAssumption DEF ShareFiled
  <1>6. ShareFiled(new)'
    <2>1. pending'[Id(submitted)] = submitted + 1
      BY <1>0, ShareFacts, IdInIds
    <2>2. new.number - 1 = submitted /\ submitted \in Nat
      BY <1>1, ShareFacts
    <2>3. /\ new.id = Id(new.number - 1)
          /\ new.number <= submitted' /\ new.number > submitted' - IdCycle
          /\ pending'[new.id] = new.number
      BY <1>0, <1>1, <2>1, <2>2, StratumSessionAssumption
    <2> QED  BY <2>3 DEF ShareFiled
  <1>7. \A share \in owed' : ShareFiled(share)'
    BY <1>0, <1>5, <1>6
  <1> QED  BY <1>0, <1>3, <1>4, <1>7 DEF SharesFiled

(* The shares an ended session leaves unanswered are lost.                 *)
LEMMA EndsFiled ==
    ASSUME TypeOK, SharesFiled, Ends
    PROVE  SharesFiled'
  <1>1. /\ owed' = {} /\ lost' = lost + Cardinality(owed)
        /\ submitted' = submitted /\ answers' = answers
        /\ at' \in {"start", "waiting", "stopped"}
    BY DEF Ends, EndSession, shares
  <1>2. IsFiniteSet({}) /\ Cardinality({}) = 0
    BY FS_EmptySet
  <1>3. submitted' = answers' + Cardinality(owed') + lost'
    BY <1>1, <1>2, ShareFacts DEF SharesFiled
  <1> QED  BY <1>1, <1>2, <1>3 DEF SharesFiled

LEMMA NextShares ==
    ASSUME TypeOK, SharesFiled, [Next]_vars
    PROVE  SharesFiled'
  <1>1. CASE Ends
    BY <1>1, EndsFiled
  <1>2. CASE SubmitShare
    BY <1>2, SubmitFiled
  <1>3. CASE Handles(\E share \in owed : AnswerShare(share))
    BY <1>3, AnswerFiled DEF Handles
  <1>4. CASE HashRound \/ CheckCandidate
    <2>1. at' \in {"candidate", "submit"} => MayShare
      BY <1>4 DEF HashRound, CheckCandidate, SharesFiled
    <2> QED  BY <1>4, <2>1, SharesKept DEF HashRound, CheckCandidate, shares, history
  <1>5. CASE StartSession \/ Connect \/ BeginRound
    <2>1. at' \notin {"candidate", "submit"}
      BY <1>5 DEF StartSession, Connect, BeginRound
    <2> QED
      BY <1>5, <2>1, SharesKept DEF StartSession, Connect, BeginRound, shares, history
  <1>6. CASE Moves
    <2>1. at' \in {"candidate", "submit"} => MayShare
      BY <1>6 DEF Moves, SharesFiled
    <2> QED  BY <1>6, <2>1, SharesKept DEF Moves, shares, history
  <1>7. CASE \/ Handles(\E ok \in BOOLEAN : AnswerSubscribe(ok))
             \/ Handles(\E ok \in BOOLEAN : AnswerAuthorize(ok))
             \/ Handles(\E t \in Targets : SetTarget(t))
             \/ Handles(\E j \in Jobs : Notify(j))
             \/ Handles(BadNotify)
    <2>1. at' \in {"candidate", "submit"} => MayShare
      BY <1>7 DEF Handles, SharesFiled
    <2> QED
      BY <1>7, <2>1, SharesKept
      DEF Handles, AnswerSubscribe, AnswerAuthorize, SetTarget, Notify, BadNotify,
          shares, history
  <1> QED  BY <1>1, <1>2, <1>3, <1>4, <1>5, <1>6, <1>7, StepCases
--------------------------------------------------------------------------------
(* Type correctness *)

ClientType ==
    /\ authorized \in BOOLEAN
    /\ job \in Jobs \cup {None}
    /\ targetReady \in BOOLEAN
    /\ pendingTarget \in Targets \cup {None}
    /\ extranonce1 \in 0 .. MaxSessions
    /\ target \in Targets \cup {None}
    /\ session \in 0 .. MaxSessions /\ answered \in 0 .. 2
    /\ assigned \in BOOLEAN
    /\ told \in Targets \cup {None} /\ meant \in Targets \cup {None}

RoundType ==
    /\ stop \in BOOLEAN
    /\ at \in Pumps \cup {"start", "connecting", "head", "submit", "waiting",
                          "stopped"}
    /\ work \in Work \cup {None}
    /\ badWork \in BOOLEAN

ShareType ==
    /\ submitted \in 0 .. MaxSubmitted /\ answers \in 0 .. MaxSubmitted
    /\ pending \in [Ids -> 0 .. MaxSubmitted]
    /\ owed \subseteq Share
    /\ lost \in 0 .. MaxSubmitted

TelemetryType ==
    /\ activeRotation \in Rotations \cup {None}
    /\ activeHashes \in 0 .. MaxHashes
    /\ aggregates \in [Rotations -> 0 .. MaxHashes]
    /\ hashed \in [Rotations -> 0 .. MaxHashes]

LEMMA TypeParts == TypeOK <=> ClientType /\ RoundType /\ ShareType /\ TelemetryType
  BY DEF TypeOK, ClientType, RoundType, ShareType, TelemetryType, Share

LEMMA NextClientType ==
    ASSUME TypeOK, SessionStaged, [Next]_vars
    PROVE  ClientType'
  <1> USE DEF ClientType, TypeOK
  <1>1. CASE StartSession
    BY <1>1 DEF StartSession, Reset, kept, pool
  <1>2. CASE Connect
    <2>1. UNCHANGED <<client, kept>> /\ session < MaxSessions
      BY <1>2 DEF Connect, SessionStaged
    <2>2. CASE UNCHANGED pool
      BY <2>1, <2>2 DEF client, kept, pool
    <2>3. CASE /\ session' = session + 1
               /\ answered' = 0 /\ assigned' = FALSE
               /\ told' = None /\ meant' = None
      <3>1. session' \in 0 .. MaxSessions /\ answered' \in 0 .. 2
        BY <2>1, <2>3, StratumSessionAssumption
      <3>2. UNCHANGED <<authorized, job, targetReady, pendingTarget, extranonce1,
                        target>>
        BY <2>1 DEF client, kept
      <3> QED  BY <2>3, <3>1, <3>2
    <2> QED  BY <1>2, <2>2, <2>3 DEF Connect
  <1>3. CASE Moves \/ Ends \/ BeginRound \/ HashRound \/ CheckCandidate \/ SubmitShare
    <2>1. UNCHANGED <<client, kept, pool>>
      BY <1>3 DEF Moves, Ends, EndSession, BeginRound, HashRound, CheckCandidate,
                  SubmitShare
    <2> QED  BY <2>1 DEF client, kept, pool
  <1>4. CASE Handles(\E ok \in BOOLEAN : AnswerSubscribe(ok))
    BY <1>4 DEF Handles, AnswerSubscribe
  <1>5. CASE Handles(\E ok \in BOOLEAN : AnswerAuthorize(ok))
    BY <1>5 DEF Handles, AnswerAuthorize, kept
  <1>6. CASE Handles(\E share \in owed : AnswerShare(share))
    BY <1>6 DEF Handles, AnswerShare, client, kept, pool
  <1>7. CASE Handles(\E t \in Targets : SetTarget(t))
    BY <1>7 DEF Handles, SetTarget, kept
  <1>8. CASE Handles(\E j \in Jobs : Notify(j))
    BY <1>8 DEF Handles, Notify, ActivatePendingTarget
  <1>9. CASE Handles(BadNotify)
    BY <1>9 DEF Handles, BadNotify, kept, pool
  <1> QED  BY <1>1, <1>2, <1>3, <1>4, <1>5, <1>6, <1>7, <1>8, <1>9, StepCases

LEMMA NextRoundType ==
    ASSUME TypeOK, [Next]_vars
    PROVE  RoundType'
  <1> USE DEF RoundType, TypeOK, Pumps
  <1>1. CASE StartSession \/ Connect
    BY <1>1 DEF StartSession, Connect, history
  <1>2. CASE Moves
    BY <1>2 DEF Moves, history
  <1>3. CASE Ends
    BY <1>3 DEF Ends, EndSession
  <1>4. CASE BeginRound
    <2>1. CASE at' = "hash"
      BY <1>4, <2>1, RoundBegins DEF BeginRound, history
    <2>2. CASE at' # "hash"
      BY <1>4, <2>2 DEF BeginRound, history
    <2> QED  BY <2>1, <2>2
  <1>5. CASE HashRound \/ CheckCandidate
    BY <1>5 DEF HashRound, CheckCandidate, history
  <1>6. CASE SubmitShare
    BY <1>6 DEF SubmitShare
  <1>7. CASE Handles(\E j \in Jobs : Notify(j))
    BY <1>7, NotifyWork DEF Handles, Notify, history
  <1>8. CASE \/ Handles(\E ok \in BOOLEAN : AnswerSubscribe(ok))
             \/ Handles(\E ok \in BOOLEAN : AnswerAuthorize(ok))
             \/ Handles(\E share \in owed : AnswerShare(share))
             \/ Handles(\E t \in Targets : SetTarget(t))
             \/ Handles(BadNotify)
    BY <1>8 DEF Handles, AnswerSubscribe, AnswerAuthorize, AnswerShare, SetTarget,
                BadNotify, history
  <1> QED  BY <1>1, <1>2, <1>3, <1>4, <1>5, <1>6, <1>7, <1>8, StepCases

(* Every count of shares stays below that of the shares sent.              *)
LEMMA SharesBounded ==
    ASSUME SharesFiled', submitted' \in 0 .. MaxSubmitted,
           answers' \in Nat, lost' \in Nat
    PROVE  answers' \in 0 .. MaxSubmitted /\ lost' \in 0 .. MaxSubmitted
  <1>1. Cardinality(owed') \in Nat /\ submitted' = answers' + Cardinality(owed') + lost'
    BY FS_CardinalityType DEF SharesFiled
  <1> QED  BY <1>1, StratumSessionAssumption

LEMMA NextShareType ==
    ASSUME TypeOK, SharesFiled, SharesFiled', [Next]_vars
    PROVE  ShareType'
  <1>0. /\ submitted \in 0 .. MaxSubmitted /\ answers \in Nat /\ lost \in Nat
        /\ pending \in [Ids -> 0 .. MaxSubmitted] /\ owed \subseteq Share
    BY ShareFacts DEF TypeOK
  <1>1. CASE Ends
    <2>1. /\ owed' = {} /\ lost' = lost + Cardinality(owed)
          /\ UNCHANGED <<submitted, answers, pending>>
      BY <1>1 DEF Ends, EndSession, shares
    <2> QED  BY <1>0, <2>1, ShareFacts, SharesBounded DEF ShareType
  <1>2. CASE SubmitShare
    <2>1. /\ submitted' = submitted + 1 /\ submitted < MaxSubmitted
          /\ pending' = [pending EXCEPT ![Id(submitted)] = submitted + 1]
          /\ owed' = owed \cup {[number |-> submitted + 1, id |-> Id(submitted)]}
          /\ UNCHANGED <<answers, lost>>
      BY <1>2 DEF SubmitShare, SharesFiled, MayShare
    <2>2. submitted + 1 \in 1 .. MaxSubmitted /\ submitted' \in 0 .. MaxSubmitted
      BY <1>0, <2>1, StratumSessionAssumption
    <2>3. owed' \subseteq Share
      BY <1>0, <2>1, <2>2, ShareFacts, IdInIds DEF Share
    <2>4. pending' \in [Ids -> 0 .. MaxSubmitted]
      BY <1>0, <2>1, <2>2
    <2> QED  BY <1>0, <2>1, <2>2, <2>3, <2>4, SharesBounded DEF ShareType
  <1>3. CASE Handles(\E share \in owed : AnswerShare(share))
    <2>1. PICK share \in owed : AnswerShare(share)
      BY <1>3 DEF Handles
    <2>2. /\ owed' \subseteq Share /\ answers' \in Nat
          /\ UNCHANGED <<submitted, lost>>
      BY <1>0, <2>1 DEF AnswerShare, history
    <2>3. pending' \in [Ids -> 0 .. MaxSubmitted]
      BY <1>0, <2>1, ShareFacts, StratumSessionAssumption DEF AnswerShare
    <2> QED  BY <1>0, <2>2, <2>3, SharesBounded DEF ShareType
  <1>4. CASE UNCHANGED <<shares, owed, lost>>
    BY <1>4 DEF ShareType, TypeOK, shares, Share
  <1>5. StartSession \/ Connect \/ Moves \/ BeginRound \/ HashRound \/ CheckCandidate
        => UNCHANGED <<shares, owed, lost>>
    BY DEF StartSession, Connect, Moves, BeginRound, HashRound, CheckCandidate,
           history
  <1>6. \/ Handles(\E ok \in BOOLEAN : AnswerSubscribe(ok))
        \/ Handles(\E ok \in BOOLEAN : AnswerAuthorize(ok))
        \/ Handles(\E t \in Targets : SetTarget(t))
        \/ Handles(\E j \in Jobs : Notify(j))
        \/ Handles(BadNotify)
        => UNCHANGED <<shares, owed, lost>>
    BY DEF Handles, AnswerSubscribe, AnswerAuthorize, SetTarget, Notify, BadNotify,
           history
  <1> QED  BY <1>1, <1>2, <1>3, <1>4, <1>5, <1>6, StepCases

(* The account of a rotation is never more than what was hashed for it.    *)
LEMMA ExactBounds ==
    ASSUME RotationExact', activeRotation' \in Rotations \cup {None},
           activeRotation' = None => activeHashes' = 0,
           hashed' \in [Rotations -> 0 .. MaxHashes],
           aggregates' \in [Rotations -> Nat], activeHashes' \in Nat
    PROVE  TelemetryType'
  <1>1. ASSUME NEW r \in Rotations
        PROVE  aggregates'[r] \in 0 .. MaxHashes
    BY <1>1, StratumSessionAssumption DEF RotationExact
  <1>2. activeHashes' \in 0 .. MaxHashes
    <2>1. CASE activeRotation' = None
      BY <2>1, StratumSessionAssumption
    <2>2. CASE activeRotation' \in Rotations
      <3>1. aggregates'[activeRotation'] + activeHashes' = hashed'[activeRotation']
        BY <2>2 DEF RotationExact
      <3> QED  BY <2>2, <3>1, StratumSessionAssumption
    <2> QED  BY <2>1, <2>2
  <1>3. aggregates' \in [Rotations -> 0 .. MaxHashes]
    BY <1>1
  <1> QED  BY <1>2, <1>3 DEF TelemetryType

LEMMA NextTelemetryType ==
    ASSUME TypeOK, SessionStaged, RotationOwn, RotationOwn', RotationExact', [Next]_vars
    PROVE  TelemetryType'
  <1>0. /\ activeRotation \in Rotations \cup {None} /\ activeHashes \in Nat
        /\ aggregates \in [Rotations -> Nat]
        /\ hashed \in [Rotations -> 0 .. MaxHashes]
        /\ activeRotation' = None => activeHashes' = 0
    BY StratumSessionAssumption DEF TypeOK, RotationOwn
  <1>1. CASE HashRound
    <2>1. UNCHANGED <<activeRotation, aggregates>> /\ activeHashes' \in Nat
      BY <1>0, <1>1 DEF HashRound
    <2>2. hashed' \in [Rotations -> 0 .. MaxHashes]
      <3>1. RotationOf[work.job] \in Rotations
        BY <1>1, WorkHeld, RotationOfJob DEF HashRound, Rounds, Work
      <3>2. hashed[RotationOf[work.job]] + 1 \in 0 .. MaxHashes
        BY <1>0, <1>1, <3>1, StratumSessionAssumption DEF HashRound, RotationOwn
      <3> QED  BY <1>0, <1>1, <3>2 DEF HashRound
    <2> QED  BY <1>0, <2>1, <2>2, ExactBounds
  <1>2. CASE Handles(\E j \in Jobs : Notify(j))
    <2>1. PICK j \in Jobs : Notify(j)
      BY <1>2 DEF Handles
    <2>2. hashed' = hashed
      BY <2>1 DEF Notify, history
    <2>3. CASE UNCHANGED telemetry
      BY <1>0, <2>2, <2>3, ExactBounds DEF telemetry
    <2>4. CASE Activate(RotationOf[j])
      <3>1. activeRotation' \in Rotations /\ activeHashes' = 0
        BY <2>4, RotationOfJob DEF Activate
      <3>2. aggregates' \in [Rotations -> Nat]
        BY <1>0, <2>4 DEF Activate
      <3> QED  BY <1>0, <2>2, <3>1, <3>2, ExactBounds
    <2> QED  BY <2>1, <2>3, <2>4 DEF Notify, UpdateRotationEpoch
  <1>3. CASE UNCHANGED <<telemetry, hashed>>
    BY <1>3 DEF telemetry, TelemetryType, TypeOK
  <1> QED  BY <1>1, <1>2, <1>3, TelemetryMoves
--------------------------------------------------------------------------------
(* Theorems *)

LEMMA InitInv == Init => IInv
  <1> SUFFICES ASSUME Init PROVE IInv
    OBVIOUS
  <1>1. TypeOK
    <2>1. ClientType
      <3>1. 0 \in 0 .. MaxSessions /\ 0 \in 0 .. 2
        BY StratumSessionAssumption
      <3> QED  BY <3>1 DEF Init, ClientType
    <2>2. RoundType
      BY DEF Init, RoundType
    <2>3. ShareType
      BY StratumSessionAssumption DEF Init, ShareType
    <2>4. TelemetryType
      BY StratumSessionAssumption DEF Init, TelemetryType
    <2> QED  BY <2>1, <2>2, <2>3, <2>4, TypeParts
  <1>2. SessionStaged
    BY DEF Init, SessionStaged, Connected, Rounds
  <1>3. TargetQueued /\ ExtranonceOwn
    BY DEF Init, TargetQueued, ExtranonceOwn, Connected, Rounds
  <1>4. SharesFiled
    BY FS_EmptySet DEF Init, SharesFiled
  <1>5. RotationOwn
    BY DEF Init, RotationOwn
  <1>6. RotationExact
    BY StratumSessionAssumption DEF Init, RotationExact
  <1> QED  BY <1>1, <1>2, <1>3, <1>4, <1>5, <1>6 DEF IInv

LEMMA NextInv == IInv /\ [Next]_vars => IInv'
  <1> SUFFICES ASSUME IInv, [Next]_vars PROVE IInv'
    OBVIOUS
  <1> USE DEF IInv
  <1>1. SessionStaged'   BY NextStaged
  <1>2. TargetQueued'    BY NextTarget
  <1>3. ExtranonceOwn'   BY NextExtranonce
  <1>4. SharesFiled'     BY NextShares
  <1>5. RotationOwn'     BY NextRotation
  <1>6. RotationExact'   BY NextExact
  <1>7. TypeOK'
    <2>1. ClientType'     BY NextClientType
    <2>2. RoundType'      BY NextRoundType
    <2>3. ShareType'      BY <1>4, NextShareType
    <2>4. TelemetryType'  BY <1>5, <1>6, NextTelemetryType
    <2>5. (TypeOK <=> ClientType /\ RoundType /\ ShareType /\ TelemetryType)'
      BY TypeParts, PTL
    <2> QED  BY <2>1, <2>2, <2>3, <2>4, <2>5
  <1> QED  BY <1>1, <1>2, <1>3, <1>4, <1>5, <1>6, <1>7

LEMMA InvHolds == Spec => []IInv
  BY InitInv, NextInv, PTL DEF Spec

(* Every counter of the client and of its telemetry keeps its range, over  *)
(* reconnects and lost sessions: no hash is counted before there is a      *)
(* rotation, no share after the last.                                      *)
THEOREM TypeCorrect == Spec => []TypeOK
  <1>1. IInv => TypeOK
    BY DEF IInv
  <1> QED  BY <1>1, InvHolds, PTL

(* Every share sent is answered once, open, or lost with its session, and  *)
(* the id of an open one leads to it, however the ids wrap.                *)
THEOREM SharesCorrect == Spec => []SharesAccounted
  <1>1. IInv => SharesAccounted
    BY DEF IInv, SharesFiled, ShareFiled, SharesAccounted
  <1> QED  BY <1>1, InvHolds, PTL

(* A session that is set up mines with the extranonce its own pool         *)
(* assigned and the target its own pool told.                              *)
THEOREM OwnSessionCorrect == Spec => []OwnSession
  <1>1. IInv => OwnSession
    BY DEF IInv, TypeOK, TargetQueued, ExtranonceOwn, OwnSession, Connected, Rounds,
           Pumps
  <1> QED  BY <1>1, InvHolds, PTL

(* The telemetry counts for each rotation the hashes computed for it, over *)
(* reconnects, stale rounds and jobs that did not decode.                  *)
THEOREM RotationCorrect == Spec => []RotationExact
  <1>1. IInv => RotationExact
    BY DEF IInv
  <1> QED  BY <1>1, InvHolds, PTL
================================================================================
