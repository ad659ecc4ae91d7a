------------------------------- MODULE FeeClock -------------------------------
(***************************************************************************)
(* The developer-fee clock of the Stratum client (src/stratum/stratum.h,   *)
(* Client::dev_fee_active) and the sessions it switches (Client::run and   *)
(* run_session in stratum.cpp).                                            *)
(*                                                                         *)
(* Once per hour of mining, from minute 3 on, the client closes its        *)
(* session and opens one with the developer's pool, until the clock has    *)
(* credited a minute of mining.  The clock is only looked at between two   *)
(* rounds and at the head of a session: it credits the whole time since    *)
(* its last look if the session is ready when it looks.                    *)
(*                                                                         *)
(* Time passes in units, without end: hours are told apart by their age    *)
(* (hours since), up to 2, seconds modulo the hour.                        *)
(***************************************************************************)
EXTENDS Naturals

CONSTANTS
    Period,         \* the hour
    FeeStart,       \* minute 3
    FeeDuration,    \* the minute of the fee
    MaxIteration,   \* the longest an iteration of the session loop, or an
                    \* attempt to connect, takes
    MaxLost         \* bound on the times one fee window loses its session

ASSUME FeeClockAssumption ==
    /\ Period \in Nat /\ FeeStart \in Nat /\ FeeDuration \in Nat \ {0}
    /\ FeeStart < Period
    /\ MaxIteration \in Nat \ {0}
    /\ MaxLost \in Nat

VARIABLES
    \* The clock.
    second,         \* second of the hour, cycle_second
    active,         \* dev_fee_session_active_
    started,        \* dev_fee_clock_started_
    activeAge,      \* hours since dev_fee_active_cycle_
    completedAge,   \* hours since dev_fee_completed_cycle_
    mined,          \* dev_fee_mined_seconds_
    sinceTick,      \* time since dev_fee_last_tick_
    \* The session.
    at,             \* where Client::run is
    sessionFee,     \* session_dev_fee: connected to the developer's pool
    ready,          \* authorized_ && job_.valid && target_ready_
    spent,          \* time spent in this iteration
    \* History of the current fee window.
    charged,        \* time mined for the developer
    lost            \* times the session was lost or its job turned invalid

clock   == <<active, started, activeAge, completedAge, mined>>
time    == <<second, sinceTick, spent>>
session == <<at, sessionFee, ready>>
history == <<charged, lost>>
vars    == <<clock, time, session, history>>

MaxAge == 2

(* Time since the last look matters only within an iteration and the wait  *)
(* that follows it.                                                        *)
MaxSinceTick == MaxIteration + 1

AtMost(n, bound) == IF n > bound THEN bound ELSE n

MaxCharged == FeeDuration + (MaxLost + 2) * (MaxIteration + 1) + 1

TypeOK ==
    /\ second \in 0 .. Period - 1
    /\ active \in BOOLEAN /\ started \in BOOLEAN
    /\ activeAge \in 0 .. MaxAge /\ completedAge \in 0 .. MaxAge
    /\ mined \in 0 .. FeeDuration - 1
    /\ sinceTick \in 0 .. MaxSinceTick
    /\ at \in {"start", "connecting", "head", "pump", "mine", "report", "waiting"}
    /\ sessionFee \in BOOLEAN /\ ready \in BOOLEAN
    /\ spent \in 0 .. MaxIteration
    /\ charged \in 0 .. MaxCharged
    /\ lost \in 0 .. MaxLost
--------------------------------------------------------------------------------
(* dev_fee_active: it returns what dev_fee_session_active_ becomes.        *)

(* Mutant: an hour whose fee is completed is charged again.                *)
MutDue == second >= FeeStart

(* The fee of this hour is due.                                            *)
Due == second >= FeeStart /\ completedAge > 0

TickIdle ==
    /\ ~active /\ ~Due
    /\ UNCHANGED <<clock, sinceTick, history>>

TickActivates ==
    /\ ~active /\ Due
    /\ active' = TRUE
    /\ activeAge' = 0
    /\ started' = FALSE
    /\ mined' = 0
    /\ sinceTick' = 0
    /\ charged' = 0
    /\ lost' = 0
    /\ UNCHANGED completedAge

(* Mutant: every look at a ready session starts the clock again.           *)
MutNoCredit(isReady) == 0

Credited(isReady) == IF started /\ isReady THEN sinceTick ELSE 0

Completes(isReady) ==
    /\ started \/ isReady
    /\ mined + Credited(isReady) >= FeeDuration

TickRuns(isReady) ==
    /\ active /\ ~Completes(isReady)
    /\ mined' = mined + Credited(isReady)
    /\ started' = (started \/ isReady)
    /\ sinceTick' = 0
    /\ UNCHANGED <<active, activeAge, completedAge, history>>

TickCompletes(isReady) ==
    /\ active /\ Completes(isReady)
    /\ active' = FALSE
    /\ started' = FALSE
    /\ completedAge' = activeAge
    /\ activeAge' = 0
    /\ mined' = 0
    /\ sinceTick' = 0
    /\ UNCHANGED history

Tick(isReady) ==
    TickIdle \/ TickActivates \/ TickRuns(isReady) \/ TickCompletes(isReady)
--------------------------------------------------------------------------------
(* Time                                                                    *)

(* Mutant: the hours are not told apart.                                   *)
MutOlder(age) == age

Older(age) == IF second = Period - 1 THEN AtMost(age + 1, MaxAge) ELSE age

Mines == at = "mine" /\ sessionFee /\ ready

Elapse ==
    /\ second' = (second + 1) % Period
    /\ activeAge' = IF active THEN Older(activeAge) ELSE activeAge
    /\ completedAge' = Older(completedAge)
    /\ sinceTick' = AtMost(sinceTick + 1, MaxSinceTick)
    /\ charged' = IF active /\ Mines THEN AtMost(charged + 1, MaxCharged)
                                     ELSE charged
    /\ UNCHANGED <<active, started, mined, lost>>

(* A read of the socket waits for one unit if there is no job; mining      *)
(* takes up to MaxIteration in all, and so does a connection attempt.      *)
Pass ==
    /\ \/ at = "connecting" /\ spent < MaxIteration /\ spent' = spent + 1
       \/ at = "pump" /\ ~ready /\ spent = 0 /\ spent' = 1
       \/ at = "mine" /\ spent < MaxIteration /\ spent' = spent + 1
    /\ Elapse
    /\ UNCHANGED session
--------------------------------------------------------------------------------
(* Client::run and run_session                                             *)

(* run_session resets the session, then asks the clock for the pool.       *)
Start ==
    /\ at = "start"
    /\ ready' = FALSE
    /\ Tick(FALSE)
    /\ sessionFee' = active'
    /\ at' = "connecting"
    /\ spent' = 0
    /\ UNCHANGED second

Connect ==
    /\ at = "connecting"
    /\ at' \in {"head", "waiting"}
    /\ UNCHANGED <<clock, time, sessionFee, ready, history>>

Switches(now) == now # sessionFee

(* The head of the session loop: look at the clock, switch pools if it     *)
(* says so (run then goes on without the wait of a reconnect).             *)
Head ==
    /\ at = "head"
    /\ Tick(ready)
    /\ at' = IF Switches(active') THEN "start" ELSE "pump"
    /\ spent' = 0
    /\ UNCHANGED <<second, sessionFee, ready>>

Pumped ==
    /\ at = "pump"
    /\ \/ ready /\ at' = "mine"
       \/ ~ready /\ spent > 0 /\ at' = "report"
    /\ UNCHANGED <<clock, time, sessionFee, ready, history>>

Mined ==
    /\ at = "mine"
    /\ spent > 0
    /\ at' = "report"
    /\ UNCHANGED <<clock, time, sessionFee, ready, history>>

(* report_stats: when it draws the dashboard it looks at the clock too.    *)
Report ==
    /\ at = "report"
    /\ \/ Tick(ready)
       \/ UNCHANGED <<clock, sinceTick, history>>
    /\ at' = "head"
    /\ UNCHANGED <<second, spent, sessionFee, ready>>

(* The five seconds before a reconnect.                                    *)
Reconnect ==
    /\ at = "waiting"
    /\ Elapse
    /\ at' = "start"
    /\ UNCHANGED <<sessionFee, ready, spent>>

(* The pool: the messages that make the session ready (an authorization, a *)
(* job, a target), a job that does not decode, a lost connection.          *)
CountLost ==
    IF active THEN lost < MaxLost /\ lost' = lost + 1 ELSE UNCHANGED lost

BecomeReady ==
    /\ at \in {"pump", "mine"}
    /\ ~ready
    /\ ready' = TRUE
    /\ UNCHANGED <<clock, time, at, sessionFee, history>>

BadNotify ==
    /\ at \in {"pump", "mine"}
    /\ ready
    /\ ready' = FALSE
    /\ CountLost
    /\ UNCHANGED <<clock, time, at, sessionFee, charged>>

Lose ==
    /\ at \in {"pump", "mine"}
    /\ CountLost
    /\ at' = "waiting"
    /\ UNCHANGED <<clock, time, sessionFee, ready, charged>>
--------------------------------------------------------------------------------
Init ==
    /\ second = 0
    /\ active = FALSE /\ started = FALSE
    /\ activeAge = 0 /\ completedAge = 1
    /\ mined = 0 /\ sinceTick = 0
    /\ at = "start" /\ sessionFee = FALSE /\ ready = FALSE /\ spent = 0
    /\ charged = 0 /\ lost = 0

ThreadStep == Start \/ Connect \/ Head \/ Pumped \/ Mined \/ Report
              \/ Reconnect

Next == ThreadStep \/ Pass \/ BecomeReady \/ BadNotify \/ Lose

Spec == Init /\ [][Next]_vars

(* The thread runs and time passes; no pool owes anything.  A connection   *)
(* attempt comes to an end, one way or the other, and so does a read of    *)
(* the socket, whatever messages alternate in it (strong fairness).        *)
FairSpec == Spec /\ SF_vars(ThreadStep) /\ WF_vars(Pass)
--------------------------------------------------------------------------------
(* Properties                                                              *)

(* "for one minute": a fee window costs the user no more than the minute,  *)
(* one iteration before the clock starts, one that overshoots, and one for *)
(* each time the session is lost, whose last iteration is not credited.    *)
ChargeBounded ==
    charged <= FeeDuration + (lost + 2) * MaxIteration

(* "of every hour": an hour's fee is taken at most once, and not before    *)
(* its minute 3, however long windows last into later hours.               *)
OncePerHour ==
    active => /\ activeAge < completedAge \/ completedAge = MaxAge
              /\ activeAge = 0 => second >= FeeStart

(* A fee session that stays ready completes its minute and ends.           *)
ServedFeeEnds == (active /\ sessionFee /\ ready) ~> (~active \/ ~ready)

(* Hour after hour the fee is due and taken, the user's sessions between   *)
(* two windows do not stop the clock.                                      *)
FeeComesBack == []<>active

(* "... then returns to the user's configured pool" (stratum.cpp:84-86).   *)
(* Not if the developer's pool does not serve the session.                 *)
FeeReturns == active ~> ~active

(* "The 60-second clock advances only while the dev-fee session is         *)
(* authorized and has a valid target/job" (stratum.h:136-138).  Not so:    *)
(* what is credited may be more than what was mined.                       *)
CreditsMinedTime == active => mined <= charged
================================================================================
