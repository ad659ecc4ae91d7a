---------------------------- MODULE FeeClockProofs ----------------------------
(***************************************************************************)
(* Proofs about FeeClock, for every hour, fee start, fee duration, longest *)
(* iteration and number of lost sessions.                                  *)
(***************************************************************************)
EXTENDS FeeClock, TLAPS

(* Where the time mined since the last look at the clock may still be      *)
(* credited: an iteration of a ready session.                              *)
Iterates == ready /\ at \in {"head", "pump", "mine", "report"}

(* What an iteration has mined and the clock has not looked at yet.        *)
Pending == IF Iterates THEN AtMost(spent, sinceTick) ELSE 0

(* The time mined before the clock started.                                *)
Free == IF started THEN MaxIteration ELSE 0

(* A window has been charged what the clock credited, the iteration before *)
(* it started, an iteration for each lost session, and what is pending.    *)
Ledger == active => charged <= mined + Free + lost * MaxIteration + Pending

(* The inductive invariant of ChargeBounded.                               *)
ChargeInv == TypeOK /\ Ledger /\ ChargeBounded

(* The inductive invariant of OncePerHour.                                 *)
HourInv == TypeOK /\ OncePerHour
--------------------------------------------------------------------------------
(* Type correctness *)

(* The second of the hour stays one.                                       *)
LEMMA NextSecond ==
    ASSUME TypeOK
    PROVE  (second + 1) % Period \in 0 .. Period - 1
  <1>1. second + 1 \in Nat /\ Period \in Nat \ {0}
    BY FeeClockAssumption DEF TypeOK
  <1> QED  BY <1>1

(* A bounded count and an age stay in their range.                         *)
LEMMA Capped ==
    ASSUME NEW n \in Nat, NEW bound \in Nat
    PROVE  AtMost(n, bound) \in 0 .. bound /\ AtMost(n, bound) <= n
  BY DEF AtMost

LEMMA CapsAreNat ==
    MaxCharged \in Nat /\ MaxSinceTick \in Nat /\ MaxAge \in Nat
  <1>1. (MaxLost + 2) * (MaxIteration + 1) \in Nat
    BY FeeClockAssumption
  <1> QED  BY <1>1, FeeClockAssumption DEF MaxCharged, MaxSinceTick, MaxAge

(* What a reset leaves is in every range.                                  *)
LEMMA ZeroInRange ==
    /\ 0 \in 0 .. MaxAge /\ 1 \in 0 .. MaxAge
    /\ 0 \in 0 .. FeeDuration - 1 /\ 0 \in 0 .. Period - 1
    /\ 0 \in 0 .. MaxSinceTick /\ 0 \in 0 .. MaxIteration
    /\ 0 \in 0 .. MaxCharged /\ 0 \in 0 .. MaxLost
  <1>1. 0 \in 0 .. MaxAge /\ 1 \in 0 .. MaxAge
    BY DEF MaxAge
  <1>2. 0 \in 0 .. MaxSinceTick /\ 0 \in 0 .. MaxCharged
    BY CapsAreNat
  <1> QED  BY <1>1, <1>2, FeeClockAssumption

LEMMA OlderAge ==
    ASSUME NEW age \in 0 .. MaxAge
    PROVE  Older(age) \in 0 .. MaxAge
  BY DEF Older, AtMost, MaxAge

(* The types of the clock and of the time after a look at the clock.       *)
ClockOK ==
    /\ active \in BOOLEAN /\ started \in BOOLEAN
    /\ activeAge \in 0 .. MaxAge /\ completedAge \in 0 .. MaxAge
    /\ mined \in 0 .. FeeDuration - 1
    /\ sinceTick \in 0 .. MaxSinceTick
    /\ charged \in 0 .. MaxCharged
    /\ lost \in 0 .. MaxLost

LEMMA InitType == Init => TypeOK
  BY ZeroInRange DEF Init, TypeOK

LEMMA TickType ==
    ASSUME TypeOK, NEW isReady \in BOOLEAN, Tick(isReady)
    PROVE  ClockOK'
  <1> USE CapsAreNat, FeeClockAssumption DEF TypeOK, ClockOK
  <1>1. CASE TickIdle
    BY <1>1 DEF TickIdle, clock, history
  <1>2. CASE TickActivates
    BY <1>2, ZeroInRange DEF TickActivates
  <1>3. CASE TickRuns(isReady)
    <2>1. Credited(isReady) \in Nat
      BY DEF Credited, MaxSinceTick
    <2>2. mined + Credited(isReady) \in 0 .. FeeDuration - 1
      <3>1. CASE started \/ isReady
        BY <1>3, <2>1, <3>1 DEF TickRuns, Completes
      <3>2. CASE ~started
        BY <3>2 DEF Credited
      <3> QED  BY <3>1, <3>2
    <2> QED  BY <1>3, <2>2 DEF TickRuns, history
  <1>4. CASE TickCompletes(isReady)
    BY <1>4, ZeroInRange DEF TickCompletes, history
  <1> QED  BY <1>1, <1>2, <1>3, <1>4 DEF Tick

LEMMA TickTypeOfNoSession ==
    ASSUME TypeOK, Tick(FALSE)
    PROVE  ClockOK'
  <1>1. PICK isReady \in BOOLEAN : Tick(isReady)
    BY Zenon
  <1> QED  BY <1>1, TickType

LEMMA ElapseType ==
    ASSUME TypeOK, Elapse
    PROVE  ClockOK' /\ second' \in 0 .. Period - 1
  <1>1. second' \in 0 .. Period - 1
    BY NextSecond DEF Elapse
  <1>2. activeAge' \in 0 .. MaxAge /\ completedAge' \in 0 .. MaxAge
    BY OlderAge DEF Elapse, TypeOK
  <1>3. sinceTick' \in 0 .. MaxSinceTick
    BY Capped, CapsAreNat DEF Elapse, TypeOK
  <1>4. charged' \in 0 .. MaxCharged
    BY Capped, CapsAreNat DEF Elapse, TypeOK
  <1> QED  BY <1>1, <1>2, <1>3, <1>4 DEF Elapse, TypeOK, ClockOK

(* The clock is in its types when a step leaves it alone.                  *)
LEMMA SameClock ==
    ASSUME TypeOK, UNCHANGED <<clock, sinceTick, history>>
    PROVE  ClockOK'
  BY DEF TypeOK, ClockOK, clock, history

LEMMA NextType ==
    ASSUME TypeOK, [Next]_vars
    PROVE  TypeOK'
  <1> USE DEF TypeOK
  <1>1. CASE Start
    <2>0. Tick(FALSE)  BY <1>1 DEF Start
    <2>1. ClockOK'  BY <2>0, TickTypeOfNoSession
    <2>2. sessionFee' \in BOOLEAN /\ ready' \in BOOLEAN
      BY <1>1, <2>1, Zenon DEF Start, ClockOK
    <2> QED  BY <1>1, <2>1, <2>2, FeeClockAssumption DEF Start, ClockOK
  <1>2. CASE Connect
    BY <1>2 DEF Connect, clock, time, history
  <1>3. CASE Head
    <2>1. ClockOK'  BY <1>3, TickType DEF Head
    <2> QED  BY <1>3, <2>1, FeeClockAssumption DEF Head, ClockOK
  <1>4. CASE Pumped
    BY <1>4 DEF Pumped, clock, time, history
  <1>5. CASE Mined
    BY <1>5 DEF Mined, clock, time, history
  <1>6. CASE Report
    <2>1. ClockOK'  BY <1>6, TickType, SameClock DEF Report
    <2> QED  BY <1>6, <2>1 DEF Report, ClockOK
  <1>7. CASE Reconnect
    <2>1. ClockOK' /\ second' \in 0 .. Period - 1
      BY <1>7, ElapseType DEF Reconnect
    <2> QED  BY <1>7, <2>1 DEF Reconnect, ClockOK
  <1>8. CASE Pass
    <2>1. ClockOK' /\ second' \in 0 .. Period - 1
      BY <1>8, ElapseType DEF Pass
    <2>2. spent' \in 0 .. MaxIteration
      BY <1>8, FeeClockAssumption DEF Pass
    <2> QED  BY <1>8, <2>1, <2>2 DEF Pass, ClockOK, session
  <1>9. CASE BecomeReady
    BY <1>9 DEF BecomeReady, clock, time, history
  <1>10. CASE BadNotify \/ Lose
    <2>1. lost' \in 0 .. MaxLost
      BY <1>10, FeeClockAssumption DEF BadNotify, Lose, CountLost
    <2> QED  BY <1>10, <2>1 DEF BadNotify, Lose, clock, time
  <1>11. CASE UNCHANGED vars
    BY <1>11 DEF vars, clock, time, session, history
  <1> QED  BY <1>1, <1>2, <1>3, <1>4, <1>5, <1>6, <1>7, <1>8, <1>9, <1>10,
              <1>11 DEF Next, ThreadStep

(* The state of the clock and of the sessions keeps its types: what was    *)
(* credited stays under the minute, a second of the hour stays one.        *)
THEOREM TypeCorrect == Spec => []TypeOK
  <1> QED  BY InitType, NextType, PTL DEF Spec
--------------------------------------------------------------------------------
(* An hour's fee is taken once *)

(* Within the hour the second only grows.                                  *)
LEMMA LaterSecond ==
    ASSUME TypeOK, second # Period - 1
    PROVE  (second + 1) % Period = second + 1
  <1>1. second + 1 \in 0 .. Period - 1 /\ Period \in Nat \ {0}
    BY FeeClockAssumption DEF TypeOK
  <1> QED  BY <1>1

LEMMA TickOnce ==
    ASSUME TypeOK, OncePerHour, NEW isReady, Tick(isReady), UNCHANGED second
    PROVE  OncePerHour'
  <1>1. CASE TickIdle
    BY <1>1 DEF TickIdle, clock, OncePerHour
  <1>2. CASE TickActivates
    BY <1>2 DEF TickActivates, Due, OncePerHour, TypeOK, MaxAge
  <1>3. CASE TickRuns(isReady)
    BY <1>3 DEF TickRuns, OncePerHour
  <1>4. CASE TickCompletes(isReady)
    BY <1>4 DEF TickCompletes, OncePerHour
  <1> QED  BY <1>1, <1>2, <1>3, <1>4 DEF Tick

LEMMA ElapseOnce ==
    ASSUME TypeOK, OncePerHour, Elapse
    PROVE  OncePerHour'
  <1> SUFFICES ASSUME active PROVE OncePerHour'
    BY DEF Elapse, OncePerHour
  <1>1. CASE second = Period - 1
    <2>1. activeAge' = AtMost(activeAge + 1, MaxAge)
          /\ completedAge' = AtMost(completedAge + 1, MaxAge)
      BY <1>1 DEF Elapse, Older
    <2> QED  BY <2>1 DEF OncePerHour, AtMost, TypeOK, MaxAge
  <1>2. CASE second # Period - 1
    <2>1. activeAge' = activeAge /\ completedAge' = completedAge
      BY <1>2 DEF Elapse, Older
    <2>2. second' = second + 1
      BY <1>2, LaterSecond DEF Elapse
    <2> QED  BY <2>1, <2>2, FeeClockAssumption DEF OncePerHour, TypeOK
  <1> QED  BY <1>1, <1>2

LEMMA NextOnce ==
    ASSUME TypeOK, OncePerHour, [Next]_vars
    PROVE  OncePerHour'
  <1>1. CASE Start
    BY <1>1, TickOnce DEF Start
  <1>2. CASE Head
    BY <1>2, TickOnce DEF Head
  <1>3. CASE Report
    <2>1. CASE Tick(ready)
      BY <1>3, <2>1, TickOnce DEF Report
    <2>2. CASE UNCHANGED <<clock, sinceTick, history>>
      BY <1>3, <2>2 DEF Report, clock, OncePerHour
    <2> QED  BY <1>3, <2>1, <2>2 DEF Report
  <1>4. CASE Pass \/ Reconnect
    BY <1>4, ElapseOnce DEF Pass, Reconnect
  <1>5. CASE Connect \/ Pumped \/ Mined \/ BecomeReady \/ BadNotify \/ Lose
             \/ UNCHANGED vars
    BY <1>5 DEF Connect, Pumped, Mined, BecomeReady, BadNotify, Lose, vars,
                clock, time, OncePerHour
  <1> QED  BY <1>1, <1>2, <1>3, <1>4, <1>5 DEF Next, ThreadStep

(* The fee of an hour is taken at most once and never before its minute 3, *)
(* even by a window that lasts into later hours.                           *)
THEOREM HourCorrect == Spec => []OncePerHour
  <1>1. Init => HourInv
    BY InitType DEF Init, HourInv, OncePerHour
  <1>2. HourInv /\ [Next]_vars => HourInv'
    BY NextType, NextOnce DEF HourInv
  <1>3. HourInv => OncePerHour
    BY DEF HourInv
  <1> QED  BY <1>1, <1>2, <1>3, PTL DEF Spec
--------------------------------------------------------------------------------
(* What a fee window costs *)

LEMMA IterationsAreNat ==
    ASSUME NEW n \in Nat
    PROVE  n * MaxIteration \in Nat
  BY FeeClockAssumption

(* One more lost session pays for one more iteration.                      *)
LEMMA OneMoreLost ==
    /\ lost \in Nat => (lost + 1) * MaxIteration = lost * MaxIteration + MaxIteration
    /\ lost \in Nat => (lost + 2) * MaxIteration
                       = lost * MaxIteration + MaxIteration + MaxIteration
    /\ lost \in Nat => lost * MaxIteration \in Nat
  BY FeeClockAssumption

LEMMA PendingRange ==
    ASSUME TypeOK
    PROVE  Pending \in 0 .. MaxIteration /\ Free \in 0 .. MaxIteration
  BY FeeClockAssumption, CapsAreNat DEF Pending, Free, AtMost, TypeOK

LEMMA PendingIsNat == TypeOK => Pending \in Nat /\ Free \in Nat
  BY PendingRange, FeeClockAssumption

(* While the window is open its charge is bounded by the ledger.           *)
LEMMA LedgerBounds == TypeOK /\ Ledger /\ active => ChargeBounded
  <1> SUFFICES ASSUME TypeOK, Ledger, active PROVE ChargeBounded
    OBVIOUS
  <1>1. Free <= MaxIteration /\ Pending <= MaxIteration
        /\ Free \in Nat /\ Pending \in Nat
    BY PendingRange, FeeClockAssumption
  <1>2. lost \in Nat /\ charged \in Nat /\ mined \in Nat /\ mined < FeeDuration
    BY CapsAreNat, FeeClockAssumption DEF TypeOK
  <1> QED
    BY <1>1, <1>2, OneMoreLost, FeeClockAssumption DEF Ledger, ChargeBounded

LEMMA NextBounds ==
    ASSUME TypeOK', Ledger', ChargeBounded,
           ~active' => UNCHANGED <<charged, lost>>
    PROVE  ChargeBounded'
  <1>1. CASE active'
    <2>1. (TypeOK /\ Ledger /\ active => ChargeBounded)'
      BY LedgerBounds, PTL
    <2> QED  BY <1>1, <2>1
  <1>2. CASE ~active'
    BY <1>2 DEF ChargeBounded
  <1> QED  BY <1>1, <1>2

(* The ledger with nothing pending.                                        *)
Settled == active => charged <= mined + Free + lost * MaxIteration

LEMMA SettledLedger ==
    ASSUME TypeOK', Settled'
    PROVE  Ledger'
  <1>1. (TypeOK => Pending \in Nat /\ Free \in Nat)'
    BY PendingIsNat, PTL
  <1>2. charged' \in Nat /\ mined' \in Nat /\ lost' \in Nat
    BY CapsAreNat, FeeClockAssumption DEF TypeOK
  <1>3. lost' * MaxIteration \in Nat
    BY <1>2, IterationsAreNat
  <1>4. active' => charged' <= mined' + Free' + lost' * MaxIteration
    BY DEF Settled
  <1>5. active' => charged' <= mined' + Free' + lost' * MaxIteration + Pending'
    BY <1>1, <1>2, <1>3, <1>4
  <1> QED  BY <1>5 DEF Ledger

(* A look at the clock credits at least what was pending, or starts the    *)
(* clock and leaves the iteration free.                                    *)
LEMMA TickSettles ==
    ASSUME TypeOK, Ledger, NEW isReady, Tick(isReady), Iterates => isReady
    PROVE  Settled'
  <1>1. CASE TickIdle
    BY <1>1 DEF TickIdle, clock, Settled
  <1>2. CASE TickActivates
    <2>1. charged' = 0 /\ mined' = 0 /\ lost' = 0 /\ started' = FALSE
      BY <1>2 DEF TickActivates
    <2> QED  BY <2>1, FeeClockAssumption DEF Settled, Free
  <1>3. CASE TickRuns(isReady)
    <2>1. active /\ charged' = charged /\ lost' = lost
          /\ mined' = mined + Credited(isReady) /\ started' = (started \/ isReady)
      BY <1>3 DEF TickRuns, history
    <2>2. /\ mined \in Nat /\ charged \in Nat /\ lost * MaxIteration \in Nat
          /\ sinceTick \in Nat /\ spent \in 0 .. MaxIteration
      BY OneMoreLost, CapsAreNat, FeeClockAssumption DEF TypeOK
    <2>3. Free + Pending <= Credited(isReady) + Free'
      <3>1. Pending <= spent /\ Pending <= sinceTick /\ Pending \in Nat
        BY <2>2, FeeClockAssumption DEF Pending, AtMost
      <3>2. CASE Iterates /\ started
        <4>1. Free' = Free /\ Credited(isReady) = sinceTick
          BY <2>1, <3>2 DEF Free, Credited
        <4> QED  BY <2>2, <3>1, <4>1, FeeClockAssumption DEF Free
      <3>3. CASE Iterates /\ ~started
        <4>1. Free = 0 /\ Free' = MaxIteration /\ Credited(isReady) = 0
          BY <2>1, <3>3 DEF Free, Credited
        <4> QED  BY <2>2, <3>1, <4>1, FeeClockAssumption
      <3>4. CASE ~Iterates
        <4>1. Pending = 0 /\ Free' >= Free /\ Free \in Nat /\ Free' \in Nat
          <5>1. Pending = 0  BY <3>4 DEF Pending
          <5>2. started => Free' = Free
            BY <2>1 DEF Free
          <5>3. ~started => Free = 0
            BY DEF Free
          <5>4. Free \in Nat /\ Free' \in Nat
            BY FeeClockAssumption DEF Free
          <5> QED  BY <5>1, <5>2, <5>3, <5>4
        <4>2. Credited(isReady) \in Nat
          BY <2>2 DEF Credited
        <4> QED  BY <4>1, <4>2
      <3> QED  BY <3>2, <3>3, <3>4
    <2>4. /\ Free \in Nat /\ Free' \in Nat /\ Pending \in Nat
          /\ Credited(isReady) \in Nat
      BY <2>2, PendingRange, FeeClockAssumption DEF Free, Credited
    <2> QED  BY <2>1, <2>2, <2>3, <2>4 DEF Settled, Ledger
  <1>4. CASE TickCompletes(isReady)
    BY <1>4 DEF TickCompletes, Settled
  <1> QED  BY <1>1, <1>2, <1>3, <1>4 DEF Tick

(* The clock is only looked at by steps that end the window or keep it.    *)
LEMMA TickKeepsHistory ==
    ASSUME NEW isReady, Tick(isReady), ~active'
    PROVE  UNCHANGED <<charged, lost>>
  BY DEF Tick, TickIdle, TickActivates, TickRuns, TickCompletes, history

(* Time that nothing is mined for the developer's pool charges nothing,    *)
(* and what it charges is pending.                                         *)
LEMMA ElapseLedger ==
    ASSUME TypeOK, Ledger, Elapse, lost' = lost,
           /\ Pending' \in Nat /\ Pending' >= Pending
           /\ Mines => Pending' >= Pending + 1
    PROVE  Ledger'
  <1>1. /\ mined \in Nat /\ charged \in Nat /\ lost * MaxIteration \in Nat
        /\ Pending \in Nat /\ Free \in Nat /\ MaxCharged \in Nat
    BY OneMoreLost, CapsAreNat, PendingIsNat, FeeClockAssumption DEF TypeOK
  <1>2. active' = active /\ mined' = mined /\ Free' = Free
    BY DEF Elapse, Free
  <1>3. active /\ Mines => charged' <= charged + 1 /\ charged' \in Nat
    BY <1>1, Capped DEF Elapse
  <1>4. ~(active /\ Mines) => charged' = charged
    BY DEF Elapse
  <1>5. SUFFICES ASSUME active
                 PROVE  charged' <= mined + Free + lost * MaxIteration + Pending'
    BY <1>2 DEF Ledger
  <1>6. charged <= mined + Free + lost * MaxIteration + Pending
    BY <1>5 DEF Ledger
  <1>7. CASE Mines
    BY <1>1, <1>3, <1>5, <1>6, <1>7
  <1>8. CASE ~Mines
    BY <1>1, <1>4, <1>6, <1>8
  <1> QED  BY <1>7, <1>8

LEMMA PassLedger ==
    ASSUME TypeOK, Ledger, Pass
    PROVE  Ledger'
  <1>1. /\ spent \in 0 .. MaxIteration /\ sinceTick \in 0 .. MaxSinceTick
        /\ MaxSinceTick = MaxIteration + 1 /\ MaxIteration \in Nat
    BY FeeClockAssumption DEF TypeOK, MaxSinceTick
  <1>2. /\ spent' = spent + 1 /\ spent + 1 <= MaxIteration
        /\ ready' = ready /\ at' = at
    BY <1>1, FeeClockAssumption DEF Pass, session
  <1>3. sinceTick' = IF sinceTick + 1 > MaxSinceTick THEN MaxSinceTick ELSE sinceTick + 1
    BY DEF Pass, Elapse, AtMost
  <1>4. Iterates' = Iterates
    BY <1>2 DEF Iterates
  <1>5. Pending' \in Nat /\ Pending' >= Pending /\ (Iterates => Pending' >= Pending + 1)
    <2>1. CASE Iterates
      <3>1. /\ Pending  = IF spent > sinceTick THEN sinceTick ELSE spent
            /\ Pending' = IF spent' > sinceTick' THEN sinceTick' ELSE spent'
        BY <1>4, <2>1 DEF Pending, AtMost
      <3> QED  BY <1>1, <1>2, <1>3, <3>1
    <2>2. CASE ~Iterates
      BY <1>4, <2>2 DEF Pending
    <2> QED  BY <2>1, <2>2
  <1>6. Mines => Iterates
    BY DEF Mines, Iterates
  <1> QED  BY <1>5, <1>6, ElapseLedger DEF Pass, Elapse

(* A lost session, or one whose job turned invalid, is paid for by the     *)
(* iteration it adds to the bound.                                         *)
LEMMA LostLedger ==
    ASSUME TypeOK, Ledger, BadNotify \/ Lose
    PROVE  Ledger'
  <1>1. /\ charged' = charged /\ mined' = mined /\ Free' = Free
        /\ active' = active
    BY DEF BadNotify, Lose, clock, Free
  <1>2. ~Iterates'
    BY DEF BadNotify, Lose, Iterates
  <1>3. /\ Pending \in 0 .. MaxIteration /\ Free \in Nat /\ Pending' = 0
        /\ mined \in Nat /\ charged \in Nat /\ lost \in Nat
        /\ lost * MaxIteration \in Nat
    BY <1>2, PendingRange, PendingIsNat, IterationsAreNat, CapsAreNat,
       FeeClockAssumption DEF TypeOK, Pending
  <1>4. SUFFICES ASSUME active
                 PROVE  charged <= mined + Free + lost' * MaxIteration
    BY <1>1, <1>3, IterationsAreNat, FeeClockAssumption
    DEF Ledger, BadNotify, Lose, CountLost
  <1>5. lost' * MaxIteration = lost * MaxIteration + MaxIteration
    BY <1>3, <1>4, OneMoreLost DEF BadNotify, Lose, CountLost
  <1> QED  BY <1>1, <1>3, <1>4, <1>5, FeeClockAssumption DEF Ledger

LEMMA NextLedger ==
    ASSUME TypeOK, TypeOK', Ledger, [Next]_vars
    PROVE  Ledger'
  <1>1. CASE Start
    <2>1. Settled'
      BY <1>1, TickSettles DEF Start, Iterates
    <2> QED  BY <2>1, SettledLedger
  <1>2. CASE Head
    <2>1. Settled'
      BY <1>2, TickSettles DEF Head, Iterates
    <2> QED  BY <2>1, SettledLedger
  <1>3. CASE Report
    <2>1. CASE Tick(ready)
      <3>1. Settled'
        BY <2>1, TickSettles DEF Iterates
      <3> QED  BY <3>1, SettledLedger
    <2>2. CASE UNCHANGED <<clock, sinceTick, history>>
      BY <1>3, <2>2 DEF Report, clock, history, Ledger, Free, Pending, Iterates
    <2> QED  BY <1>3, <2>1, <2>2 DEF Report
  <1>4. CASE Pass
    BY <1>4, PassLedger
  <1>5. CASE Reconnect
    <2>1. Pending = 0 /\ Pending' = 0 /\ ~Mines
      BY <1>5 DEF Reconnect, Pending, Iterates, Mines
    <2> QED  BY <1>5, <2>1, ElapseLedger DEF Reconnect, Elapse
  <1>6. CASE Connect \/ BecomeReady
    <2>1. Pending = 0
      BY <1>6 DEF Connect, BecomeReady, Pending, Iterates
    <2>2. Settled
      <3>1. mined \in Nat /\ Free \in Nat /\ lost * MaxIteration \in Nat
        BY PendingIsNat, OneMoreLost, CapsAreNat, FeeClockAssumption DEF TypeOK
      <3> QED  BY <2>1, <3>1 DEF Ledger, Settled
    <2>3. UNCHANGED <<active, started, mined, charged, lost>>
      BY <1>6 DEF Connect, BecomeReady, clock, history
    <2>4. Settled'
      BY <2>2, <2>3 DEF Settled, Free
    <2> QED  BY <2>4, SettledLedger
  <1>7. CASE Pumped \/ Mined \/ UNCHANGED vars
    <2>1. UNCHANGED <<clock, time, ready, history>>
      BY <1>7 DEF Pumped, Mined, vars, session
    <2>2. Iterates' = Iterates
      BY <1>7 DEF Pumped, Mined, Iterates, vars, session
    <2>3. Pending' = Pending /\ Free' = Free
      BY <2>1, <2>2 DEF Pending, Free, time, clock
    <2> QED  BY <2>1, <2>3 DEF Ledger, clock, history
  <1>8. CASE BadNotify \/ Lose
    BY <1>8, LostLedger
  <1> QED  BY <1>1, <1>2, <1>3, <1>4, <1>5, <1>6, <1>7, <1>8 DEF Next, ThreadStep

(* A closed window's history stays.                                        *)
LEMMA ClosedHistory ==
    ASSUME [Next]_vars, ~active'
    PROVE  UNCHANGED <<charged, lost>>
  <1>1. CASE Start \/ Head \/ Report
    BY <1>1, TickKeepsHistory DEF Start, Head, Report, history
  <1>2. CASE Pass \/ Reconnect
    BY <1>2 DEF Pass, Reconnect, Elapse
  <1>3. CASE Connect \/ Pumped \/ Mined \/ BecomeReady \/ BadNotify \/ Lose
             \/ UNCHANGED vars
    BY <1>3 DEF Connect, Pumped, Mined, BecomeReady, BadNotify, Lose, CountLost,
                vars, clock, history
  <1> QED  BY <1>1, <1>2, <1>3 DEF Next, ThreadStep

LEMMA LedgerCorrect == Spec => []ChargeInv
  <1>1. Init => ChargeInv
    <2> SUFFICES ASSUME Init PROVE Ledger /\ ChargeBounded
      BY InitType DEF ChargeInv
    <2> QED  BY FeeClockAssumption DEF Init, Ledger, ChargeBounded
  <1>2. ChargeInv /\ [Next]_vars => ChargeInv'
    <2> SUFFICES ASSUME ChargeInv, [Next]_vars PROVE ChargeInv'
      OBVIOUS
    <2>1. TypeOK'         BY NextType DEF ChargeInv
    <2>2. Ledger'         BY <2>1, NextLedger DEF ChargeInv
    <2>3. ChargeBounded'  BY <2>1, <2>2, NextBounds, ClosedHistory DEF ChargeInv
    <2> QED  BY <2>1, <2>2, <2>3 DEF ChargeInv
  <1> QED  BY <1>1, <1>2, PTL DEF Spec

(* A fee window costs the user the fee's duration, the iteration before    *)
(* the clock starts, one that overshoots and one per lost session, and no  *)
(* more.                                                                   *)
THEOREM ChargeCorrect == Spec => []ChargeBounded
  <1>1. ChargeInv => ChargeBounded
    BY DEF ChargeInv
  <1> QED  BY <1>1, LedgerCorrect, PTL

(* The bound the model puts on the charge to stay finite is never reached: *)
(* ChargeBounded does not hold because the model stops counting.           *)
Uncapped == charged < MaxCharged

LEMMA MoreLost ==
    ASSUME NEW n \in Nat, NEW m \in Nat, n <= m
    PROVE  n * MaxIteration <= m * MaxIteration
  <1>1. PICK d \in Nat : m = n + d
    OBVIOUS
  <1>2. m * MaxIteration = n * MaxIteration + d * MaxIteration
    BY <1>1, FeeClockAssumption
  <1> QED  BY <1>2, IterationsAreNat

LEMMA BoundedIsUncapped == ChargeInv => Uncapped
  <1> SUFFICES ASSUME ChargeInv PROVE Uncapped
    OBVIOUS
  <1>1. /\ lost + 2 \in Nat /\ MaxLost + 2 \in Nat /\ lost + 2 <= MaxLost + 2
        /\ charged \in Nat
    BY FeeClockAssumption, CapsAreNat DEF ChargeInv, TypeOK
  <1>2. (lost + 2) * MaxIteration <= (MaxLost + 2) * MaxIteration
    BY <1>1, MoreLost
  <1>3. (lost + 2) * MaxIteration \in Nat /\ (MaxLost + 2) * MaxIteration \in Nat
    BY <1>1, IterationsAreNat
  <1>4. (MaxLost + 2) * (MaxIteration + 1) = (MaxLost + 2) * MaxIteration + MaxLost + 2
    BY <1>1, FeeClockAssumption
  <1> QED
    BY <1>1, <1>2, <1>3, <1>4, FeeClockAssumption
    DEF ChargeInv, ChargeBounded, Uncapped, MaxCharged

THEOREM ChargeUncapped == Spec => []Uncapped
  <1> QED  BY BoundedIsUncapped, LedgerCorrect, PTL
================================================================================
