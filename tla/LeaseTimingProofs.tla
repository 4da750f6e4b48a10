--------------------------- MODULE LeaseTimingProofs ---------------------------
(***************************************************************************)
(* The proofs about LeaseTiming: its type invariant, that a holder which   *)
(* cannot renew stops at the deadline (StopsAtDeadline), how old a         *)
(* confirmation gets while the store answers (StalenessBounded), and which *)
(* outage every holder survives (SurvivesShortOutage), for any validity,   *)
(* renewal and check interval, renewal timeout and start delay that the    *)
(* assumption admits, and an outage of any length.                         *)
(***************************************************************************)
EXTENDS LeaseTiming, TLAPS

USE TimingAssumption

-----------------------------------------------------------------------------
(* The inductive invariant. *)

\* The deadline timer is never set beyond the deadline, and no request was
\* sent before the confirmation it renews.
DeadlineInv ==
    /\ age <= Validity /\ waited <= age
    /\ ~ lost => age + toLapse <= Validity

\* A renewal starts within StartDelay of its tick, so before the next one.
StartInv ==
    ~ lost /\ renewal = "spawned" => waited <= StartDelay /\ waited + toTick = CheckInterval

\* The oldest age at which a renewal can be due, one of the last tick's
\* before, and the oldest at which it is sent.
Due == RenewInterval + CheckInterval - 1
Oldest == Due + StartDelay

\* Before the outage: every renewal that is sent is answered.
CalmInv ==
    outage = 0 =>
        /\ down = 0 /\ ~ late /\ ~ ahead /\ ~ lost
        /\ renewal = "none" => age + toTick <= Due
        /\ renewal = "spawned" => age <= Due + waited
        /\ renewal = "update" => age <= Oldest /\ waited = 0
        /\ renewal # "reread"

\* During the outage the lease only ages.
OutageInv ==
    down > 0 /\ ~ lost =>
        /\ outage > 0 /\ ~ ahead /\ renewal # "reread"
        /\ age <= Oldest + (outage - down)

\* Afterwards: with a revision to re-adopt, the next tick's renewal is refused
\* and the one after that renews; without one, the next tick's does.
Reach == Oldest + outage

AfterInv ==
    outage > 0 /\ down = 0 /\ ~ lost =>
        /\ ~ late
        /\ renewal = "none" =>
              age + toTick <= Reach + CheckInterval - 1 + (IF ahead THEN 0 ELSE CheckInterval)
        /\ renewal = "spawned" =>
              age <= Reach + CheckInterval - 1 + waited + (IF ahead THEN 0 ELSE CheckInterval)
        /\ renewal \in {"update", "reread"} =>
              /\ waited <= Reach
              /\ age <= Reach + 2 * CheckInterval - 1 + StartDelay
              /\ ahead => age + toTick <= Reach + 2 * CheckInterval - 1
              /\ ahead => toTick > 0 \/ age <= Reach
        /\ renewal = "reread" => ahead

IInv ==
    /\ TypeOK /\ DeadlineInv /\ StartInv
    /\ CalmInv /\ OutageInv /\ AfterInv /\ SurvivesShortOutage

Inv == DeadlineInv /\ StartInv /\ CalmInv /\ OutageInv /\ AfterInv

-----------------------------------------------------------------------------
(* Each step keeps the invariant. *)

LEMMA LapseType ==
    ASSUME NEW t \in Nat
    PROVE  /\ UntilLapse(t) \in 0 .. Validity
           /\ t <= Validity => t + UntilLapse(t) <= Validity
    BY DEF UntilLapse

LEMMA TickStep ==
    ASSUME TypeOK, Inv, TickFires
    PROVE  TypeOK' /\ Inv'
    <1>1. TypeOK'
        BY DEF TickFires, TypeOK, store, request, Expired
    <1>2. DeadlineInv' /\ StartInv'
        BY DEF TickFires, TypeOK, store, request, Inv, DeadlineInv, StartInv
    <1>3. CalmInv'
        BY DEF TickFires, TypeOK, store, request, Expired, Inv, DeadlineInv, StartInv,
               CalmInv, Due, Oldest
    <1>4. OutageInv'
        BY DEF TickFires, TypeOK, store, request, Expired, Inv, OutageInv, Due, Oldest
    <1>5. AfterInv'
      <2>1. /\ toTick = 0 /\ toTick' = CheckInterval /\ ~ lost
            /\ UNCHANGED <<age, late, ahead, outage, down>>
          BY DEF TickFires, store
      <2>2. CASE renewal = "none" /\ age >= RenewInterval /\ ~ Expired
        <3>1. renewal' = "spawned" /\ waited' = 0
            BY <2>2 DEF TickFires
        <3> QED
            BY <2>1, <2>2, <3>1 DEF TypeOK, Inv, AfterInv, Reach, Due, Oldest
      <2>3. CASE ~ (renewal = "none" /\ age >= RenewInterval /\ ~ Expired)
        <3>1. UNCHANGED <<renewal, waited>> /\ lost' = Expired
            BY <2>3 DEF TickFires, request
        <3>2. ~ lost' /\ renewal = "none" => age < RenewInterval
            BY <2>3, <3>1 DEF TypeOK
        <3> QED
            BY <2>1, <3>1, <3>2 DEF TypeOK, Inv, StartInv, AfterInv, Reach, Due, Oldest
      <2> QED
          BY <2>2, <2>3
    <1> QED
        BY <1>1, <1>2, <1>3, <1>4, <1>5 DEF Inv

LEMMA DeadlineStep ==
    ASSUME TypeOK, Inv, DeadlineFires
    PROVE  TypeOK' /\ Inv'
    <1>1. age \in Nat /\ UntilLapse(age) \in 0 .. Validity
        BY LapseType DEF TypeOK
    <1>2. TypeOK'
        BY <1>1 DEF DeadlineFires, TypeOK, store, request, Expired
    <1>3. age + UntilLapse(age) <= Validity
        BY LapseType DEF TypeOK, Inv, DeadlineInv
    <1>4. DeadlineInv' /\ StartInv'
        BY <1>3 DEF DeadlineFires, TypeOK, store, request, Inv, DeadlineInv, StartInv
    <1>5. CalmInv'
        BY DEF DeadlineFires, TypeOK, store, request, Expired, Inv, StartInv, CalmInv,
               Due, Oldest
    <1>6. OutageInv' /\ AfterInv'
        BY DEF DeadlineFires, TypeOK, store, request, Expired, Inv, OutageInv, AfterInv,
               Reach, Due, Oldest
    <1> QED
        BY <1>2, <1>4, <1>5, <1>6 DEF Inv

LEMMA SendStep ==
    ASSUME TypeOK, Inv, SendUpdate
    PROVE  TypeOK' /\ Inv'
    <1>1. TypeOK'
        BY DEF SendUpdate, TypeOK, timers, store
    <1>2. DeadlineInv' /\ StartInv'
        BY DEF SendUpdate, TypeOK, timers, store, Inv, DeadlineInv, StartInv
    <1>3. CalmInv' /\ OutageInv'
        BY DEF SendUpdate, TypeOK, timers, store, Inv, StartInv, CalmInv, OutageInv, Due,
               Oldest
    <1>4. AfterInv'
        BY DEF SendUpdate, TypeOK, timers, store, Inv, StartInv, AfterInv, Reach, Due,
               Oldest
    <1> QED
        BY <1>1, <1>2, <1>3, <1>4 DEF Inv

LEMMA AckStep ==
    ASSUME TypeOK, Inv, UpdateAcked
    PROVE  TypeOK' /\ Inv'
    <1>1. waited \in Nat /\ UntilLapse(waited) \in 0 .. Validity
        BY LapseType DEF TypeOK
    <1>2. waited + UntilLapse(waited) <= Validity
        BY LapseType DEF TypeOK, Inv, DeadlineInv
    <1>3. TypeOK'
      <2>1. CASE Expired
          BY <2>1 DEF UpdateAcked, TypeOK, store
      <2>2. CASE ~ Expired
          BY <1>1, <2>2 DEF UpdateAcked, Outcome, TypeOK, store
      <2> QED
          BY <2>1, <2>2
    <1>4. DeadlineInv' /\ StartInv'
        BY <1>2 DEF UpdateAcked, Outcome, TypeOK, store, Inv, DeadlineInv, StartInv
    <1>5. CalmInv'
        BY DEF UpdateAcked, Outcome, TypeOK, store, Expired, Inv, CalmInv, Due, Oldest
    <1>6. OutageInv' /\ AfterInv'
        BY DEF UpdateAcked, Outcome, TypeOK, store, Writable, Inv, DeadlineInv,
               OutageInv, AfterInv, Reach, Due, Oldest
    <1> QED
        BY <1>3, <1>4, <1>5, <1>6 DEF Inv

LEMMA RefusedStep ==
    ASSUME TypeOK, Inv, UpdateRefused
    PROVE  TypeOK' /\ Inv'
    <1>1. TypeOK'
        BY DEF UpdateRefused, TypeOK, timers, store
    <1>2. DeadlineInv' /\ StartInv'
        BY DEF UpdateRefused, TypeOK, timers, store, Inv, DeadlineInv, StartInv
    <1>3. CalmInv' /\ OutageInv'
        BY DEF UpdateRefused, TypeOK, timers, store, Writable, Inv, CalmInv, OutageInv,
               Due, Oldest
    <1>4. AfterInv'
        BY DEF UpdateRefused, TypeOK, timers, store, Inv, AfterInv, Reach, Due, Oldest
    <1> QED
        BY <1>1, <1>2, <1>3, <1>4 DEF Inv

LEMMA ReadoptStep ==
    ASSUME TypeOK, Inv, Readopt
    PROVE  TypeOK' /\ Inv'
    <1>1. age \in Nat /\ UntilLapse(age) \in 0 .. Validity
        BY LapseType DEF TypeOK
    <1>2. age + UntilLapse(age) <= Validity
        BY LapseType DEF TypeOK, Inv, DeadlineInv
    <1>3. TypeOK'
        BY <1>1 DEF Readopt, Outcome, TypeOK
    <1>4. DeadlineInv' /\ StartInv'
        BY <1>2 DEF Readopt, Outcome, TypeOK, Inv, DeadlineInv, StartInv
    <1>5. CalmInv' /\ OutageInv'
        BY DEF Readopt, Outcome, TypeOK, Writable, Inv, CalmInv, OutageInv, Due, Oldest
    <1>6. AfterInv'
        BY DEF Readopt, Outcome, TypeOK, Inv, AfterInv, Reach, Due, Oldest
    <1> QED
        BY <1>3, <1>4, <1>5, <1>6 DEF Inv

LEMMA GiveUpStep ==
    ASSUME TypeOK, Inv, RequestFails \/ RequestTimesOut
    PROVE  TypeOK' /\ Inv'
    <1>0. /\ ~ lost /\ lost' = lost /\ down # 0
          /\ renewal \in {"update", "reread"}
          /\ UNCHANGED <<toTick, ahead, outage, down>>
          /\ renewal' = "none" /\ waited' = 0 /\ age' = age
          /\ toLapse' = UntilLapse(age)
        BY DEF RequestFails, RequestTimesOut, Outcome, store, Writable
    <1>1. age \in Nat /\ UntilLapse(age) \in 0 .. Validity
        BY LapseType DEF TypeOK
    <1>2. age + UntilLapse(age) <= Validity
        BY LapseType DEF TypeOK, Inv, DeadlineInv
    <1>3. late' \in BOOLEAN
        BY DEF RequestFails, RequestTimesOut, store, TypeOK
    <1>4. TypeOK'
        BY <1>0, <1>1, <1>3 DEF TypeOK
    <1>5. DeadlineInv' /\ StartInv'
        BY <1>0, <1>2 DEF TypeOK, Inv, DeadlineInv, StartInv
    <1>6. CalmInv' /\ OutageInv' /\ AfterInv'
        BY <1>0 DEF TypeOK, Inv, CalmInv, OutageInv, AfterInv, Due, Oldest, Reach
    <1> QED
        BY <1>4, <1>5, <1>6 DEF Inv

LEMMA OutageStep ==
    ASSUME TypeOK, Inv, OutageBegins
    PROVE  TypeOK' /\ Inv'
    <1>1. TypeOK'
        BY DEF OutageBegins, TypeOK, timers, request
    <1>2. DeadlineInv' /\ StartInv'
        BY DEF OutageBegins, TypeOK, timers, request, Inv, DeadlineInv, StartInv
    <1>3. PICK length \in 1 .. MaxOutage : outage' = length /\ down' = length
        BY DEF OutageBegins
    <1>4. age' = age /\ age <= Oldest
        BY DEF OutageBegins, TypeOK, Inv, StartInv, CalmInv, Due, Oldest
    <1>5. ~ ahead' /\ renewal' # "reread"
        BY DEF OutageBegins, TypeOK, request, Inv, CalmInv
    <1>6. CalmInv' /\ AfterInv'
        BY <1>3 DEF CalmInv, AfterInv
    <1>7. age' <= Oldest + (outage' - down')
        BY <1>3, <1>4 DEF TypeOK, Due, Oldest
    <1>8. OutageInv'
        BY <1>3, <1>5, <1>7 DEF OutageInv, Oldest, Due
    <1> QED
        BY <1>1, <1>2, <1>6, <1>8 DEF Inv

LEMMA TimeStep ==
    ASSUME TypeOK, Inv, TimePasses
    PROVE  TypeOK' /\ Inv'
    <1>1. TypeOK'
        BY DEF TimePasses, Settled, TypeOK, timers, request
    <1>2. CASE lost
      <2>1. UNCHANGED <<age, toTick, toLapse, renewal, waited, outage, lost>>
          BY <1>2 DEF TimePasses, timers, request
      <2>2. outage > 0
          BY <1>2 DEF Inv, CalmInv, TypeOK
      <2> QED
          BY <1>1, <1>2, <2>1, <2>2
          DEF Inv, DeadlineInv, StartInv, CalmInv, OutageInv, AfterInv
    <1>3. CASE ~ lost
      <2>1. /\ age' = age + 1 /\ toTick' = toTick - 1 /\ toLapse' = toLapse - 1
            /\ renewal' = renewal /\ outage' = outage /\ lost' = lost
            /\ waited' = (IF renewal = "none" THEN 0 ELSE waited + 1)
            /\ down' = (IF down = 0 THEN 0 ELSE down - 1)
            /\ toTick > 0 /\ toLapse > 0
            /\ renewal = "spawned" => waited < StartDelay
            /\ renewal \in {"update", "reread"} => down # 0
          BY <1>3 DEF TimePasses, Settled, Writable
      <2>2. /\ down # 1 => ahead' = ahead
            /\ late' => late /\ down # 1
          BY DEF TimePasses, TypeOK
      <2>3. DeadlineInv' /\ StartInv'
          BY <1>3, <2>1 DEF TypeOK, Inv, DeadlineInv, StartInv
      <2>4. CalmInv'
          BY <1>3, <2>1, <2>2 DEF TypeOK, Inv, StartInv, CalmInv, Due, Oldest
      <2>5. OutageInv'
          BY <1>3, <2>1, <2>2 DEF TypeOK, Inv, OutageInv, Due, Oldest
      <2>6. AfterInv'
        <3>1. CASE down = 0
            BY <1>3, <2>1, <2>2, <3>1 DEF TypeOK, Inv, AfterInv, Reach, Due, Oldest
        <3>2. CASE down = 1
          <4>1. age' <= Reach' /\ age' + toTick' <= Reach' + CheckInterval - 1
              BY <1>3, <2>1, <3>2 DEF TypeOK, Inv, OutageInv, Reach, Due, Oldest
          <4>2. waited' <= age' /\ ~ late' /\ renewal' # "reread"
              BY <1>3, <2>1, <2>2, <2>3, <3>2 DEF TypeOK, Inv, OutageInv, DeadlineInv
          <4>3. /\ age' \in Int /\ waited' \in Nat /\ toTick' \in 0 .. CheckInterval
                /\ Reach' \in Int
              BY <1>1 DEF TypeOK, Reach, Due, Oldest
          <4>4. PICK r \in Int : r = Reach'
              BY <4>3
          <4>5. PICK a \in Int, w \in Nat, t \in 0 .. CheckInterval :
                   a = age' /\ w = waited' /\ t = toTick'
              BY <4>3
          <4>6. a <= r /\ a + t <= r + CheckInterval - 1 /\ w <= a
              BY <4>1, <4>2, <4>4, <4>5
          <4>7. /\ a + t <= r + CheckInterval - 1 + CheckInterval
                /\ a <= r + CheckInterval - 1 + w
                /\ a <= r + CheckInterval - 1 + w + CheckInterval
                /\ w <= r
                /\ a <= r + 2 * CheckInterval - 1 + StartDelay
                /\ a + t <= r + 2 * CheckInterval - 1
              BY <4>6
          <4>8. CASE ahead'
            <5>1. ahead' = TRUE
                BY <1>1, <4>8 DEF TypeOK
            <5>2. a + t <= r + CheckInterval - 1 + 0 /\ a <= r + CheckInterval - 1 + w + 0
                BY <4>6, <4>7
            <5> QED
                BY <4>2, <4>4, <4>5, <4>6, <4>7, <5>1, <5>2 DEF AfterInv
          <4>9. CASE ~ ahead'
              BY <4>2, <4>4, <4>5, <4>6, <4>7, <4>9 DEF AfterInv
          <4> QED
              BY <4>8, <4>9
        <3>3. CASE down > 1
            BY <2>1, <3>3 DEF TypeOK, AfterInv
        <3> QED
            BY <3>1, <3>2, <3>3 DEF TypeOK
      <2> QED
          BY <1>1, <2>3, <2>4, <2>5, <2>6 DEF Inv
    <1> QED
        BY <1>2, <1>3

-----------------------------------------------------------------------------
(* Losing the lease. *)

\* A lease that is not lost yet is too young to lapse after a short outage.
LEMMA YoungEnough ==
    ASSUME TypeOK, Inv, ~ lost, outage <= Survivable
    PROVE  age < Validity
    <1>1. CASE outage = 0
        BY <1>1 DEF TypeOK, Inv, StartInv, CalmInv, Due, Oldest
    <1>2. CASE down > 0
        BY <1>2 DEF TypeOK, Inv, OutageInv, Due, Oldest, Survivable
    <1>3. CASE outage > 0 /\ down = 0
        BY <1>3 DEF TypeOK, Inv, StartInv, AfterInv, Reach, Due, Oldest, Survivable
    <1> QED
        BY <1>1, <1>2, <1>3 DEF TypeOK

LEMMA SurviveStep ==
    ASSUME TypeOK, Inv, SurvivesShortOutage, Next
    PROVE  SurvivesShortOutage'
    <1>1. CASE outage' = outage /\ (lost' => lost \/ age >= Validity)
        BY <1>1, YoungEnough DEF SurvivesShortOutage, Survivable, TypeOK
    <1>2. CASE OutageBegins
        BY <1>2 DEF OutageBegins, Inv, CalmInv, SurvivesShortOutage
    <1>3. CASE Loop \/ TimePasses
        BY <1>1, <1>3 DEF Loop, TickFires, DeadlineFires, SendUpdate, UpdateAcked,
           UpdateRefused, Readopt, RequestFails, RequestTimesOut, TimePasses, Expired, store
    <1> QED
        BY <1>2, <1>3 DEF Next

-----------------------------------------------------------------------------
(* The theorems. *)

LEMMA InitInv == Init => IInv
    <1> SUFFICES ASSUME Init PROVE IInv
        OBVIOUS
    <1>1. TypeOK
      <2>1. CheckInterval \in 0 .. CheckInterval /\ Validity \in 0 .. Validity
          OBVIOUS
      <2>2. 0 \in 0 .. MaxOutage /\ 0 \in 0 .. 0
          OBVIOUS
      <2> QED
          BY <2>1, <2>2 DEF Init, TypeOK
    <1>2. DeadlineInv /\ StartInv /\ CalmInv
        BY DEF Init, DeadlineInv, StartInv, CalmInv, Due, Oldest
    <1>3. OutageInv /\ AfterInv /\ SurvivesShortOutage
        BY DEF Init, OutageInv, AfterInv, SurvivesShortOutage
    <1> QED
        BY <1>1, <1>2, <1>3 DEF IInv

LEMMA NextInv == IInv /\ [Next]_vars => IInv'
    <1> SUFFICES ASSUME IInv, [Next]_vars PROVE IInv'
        OBVIOUS
    <1>1. TypeOK /\ Inv /\ SurvivesShortOutage
        BY DEF IInv, Inv
    <1>2. CASE Next
      <2>1. TypeOK' /\ Inv'
          BY <1>1, <1>2, TickStep, DeadlineStep, SendStep, AckStep, RefusedStep,
             ReadoptStep, GiveUpStep, OutageStep, TimeStep
          DEF Next, Loop
      <2> QED
          BY <1>1, <1>2, <2>1, SurviveStep DEF IInv, Inv
    <1>3. CASE UNCHANGED vars
        BY <1>1, <1>3
        DEF vars, IInv, Inv, TypeOK, DeadlineInv, StartInv, CalmInv, OutageInv, AfterInv,
            SurvivesShortOutage, Reach
    <1> QED
        BY <1>2, <1>3

LEMMA Invariance == Spec => []IInv
    BY InitInv, NextInv, PTL DEF Spec

\* The variables of the renew loop keep their types: in particular neither timer
\* is re-armed beyond its interval, and none runs below zero.
THEOREM TypeCorrect == Spec => []TypeOK
    <1>1. IInv => TypeOK
        BY DEF IInv
    <1> QED
        BY <1>1, Invariance, PTL

\* A holder that cannot renew is fenced at the deadline itself, whatever
\* renewals, refusals, timeouts and re-reads re-armed the deadline timer before.
THEOREM Deadline == Spec => []StopsAtDeadline
    <1>1. IInv => StopsAtDeadline
        BY DEF IInv, DeadlineInv, StopsAtDeadline
    <1> QED
        BY <1>1, Invariance, PTL

\* While the store answers, no confirmation gets older than the renewal
\* interval, one check interval and the start of the renewal.
THEOREM Staleness == Spec => []StalenessBounded
    <1>1. IInv => StalenessBounded
        BY DEF IInv, TypeOK, StartInv, CalmInv, Due, Oldest, StalenessBounded
    <1> QED
        BY <1>1, Invariance, PTL

\* No lease is surrendered for an outage of at most Survivable: the renewal that
\* an abandoned one makes the store refuse, and the one after it, come in time.
THEOREM Survival == Spec => []SurvivesShortOutage
    <1>1. IInv => SurvivesShortOutage
        BY DEF IInv
    <1> QED
        BY <1>1, Invariance, PTL
=============================================================================
