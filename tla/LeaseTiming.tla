----------------------------- MODULE LeaseTiming -----------------------------
(***************************************************************************)
(* The timing of one lease's renewLoop (volume_lease.go): the check        *)
(* ticker, the deadline timer, the renewal goroutine with its timeout and  *)
(* re-read, and a lease store that is unwritable for one stretch of time.  *)
(* No peer takes the entry here; VolumeLease is about that.  The question  *)
(* is which outage the holder survives, and when it stops if it does not.  *)
(*                                                                         *)
(* Time passes in units.  A timer that is due, and an answer the store can *)
(* give, happen before the next unit; only the start of the renewal        *)
(* goroutine may take up to StartDelay units after the tick that spawned   *)
(* it.  A request the store cannot serve waits until it recovers, fails at *)
(* once, or is given up at the renewal timeout.                            *)
(***************************************************************************)
EXTENDS Integers

CONSTANTS
    Validity,        \* volumeLeaseValidity
    RenewInterval,   \* volumeLeaseRenewInterval
    CheckInterval,   \* volumeLeaseCheckInterval
    RenewTimeout,    \* volumeLeaseRenewTimeout
    StartDelay,      \* from a tick to the renewal's clock reading, at most
    MaxOutage        \* the longest outage explored

ASSUME TimingAssumption ==
    /\ Validity \in Nat /\ RenewInterval \in Nat \ {0} /\ RenewTimeout \in Nat
    /\ CheckInterval \in Nat /\ StartDelay \in Nat /\ MaxOutage \in Nat
    /\ StartDelay < CheckInterval
    /\ RenewInterval + CheckInterval + StartDelay < Validity

VARIABLES
    age,       \* since lease.confirmed
    toTick,    \* until the ticker fires
    toLapse,   \* until the deadline timer fires
    renewal,   \* where the renewal goroutine is
    waited,    \* since it was spawned, or since it sent its request
    late,      \* the store will still apply a renewal that was given up
    ahead,     \* the store has applied one: the next renewal is refused
    outage,    \* length of the outage, 0 while there was none
    down,      \* what is left of it
    lost

vars == <<age, toTick, toLapse, renewal, waited, late, ahead, outage, down, lost>>

TypeOK ==
    /\ age \in Nat
    /\ toTick \in 0 .. CheckInterval
    /\ toLapse \in 0 .. Validity
    /\ renewal \in {"none", "spawned", "update", "reread"}
    /\ waited \in Nat
    /\ late \in BOOLEAN /\ ahead \in BOOLEAN /\ lost \in BOOLEAN
    /\ outage \in 0 .. MaxOutage
    /\ down \in 0 .. outage

\* acquire has just put the lease in held; the loop arms its two timers.
Init ==
    /\ age = 0 /\ toTick = CheckInterval /\ toLapse = Validity
    /\ renewal = "none" /\ waited = 0
    /\ late = FALSE /\ ahead = FALSE
    /\ outage = 0 /\ down = 0 /\ lost = FALSE

Writable == down = 0
Expired == age >= Validity
\* Mutant of UntilLapse: every outcome re-arms the full validity.
UntilLapseFull(elapsed) == IF elapsed >= Validity THEN 0 ELSE Validity
UntilLapse(elapsed) == IF elapsed >= Validity THEN 0 ELSE Validity - elapsed

timers == <<toTick, toLapse>>
request == <<renewal, waited>>
store == <<late, ahead, outage, down>>

\* The renewal goroutine ends and the loop re-arms the deadline.
Outcome(elapsed) ==
    /\ renewal' = "none" /\ waited' = 0
    /\ age' = elapsed
    /\ toLapse' = UntilLapse(elapsed)

-----------------------------------------------------------------------------
(* The loop. *)

\* Mutant of TickFires: a renewal is due only past the interval.
TickFiresLate ==
    /\ ~ lost
    /\ toTick = 0
    /\ toTick' = CheckInterval
    /\ lost' = Expired
    /\ IF ~ Expired /\ renewal = "none" /\ age > RenewInterval
       THEN renewal' = "spawned" /\ waited' = 0
       ELSE UNCHANGED request
    /\ UNCHANGED <<age, toLapse, store>>

\* ticker.C: surrender a lapsed lease, or start a renewal that is due.
TickFires ==
    /\ ~ lost
    /\ toTick = 0
    /\ toTick' = CheckInterval
    /\ lost' = Expired
    /\ IF ~ Expired /\ renewal = "none" /\ age >= RenewInterval
       THEN renewal' = "spawned" /\ waited' = 0
       ELSE UNCHANGED request
    /\ UNCHANGED <<age, toLapse, store>>

\* deadline.C: surrender a lapsed lease, or wait for the deadline that moved.
DeadlineFires ==
    /\ ~ lost
    /\ toLapse = 0
    /\ lost' = Expired
    /\ toLapse' = UntilLapse(age)
    /\ UNCHANGED <<age, toTick, request, store>>

-----------------------------------------------------------------------------
(* The renewal goroutine. *)

\* renew notes the time and sends the conditional update.
SendUpdate ==
    /\ ~ lost
    /\ renewal = "spawned"
    /\ renewal' = "update" /\ waited' = 0
    /\ UNCHANGED <<age, timers, store, lost>>

\* The update is acknowledged: confirmed becomes the time it was sent, unless
\* the lease lapsed meanwhile.
UpdateAcked ==
    /\ ~ lost
    /\ renewal = "update" /\ Writable /\ ~ ahead
    /\ IF Expired
       THEN /\ lost' = TRUE
            /\ renewal' = "none" /\ waited' = 0
            /\ UNCHANGED <<age, toLapse>>
       ELSE Outcome(waited) /\ UNCHANGED lost
    /\ UNCHANGED <<toTick, store>>

\* Mutant of UpdateRefused: a refusal is taken for a peer's write.
UpdateRefusedLoses ==
    /\ ~ lost
    /\ renewal = "update" /\ Writable /\ ahead
    /\ lost' = TRUE
    /\ renewal' = "none" /\ waited' = 0
    /\ UNCHANGED <<age, timers, store>>

\* The update is refused because an earlier one was applied after all.
UpdateRefused ==
    /\ ~ lost
    /\ renewal = "update" /\ Writable /\ ahead
    /\ renewal' = "reread" /\ waited' = 0
    /\ UNCHANGED <<age, timers, store, lost>>

\* Mutant of Readopt: the revision read is not kept.
ReadoptKeepsRevision ==
    /\ ~ lost
    /\ renewal = "reread" /\ Writable
    /\ Outcome(age)
    /\ UNCHANGED <<toTick, store, lost>>

\* readopt adopts the revision; the lease is no younger for it.
Readopt ==
    /\ ~ lost
    /\ renewal = "reread" /\ Writable
    /\ ahead' = FALSE
    /\ Outcome(age)
    /\ UNCHANGED <<toTick, late, outage, down, lost>>

\* The store refuses at once (no responders, no leader).
RequestFails ==
    /\ ~ lost
    /\ renewal \in {"update", "reread"} /\ ~ Writable
    /\ Outcome(age)
    /\ UNCHANGED <<toTick, store, lost>>

\* The renewal timeout: an update given up may still be applied.
RequestTimesOut ==
    /\ ~ lost
    /\ renewal \in {"update", "reread"} /\ ~ Writable
    /\ waited >= RenewTimeout
    /\ late' \in {late, late \/ renewal = "update"}
    /\ Outcome(age)
    /\ UNCHANGED <<toTick, ahead, outage, down, lost>>

-----------------------------------------------------------------------------
(* The store and the clock. *)

OutageBegins ==
    /\ outage = 0
    /\ \E length \in 1 .. MaxOutage : outage' = length /\ down' = length
    /\ UNCHANGED <<age, timers, request, late, ahead, lost>>

\* Mutant of Settled: the loop runs the renewal itself and serves no timer meanwhile.
SettledInline ==
    \/ lost
    \/ /\ (toTick > 0 /\ toLapse > 0) \/ renewal \in {"update", "reread"}
       /\ renewal = "spawned" => waited < StartDelay
       /\ renewal \in {"update", "reread"} => ~ Writable /\ waited < RenewTimeout

\* Nothing is overdue, so time may pass.
Settled ==
    \/ lost
    \/ /\ toTick > 0 /\ toLapse > 0
       /\ renewal = "spawned" => waited < StartDelay
       /\ renewal \in {"update", "reread"} => ~ Writable /\ waited < RenewTimeout

\* A store that recovers first applies what it still holds.
TimePasses ==
    /\ Settled
    /\ down' = IF down = 0 THEN 0 ELSE down - 1
    /\ late' = (late /\ down # 1)
    /\ ahead' = (ahead \/ (late /\ down = 1))
    /\ IF lost THEN UNCHANGED <<age, timers, request>>
       ELSE /\ age' = age + 1
            /\ toTick' = toTick - 1 /\ toLapse' = toLapse - 1
            /\ waited' = IF renewal = "none" THEN 0 ELSE waited + 1
            /\ UNCHANGED renewal
    /\ UNCHANGED <<outage, lost>>

Loop ==
    \/ TickFires \/ DeadlineFires \/ SendUpdate \/ UpdateAcked \/ UpdateRefused
    \/ Readopt \/ RequestFails \/ RequestTimesOut

Next == Loop \/ OutageBegins \/ TimePasses

\* Timers fire and goroutines run, and time goes on; an outage need not come.
Fairness == WF_vars(Loop) /\ WF_vars(TimePasses)

Spec == Init /\ [][Next]_vars /\ Fairness

-----------------------------------------------------------------------------
(* Properties. *)

\* A holder that cannot renew is fenced at the deadline itself: however its
\* timers were re-armed, no time passes beyond volumeLeaseValidity without the
\* lease being lost, so the margin to the server TTL is left to the fence.
StopsAtDeadline == age <= Validity

\* How old a confirmation gets while the store answers every renewal: a tick
\* that comes just before the renewal is due passes it over to the next one.
StalenessBounded ==
    outage = 0 => age < RenewInterval + CheckInterval + StartDelay

\* An outage every holder survives: validity, less the oldest confirmation it
\* can start on, less the tick whose renewal is refused because the recovered
\* store applied an abandoned one, less the tick that renews and the start of
\* that renewal.
Survivable == Validity - RenewInterval - 3 * CheckInterval - 2 * StartDelay

\* No lease is surrendered for an outage of at most Survivable.
SurvivesShortOutage == lost => outage > Survivable

\* If the store is never away for longer, the lease is renewed for ever.
RenewsForEver == [](outage <= Survivable) => []<>(age < RenewInterval)

\* What volume_lease_test.go says the sizing gives: the lease survives an outage
\* of validity less the renewal interval.
SurvivesTheOutageTheHostProduces == lost => outage > Validity - RenewInterval
=============================================================================
