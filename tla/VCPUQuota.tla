------------------------------- MODULE VCPUQuota -------------------------------
(***************************************************************************)
(* The vCPU counter of one account (domains/admission/quota).  A gateway   *)
(* checks the counter, the daemon launches and records the instances, and  *)
(* the gateway then charges what was launched; a retype to a larger type   *)
(* follows the same three steps for the difference.  Nothing refunds: a    *)
(* reconcile pass, one at a time under the leader lock, recomputes the     *)
(* counter from the instance records, which a lagging replica may serve.   *)
(***************************************************************************)
EXTENDS Integers, FiniteSets

CONSTANTS
  Grows,      \* launches and retypes of the account
  Size,       \* the vCPUs each of them adds
  Limit,      \* the account's vCPU cap
  MaxPasses   \* bound: passes that find a replica behind or no watermark

ASSUME QuotaAssumption ==
  /\ IsFiniteSet(Grows) /\ Size \in [Grows -> Nat \ {0}]
  /\ Limit \in Nat /\ MaxPasses \in Nat

VARIABLES
  counter,   \* the account's usage counter and its revision (0: no key)
  rev,
  step,      \* each grow: "new", "admitted", "launched", "read", "charged", "drift"
  saw,       \* the counter and revision a charge has read
  record,    \* each grow's instance record: "none", "live", "terminal"
  prompt,    \* grows whose record was written before the launch was answered
  seq,       \* sequence of the last record write
  replica,   \* the records a lagging replica still shows, and up to where
  pass,      \* the reconcile pass under way
  spoilt     \* passes spoilt so far

vars == <<counter, rev, step, saw, record, prompt, seq, replica, pass, spoilt>>
records == <<record, prompt, seq>>
usage == <<counter, rev>>

\* The vCPUs of a set of grows, one by one, and their number.
VCPUs(grows) == UNION {{g} \X (1 .. Size[g]) : g \in grows}
Total(grows) == Cardinality(VCPUs(grows))
Live(rs) == {g \in Grows : rs[g] = "live"}

Unread == <<0, 0>>
NoPass == [at |-> "idle", before |-> 0, mark |-> 0, total |-> 0]

Init ==
  /\ counter = 0 /\ rev = 0
  /\ step = [g \in Grows |-> "new"]
  /\ saw = [g \in Grows |-> Unread]
  /\ record = [g \in Grows |-> "none"] /\ prompt = {} /\ seq = 0
  /\ replica = [rs |-> record, seq |-> 0]
  /\ pass = NoPass /\ spoilt = 0

-----------------------------------------------------------------------------
\* EnforceLaunch, EnforceRetype: the check before the grow; it reads and holds nothing.
CheckVCPU(g) ==
  /\ step[g] = "new"
  /\ Size[g] <= Limit - counter
  /\ step' = [step EXCEPT ![g] = "admitted"]
  /\ UNCHANGED <<usage, saw, records, replica, pass, spoilt>>

WriteRecord(g, status) ==
  /\ record' = [record EXCEPT ![g] = status]
  /\ seq' = seq + 1

\* The daemon launches, records, and answers; the key-value write is best effort.
Launch(g) ==
  /\ step[g] = "admitted"
  /\ step' = [step EXCEPT ![g] = "launched"]
  /\ \/ WriteRecord(g, "live") /\ prompt' = prompt \union {g}
     \/ UNCHANGED records
  /\ UNCHANGED <<usage, saw, replica, pass, spoilt>>

\* A record that did not land is repeated by a later state write.
RecordLate(g) ==
  /\ step[g] \notin {"new", "admitted"} /\ record[g] = "none"
  /\ WriteRecord(g, "live")
  /\ UNCHANGED <<usage, step, saw, prompt, replica, pass, spoilt>>

\* Mutant: a termination refunds what the launch may never have been charged.
TerminateRefunds(g) ==
  /\ record[g] = "live"
  /\ WriteRecord(g, "terminal")
  /\ counter' = counter - Size[g] /\ rev' = rev + 1
  /\ UNCHANGED <<step, saw, prompt, replica, pass, spoilt>>

\* The instance is terminated: its record leaves the counted set, the counter stays.
Terminate(g) ==
  /\ record[g] = "live"
  /\ WriteRecord(g, "terminal")
  /\ UNCHANGED <<usage, step, saw, prompt, replica, pass, spoilt>>

\* ChargeLaunch: AddVCPU's compare-and-set reads the counter,
ChargeRead(g) ==
  /\ step[g] = "launched"
  /\ step' = [step EXCEPT ![g] = "read"]
  /\ saw' = [saw EXCEPT ![g] = <<counter, rev>>]
  /\ UNCHANGED <<usage, records, replica, pass, spoilt>>

\* Mutant: the charge is written without the revision it was computed from.
ChargeWriteBlind(g) ==
  /\ step[g] = "read"
  /\ step' = [step EXCEPT ![g] = "charged"]
  /\ counter' = saw[g][1] + Size[g] /\ rev' = rev + 1
  /\ saw' = [saw EXCEPT ![g] = Unread]
  /\ UNCHANGED <<records, replica, pass, spoilt>>

\* and writes the sum at the revision it read, or reads again.
ChargeWrite(g) ==
  /\ step[g] = "read"
  /\ IF rev = saw[g][2]
     THEN /\ counter' = saw[g][1] + Size[g] /\ rev' = rev + 1
          /\ step' = [step EXCEPT ![g] = "charged"]
     ELSE /\ step' = [step EXCEPT ![g] = "launched"]
          /\ UNCHANGED usage
  /\ saw' = [saw EXCEPT ![g] = Unread]
  /\ UNCHANGED <<records, replica, pass, spoilt>>

\* The attempts are spent or the store fails: logged as drift, the launch stands.
ChargeFails(g) ==
  /\ step[g] \in {"launched", "read"}
  /\ step' = [step EXCEPT ![g] = "drift"]
  /\ saw' = [saw EXCEPT ![g] = Unread]
  /\ UNCHANGED <<usage, records, replica, pass, spoilt>>

-----------------------------------------------------------------------------
At(pc) == pass.at = pc

\* Reconcile, ReconcileAccount: the counter's revision is read before anything else.
CounterRevisions ==
  /\ At("idle")
  /\ pass' = [NoPass EXCEPT !.at = "watermark", !.before = rev]
  /\ UNCHANGED <<usage, step, saw, records, replica, spoilt>>

\* RecordVCPULister: the watermark comes before the snapshot.
Watermark ==
  /\ At("watermark")
  /\ pass' = [pass EXCEPT !.at = "snapshot", !.mark = seq]
  /\ UNCHANGED <<usage, step, saw, records, replica, spoilt>>

\* The stream's position cannot be read: the view may not lower the counter.
WatermarkFails ==
  /\ At("watermark") /\ spoilt < MaxPasses
  /\ pass' = [pass EXCEPT !.at = "snapshot", !.mark = -1]
  /\ spoilt' = spoilt + 1
  /\ UNCHANGED <<usage, step, saw, records, replica>>

\* Mutant: a snapshot short of the watermark counts as complete.
IsCompleteAlways(mark, high) == mark >= 0

\* Good enough to lower: the watermark is known and the snapshot reached it.
IsComplete(mark, high) == mark >= 0 /\ high >= mark

Seen(rs, high) ==
  pass' = [pass EXCEPT
             !.at = IF IsComplete(pass.mark, high) THEN "set" ELSE "read",
             !.total = Total(Live(rs))]

\* Snapshot, served by a replica that has every write, or by one that lags.
SnapshotCurrent ==
  /\ At("snapshot") /\ Seen(record, seq)
  /\ UNCHANGED <<usage, step, saw, records, replica, spoilt>>

SnapshotBehind ==
  /\ At("snapshot") /\ spoilt < MaxPasses
  /\ Seen(replica.rs, replica.seq)
  /\ spoilt' = spoilt + 1
  /\ UNCHANGED <<usage, step, saw, records, replica>>

Replicate ==
  /\ replica.seq < seq
  /\ replica' = [rs |-> record, seq |-> seq]
  /\ UNCHANGED <<usage, step, saw, records, pass, spoilt>>

\* Mutant: the revision is read after the scan, with the write.
SetVCPUAtLatest ==
  /\ At("set")
  /\ IF counter # pass.total
     THEN counter' = pass.total /\ rev' = rev + 1
     ELSE UNCHANGED usage
  /\ pass' = NoPass
  /\ UNCHANGED <<step, saw, records, replica, spoilt>>

\* Mutant: the complete pass only ever raises.
SetVCPUAtRaises ==
  /\ At("set")
  /\ IF rev = pass.before /\ counter < pass.total
     THEN counter' = pass.total /\ rev' = rev + 1
     ELSE UNCHANGED usage
  /\ pass' = NoPass
  /\ UNCHANGED <<step, saw, records, replica, spoilt>>

\* setVCPUAt: written only while the counter stands at the revision read first.
SetVCPUAt ==
  /\ At("set")
  /\ IF rev = pass.before /\ counter # pass.total
     THEN counter' = pass.total /\ rev' = rev + 1
     ELSE UNCHANGED usage
  /\ pass' = NoPass
  /\ UNCHANGED <<step, saw, records, replica, spoilt>>

\* reconcileVCPU on an incomplete view: nothing to do unless it would raise,
ReadForRaise ==
  /\ At("read")
  /\ pass' = IF pass.total <= counter THEN NoPass ELSE [pass EXCEPT !.at = "raise"]
  /\ UNCHANGED <<usage, step, saw, records, replica, spoilt>>

\* and then setVCPU, which overwrites whatever the counter has become.
SetVCPU ==
  /\ At("raise")
  /\ IF counter # pass.total
     THEN counter' = pass.total /\ rev' = rev + 1
     ELSE UNCHANGED usage
  /\ pass' = NoPass
  /\ UNCHANGED <<step, saw, records, replica, spoilt>>

\* The scan or the write fails, or leadership is not won: the next pass settles it.
PassFails ==
  /\ ~At("idle") /\ spoilt < MaxPasses
  /\ pass' = NoPass /\ spoilt' = spoilt + 1
  /\ UNCHANGED <<usage, step, saw, records, replica>>

Pass ==
  \/ CounterRevisions \/ Watermark \/ SnapshotCurrent
  \/ SetVCPUAt \/ ReadForRaise \/ SetVCPU

Next ==
  \/ \E g \in Grows :
       \/ CheckVCPU(g) \/ Launch(g) \/ RecordLate(g) \/ Terminate(g)
       \/ ChargeRead(g) \/ ChargeWrite(g) \/ ChargeFails(g)
  \/ Pass
  \/ WatermarkFails \/ SnapshotBehind \/ Replicate \/ PassFails

(* The watch and the resync keep running passes, each to its end; a record  *)
(* that did not land is repeated by the daemon's repair sweep.              *)
Fairness == WF_vars(Pass) /\ \A g \in Grows : WF_vars(RecordLate(g))

Spec == Init /\ [][Next]_vars /\ Fairness

-----------------------------------------------------------------------------
Charged == {g \in Grows : step[g] = "charged"}

(* Every variable has its type; in particular no step takes the counter    *)
(* below zero, from where every check would pass.                           *)
TypeOK ==
  /\ counter \in Nat /\ rev \in Nat /\ seq \in Nat
  /\ step \in [Grows -> {"new", "admitted", "launched", "read", "charged", "drift"}]
  /\ saw \in [Grows -> Nat \X Nat]
  /\ record \in [Grows -> {"none", "live", "terminal"}]
  /\ prompt \subseteq Grows
  /\ replica \in [rs : [Grows -> {"none", "live", "terminal"}], seq : 0..seq]
  /\ pass \in [at : {"idle", "watermark", "snapshot", "set", "read", "raise"},
              before : 0..rev, mark : -1..seq, total : Nat]
  /\ spoilt \in 0..MaxPasses

(* What the counter must cover: charged grows that still exist and whose    *)
(* record was written before the launch was answered.                       *)
Due == Total({g \in Charged \intersect prompt : record[g] = "live"})

(* A complete pass never lowers the counter below what has been charged and *)
(* still exists: a charge that lands while the scan runs wins over the scan *)
(* that never saw it (setVCPUAt), and a snapshot short of the watermark is  *)
(* not taken for a complete one (RecordVCPULister).                         *)
CompletePassCovers == [][At("set") /\ counter' < counter => counter' >= Due]_vars

(* A charge is added to, never lost among, the charges of other gateways:   *)
(* every step that charges raises the counter by what it charges.           *)
ChargesAddUp ==
  [][\A g \in Grows : g \notin Charged /\ g \in Charged' =>
       counter' = counter + Size[g]]_vars

(* Whatever drift launches, terminations, lost charges and spoilt passes    *)
(* leave, the counter comes to the vCPUs of the instances that exist and    *)
(* stays there while they do not change.                                    *)
CounterSettles == <>[](counter = Total(Live(record)))

(* "Otherwise the pass may raise but never lower, so an under-count cannot  *)
(* silently lift the cap" (Reconcile): the counter covers what is due.      *)
CounterCovers == counter >= Due
=============================================================================
