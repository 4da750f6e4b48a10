---------------------------- MODULE VCPUQuotaProofs ----------------------------
(***************************************************************************)
(* The proofs about VCPUQuota: its type invariant (the counter never falls *)
(* below zero), that concurrent charges add up (ChargesAddUp), and that a  *)
(* complete reconcile pass never lowers the counter below what is charged  *)
(* and exists (CompletePassCovers), for any launches of any sizes.         *)
(***************************************************************************)
EXTENDS VCPUQuota, FiniteSetTheorems, TLAPS

USE QuotaAssumption

-----------------------------------------------------------------------------
(* The inductive invariant. *)

\* A charge that still holds the counter's revision holds its value.
ChargeInv ==
  \A g \in Grows : step[g] = "read" =>
    saw[g][2] <= rev /\ (saw[g][2] = rev => saw[g][1] = counter)

\* Records only move on, a replica is behind or equal, and a prompt record was
\* written before its charge.
RecordInv ==
  /\ \A g \in prompt : record[g] # "none" /\ step[g] \notin {"new", "admitted"}
  /\ \A g \in Grows : step[g] \in {"new", "admitted"} => record[g] = "none"
  /\ \A g \in Grows : replica.rs[g] = "terminal" => record[g] = "terminal"
  /\ replica.seq = seq => replica.rs = record

\* The charged grows that must be counted, if they still live.
Counted == Charged \intersect prompt

\* As long as the revision read first stands, a snapshot that reached the
\* watermark has the records of all that was charged by then, and the total
\* computed from it covers what is due.
PassInv ==
  rev = pass.before =>
    /\ At("snapshot") /\ pass.mark >= 0 /\ replica.seq >= pass.mark =>
         \A g \in Counted : replica.rs[g] # "none"
    /\ At("set") => pass.total >= Due

IInv == TypeOK /\ ChargeInv /\ RecordInv /\ PassInv

-----------------------------------------------------------------------------
(* The vCPUs of a set of grows are finitely many, and more grows have more. *)

LEMMA TotalType ==
  ASSUME NEW grows \in SUBSET Grows
  PROVE  IsFiniteSet(VCPUs(grows)) /\ Total(grows) \in Nat
  <1> DEFINE f == [g \in grows |-> {g} \X (1 .. Size[g])]
             T == {{g} \X (1 .. Size[g]) : g \in grows}
  <1>1. IsFiniteSet(grows)
    BY FS_Subset
  <1>2. f \in Surjection(grows, T)
    BY DEF Surjection
  <1>3. IsFiniteSet(T)
    BY <1>1, <1>2, FS_Surjection
  <1>4. ASSUME NEW t \in T PROVE IsFiniteSet(t)
    <2>1. PICK g \in grows : t = {g} \X (1 .. Size[g])
      OBVIOUS
    <2>2. IsFiniteSet({g})
      BY FS_Singleton
    <2>3. 1 \in Int /\ Size[g] \in Int
      OBVIOUS
    <2>4. IsFiniteSet(1 .. Size[g])
      BY <2>3, FS_Interval
    <2> QED BY <2>1, <2>2, <2>4, FS_Product
  <1>5. IsFiniteSet(UNION T)
    BY <1>3, <1>4, FS_UNION
  <1> QED BY <1>5, FS_CardinalityType DEF Total, VCPUs

LEMMA TotalMono ==
  ASSUME NEW S \in SUBSET Grows, NEW T \in SUBSET S
  PROVE  Total(T) <= Total(S)
  <1>1. VCPUs(T) \subseteq VCPUs(S)
    BY DEF VCPUs
  <1>2. IsFiniteSet(VCPUs(S))
    BY TotalType
  <1> QED BY <1>1, <1>2, FS_Subset DEF Total

\* What is due is a number, and shrinks with the set it counts.
LEMMA LiveType == ASSUME NEW rs PROVE Total(Live(rs)) \in Nat
  BY TotalType DEF Live

-----------------------------------------------------------------------------
(* Every step keeps the type invariant. *)

LEMMA InitInv == Init => IInv
  <1> SUFFICES ASSUME Init PROVE IInv
    OBVIOUS
  <1>1. TypeOK
    BY DEF Init, TypeOK, Unread, NoPass
  <1>2. ChargeInv /\ RecordInv /\ PassInv
    BY DEF Init, ChargeInv, RecordInv, PassInv, At, NoPass
  <1> QED BY <1>1, <1>2 DEF IInv

LEMMA GrowType ==
  ASSUME TypeOK, NEW g \in Grows,
         \/ CheckVCPU(g) \/ Launch(g) \/ RecordLate(g) \/ Terminate(g)
         \/ ChargeRead(g) \/ ChargeFails(g)
  PROVE  TypeOK'
  <1>1. CASE CheckVCPU(g)
    BY <1>1 DEF TypeOK, CheckVCPU, usage, records
  <1>2. CASE Launch(g)
    <2>1. CASE WriteRecord(g, "live") /\ prompt' = prompt \union {g}
      BY <1>2, <2>1 DEF TypeOK, Launch, WriteRecord, usage
    <2>2. CASE UNCHANGED records
      BY <1>2, <2>2 DEF TypeOK, Launch, usage, records
    <2> QED BY <1>2, <2>1, <2>2 DEF Launch
  <1>3. CASE RecordLate(g)
    BY <1>3 DEF TypeOK, RecordLate, WriteRecord, usage
  <1>4. CASE Terminate(g)
    BY <1>4 DEF TypeOK, Terminate, WriteRecord, usage
  <1>5. CASE ChargeRead(g)
    BY <1>5 DEF TypeOK, ChargeRead, usage, records
  <1>6. CASE ChargeFails(g)
    BY <1>6 DEF TypeOK, ChargeFails, usage, records, Unread
  <1> QED BY <1>1, <1>2, <1>3, <1>4, <1>5, <1>6

LEMMA ChargeType ==
  ASSUME TypeOK, NEW g \in Grows, ChargeWrite(g)
  PROVE  TypeOK'
  <1>1. CASE rev = saw[g][2]
    BY <1>1, SMTT(30) DEF TypeOK, ChargeWrite, usage, records, Unread
  <1>2. CASE rev # saw[g][2]
    BY <1>2 DEF TypeOK, ChargeWrite, usage, records, Unread
  <1> QED BY <1>1, <1>2

LEMMA PassType ==
  ASSUME TypeOK,
         \/ CounterRevisions \/ Watermark \/ WatermarkFails
         \/ ReadForRaise \/ PassFails \/ Replicate
  PROVE  TypeOK'
  <1>1. CASE CounterRevisions
    <2>1. pass' = [at |-> "watermark", before |-> rev, mark |-> 0, total |-> 0]
      BY <1>1 DEF CounterRevisions, NoPass
    <2>2. pass' \in [at : {"idle", "watermark", "snapshot", "set", "read", "raise"},
                     before : 0..rev, mark : -1..seq, total : Nat]
      BY <2>1 DEF TypeOK
    <2> QED BY <1>1, <2>2 DEF TypeOK, CounterRevisions, usage, records
  <1>2. CASE Watermark
    <2>0. PICK mark \in -1..seq : mark = seq
      BY DEF TypeOK
    <2>1. pass' \in [at : {"idle", "watermark", "snapshot", "set", "read", "raise"},
                     before : 0..rev, mark : -1..seq, total : Nat]
      BY <1>2, <2>0 DEF TypeOK, Watermark
    <2> QED BY <1>2, <2>1 DEF TypeOK, Watermark, usage, records
  <1>3. CASE WatermarkFails
    <2>0. PICK mark \in -1..seq : mark = -1
      BY DEF TypeOK
    <2>1. pass' \in [at : {"idle", "watermark", "snapshot", "set", "read", "raise"},
                     before : 0..rev, mark : -1..seq, total : Nat]
      BY <1>3, <2>0 DEF TypeOK, WatermarkFails
    <2>2. spoilt' \in 0..MaxPasses
      BY <1>3 DEF TypeOK, WatermarkFails
    <2> QED BY <1>3, <2>1, <2>2 DEF TypeOK, WatermarkFails, usage, records
  <1>4. CASE ReadForRaise
    BY <1>4 DEF TypeOK, ReadForRaise, NoPass, usage, records
  <1>5. CASE PassFails
    BY <1>5 DEF TypeOK, PassFails, NoPass, usage, records
  <1>6. CASE Replicate
    BY <1>6 DEF TypeOK, Replicate, usage, records
  <1> QED BY <1>1, <1>2, <1>3, <1>4, <1>5, <1>6

LEMMA SnapshotType ==
  ASSUME TypeOK, SnapshotCurrent \/ SnapshotBehind
  PROVE  TypeOK'
  <1>1. PICK rs, high : Seen(rs, high)
    BY DEF SnapshotCurrent, SnapshotBehind
  <1>2. PICK total \in Nat : total = Total(Live(rs))
    BY LiveType
  <1>3. PICK at \in {"set", "read"} : pass' = [pass EXCEPT !.at = at, !.total = total]
    BY <1>1, <1>2 DEF Seen
  <1>4. pass' \in [at : {"idle", "watermark", "snapshot", "set", "read", "raise"},
                   before : 0..rev, mark : -1..seq, total : Nat]
    BY <1>3 DEF TypeOK
  <1>5. spoilt' \in 0..MaxPasses
    BY DEF SnapshotCurrent, SnapshotBehind, TypeOK
  <1> QED BY <1>4, <1>5 DEF TypeOK, SnapshotCurrent, SnapshotBehind, usage, records

LEMMA SetType ==
  ASSUME TypeOK, SetVCPUAt \/ SetVCPU
  PROVE  TypeOK'
  <1>1. \/ counter' = pass.total /\ rev' = rev + 1
        \/ UNCHANGED usage
    BY DEF SetVCPUAt, SetVCPU
  <1>2. pass' = NoPass /\ UNCHANGED <<step, saw, records, replica, spoilt>>
    BY DEF SetVCPUAt, SetVCPU
  <1> QED BY <1>1, <1>2 DEF TypeOK, NoPass, usage, records

LEMMA TypeStep == TypeOK /\ [Next]_vars => TypeOK'
  <1> SUFFICES ASSUME TypeOK, [Next]_vars PROVE TypeOK'
    OBVIOUS
  <1>1. CASE \E g \in Grows :
               \/ CheckVCPU(g) \/ Launch(g) \/ RecordLate(g) \/ Terminate(g)
               \/ ChargeRead(g) \/ ChargeWrite(g) \/ ChargeFails(g)
    BY <1>1, GrowType, ChargeType
  <1>2. CASE Pass \/ WatermarkFails \/ SnapshotBehind \/ Replicate \/ PassFails
    BY <1>2, PassType, SnapshotType, SetType DEF Pass
  <1>3. CASE UNCHANGED vars
    BY <1>3 DEF vars, TypeOK
  <1> QED BY <1>1, <1>2, <1>3 DEF Next

-----------------------------------------------------------------------------
(* The charges. *)

\* A write of the counter outdates every charge that has read it.
LEMMA Outdated ==
  ASSUME TypeOK, ChargeInv, rev' = rev + 1,
         \A g \in Grows : step'[g] = "read" => step[g] = "read" /\ saw'[g] = saw[g]
  PROVE  ChargeInv'
  <1> SUFFICES ASSUME NEW g \in Grows, step'[g] = "read"
               PROVE  saw'[g][2] <= rev + 1 /\ saw'[g][2] # rev + 1
    BY DEF ChargeInv
  <1>1. saw'[g] = saw[g] /\ saw[g][2] <= rev
    BY DEF ChargeInv
  <1>2. saw[g][2] \in Nat /\ rev \in Nat
    BY DEF TypeOK
  <1> QED BY <1>1, <1>2

LEMMA ChargeKept ==
  ASSUME ChargeInv, UNCHANGED usage,
         \A g \in Grows : step'[g] = "read" => step[g] = "read" /\ saw'[g] = saw[g]
  PROVE  ChargeInv'
  BY DEF ChargeInv, usage

LEMMA ChargeStep ==
  ASSUME TypeOK, ChargeInv, Next
  PROVE  ChargeInv'
  <1>1. ASSUME NEW g \in Grows, CheckVCPU(g) \/ Launch(g) \/ ChargeFails(g)
        PROVE  ChargeInv'
    <2>1. UNCHANGED usage
      BY <1>1 DEF CheckVCPU, Launch, ChargeFails
    <2>2. ASSUME NEW h \in Grows, step'[h] = "read"
          PROVE  step[h] = "read" /\ saw'[h] = saw[h]
      BY <1>1, <2>2 DEF CheckVCPU, Launch, ChargeFails, TypeOK
    <2> QED BY <2>1, <2>2, ChargeKept
  <1>2. ASSUME NEW g \in Grows, ChargeRead(g)
        PROVE  ChargeInv'
    <2> SUFFICES ASSUME NEW h \in Grows, step'[h] = "read"
                 PROVE  saw'[h][2] <= rev /\ (saw'[h][2] = rev => saw'[h][1] = counter)
      BY <1>2 DEF ChargeInv, ChargeRead, usage
    <2>1. CASE h = g
      <3>1. saw'[h] = <<counter, rev>> /\ rev \in Nat
        BY <1>2, <2>1 DEF ChargeRead, TypeOK
      <3> QED BY <3>1
    <2>2. CASE h # g
      <3>1. saw'[h] = saw[h] /\ step[h] = "read"
        BY <1>2, <2>2 DEF ChargeRead, TypeOK
      <3> QED BY <3>1 DEF ChargeInv
    <2> QED BY <2>1, <2>2
  <1>3. ASSUME NEW g \in Grows, ChargeWrite(g)
        PROVE  ChargeInv'
    <2>1. ASSUME NEW h \in Grows, step'[h] = "read"
          PROVE  step[h] = "read" /\ saw'[h] = saw[h]
      <3>1. PICK s \in {"charged", "launched"} : step' = [step EXCEPT ![g] = s]
        BY <1>3 DEF ChargeWrite
      <3>2. h # g
        BY <3>1, <2>1 DEF TypeOK
      <3> QED BY <1>3, <2>1, <3>1, <3>2 DEF ChargeWrite, TypeOK
    <2>2. CASE rev' = rev + 1
      BY <2>1, <2>2, Outdated
    <2>3. CASE UNCHANGED usage
      BY <2>1, <2>3, ChargeKept
    <2> QED BY <1>3, <2>2, <2>3 DEF ChargeWrite
  <1>4. ASSUME NEW g \in Grows, RecordLate(g) \/ Terminate(g)
        PROVE  ChargeInv'
    BY <1>4 DEF RecordLate, Terminate, ChargeInv, usage
  <1>5. ASSUME SetVCPUAt \/ SetVCPU
        PROVE  ChargeInv'
    <2>1. UNCHANGED <<step, saw>> /\ (rev' = rev + 1 \/ UNCHANGED usage)
      BY <1>5 DEF SetVCPUAt, SetVCPU
    <2> QED BY <2>1, Outdated, ChargeKept
  <1>6. ASSUME \/ CounterRevisions \/ Watermark \/ SnapshotCurrent \/ ReadForRaise
               \/ WatermarkFails \/ SnapshotBehind \/ Replicate \/ PassFails
        PROVE  ChargeInv'
    BY <1>6 DEF CounterRevisions, Watermark, SnapshotCurrent, ReadForRaise, WatermarkFails,
                SnapshotBehind, Replicate, PassFails, ChargeInv, usage
  <1> QED BY <1>1, <1>2, <1>3, <1>4, <1>5, <1>6 DEF Next, Pass

-----------------------------------------------------------------------------
(* The records. *)

LEMMA RecordStep ==
  ASSUME TypeOK, RecordInv, Next
  PROVE  RecordInv'
  <1>1. ASSUME NEW g \in Grows,
               CheckVCPU(g) \/ ChargeRead(g) \/ ChargeWrite(g) \/ ChargeFails(g)
        PROVE  RecordInv'
    <2>1. UNCHANGED <<record, prompt, seq, replica>>
      BY <1>1 DEF CheckVCPU, ChargeRead, ChargeWrite, ChargeFails, records
    <2>2. ASSUME NEW h \in prompt PROVE step'[h] \notin {"new", "admitted"}
      BY <1>1 DEF CheckVCPU, ChargeRead, ChargeWrite, ChargeFails, RecordInv, TypeOK
    <2>3. ASSUME NEW h \in Grows, step'[h] \in {"new", "admitted"}
          PROVE  step[h] \in {"new", "admitted"}
      BY <1>1, <2>3 DEF CheckVCPU, ChargeRead, ChargeWrite, ChargeFails, TypeOK
    <2> QED BY <2>1, <2>2, <2>3 DEF RecordInv
  <1>2. ASSUME NEW g \in Grows, Launch(g), UNCHANGED records
        PROVE  RecordInv'
    <2>1. ASSUME NEW h \in prompt PROVE step'[h] \notin {"new", "admitted"}
      BY <1>2 DEF Launch, RecordInv, TypeOK
    <2>2. ASSUME NEW h \in Grows, step'[h] \in {"new", "admitted"}
          PROVE  step[h] \in {"new", "admitted"}
      BY <1>2, <2>2 DEF Launch, TypeOK
    <2> QED BY <1>2, <2>1, <2>2 DEF Launch, RecordInv, records
  <1>3. ASSUME NEW g \in Grows, NEW status \in {"live", "terminal"},
               WriteRecord(g, status), UNCHANGED replica,
               record[g] # "terminal", step'[g] \notin {"new", "admitted"},
               \A h \in Grows : h # g => step'[h] = step[h],
               \A h \in prompt' : \/ h \in prompt /\ step'[h] = step[h]
                                  \/ h = g /\ step'[h] \notin {"new", "admitted"}
        PROVE  RecordInv'
    <2>1. record' = [record EXCEPT ![g] = status] /\ seq' = seq + 1
      BY <1>3 DEF WriteRecord
    <2>2. ASSUME NEW h \in prompt'
          PROVE  record'[h] # "none" /\ step'[h] \notin {"new", "admitted"}
      BY <1>3, <2>1 DEF RecordInv, TypeOK
    <2>3. ASSUME NEW h \in Grows, replica.rs[h] = "terminal"
          PROVE  record'[h] = "terminal"
      BY <1>3, <2>1, <2>3 DEF RecordInv, TypeOK
    <2>4. replica.seq # seq + 1
      BY DEF TypeOK
    <2>5. ASSUME NEW h \in Grows, step'[h] \in {"new", "admitted"}
          PROVE  record'[h] = "none"
      BY <1>3, <2>1, <2>5 DEF RecordInv, TypeOK
    <2> QED BY <1>3, <2>1, <2>2, <2>3, <2>4, <2>5 DEF RecordInv
  <1>4. ASSUME NEW g \in Grows, Launch(g) PROVE RecordInv'
    <2>1. CASE WriteRecord(g, "live") /\ prompt' = prompt \union {g}
      <3>1. record[g] # "terminal"
        BY <1>4 DEF Launch, RecordInv
      <3> QED BY <1>3, <1>4, <2>1, <3>1 DEF Launch, TypeOK
    <2> QED BY <1>2, <1>4, <2>1 DEF Launch
  <1>5. ASSUME NEW g \in Grows, RecordLate(g) PROVE RecordInv'
    BY <1>3, <1>5 DEF RecordLate
  <1>6. ASSUME NEW g \in Grows, Terminate(g) PROVE RecordInv'
    <2>1. step[g] \notin {"new", "admitted"}
      BY <1>6 DEF Terminate, RecordInv
    <2> QED BY <1>3, <1>6, <2>1 DEF Terminate
  <1>7. ASSUME Replicate PROVE RecordInv'
    BY <1>7 DEF Replicate, RecordInv, records
  <1>8. ASSUME \/ CounterRevisions \/ Watermark \/ SnapshotCurrent \/ ReadForRaise
               \/ WatermarkFails \/ SnapshotBehind \/ PassFails \/ SetVCPUAt \/ SetVCPU
        PROVE  RecordInv'
    BY <1>8 DEF CounterRevisions, Watermark, SnapshotCurrent, ReadForRaise, WatermarkFails,
                SnapshotBehind, PassFails, SetVCPUAt, SetVCPU, RecordInv, records
  <1> QED BY <1>1, <1>4, <1>5, <1>6, <1>7, <1>8 DEF Next, Pass

-----------------------------------------------------------------------------
(* The pass. *)

\* What is due does not grow while no charge lands.
LEMMA DueShrinks ==
  ASSUME Counted' \subseteq Counted,
         \A g \in Counted' : record'[g] = "live" => record[g] = "live"
  PROVE  Due' <= Due /\ Due \in Nat /\ Due' \in Nat
  <1>1. PICK S \in SUBSET Grows : S = {g \in Counted : record[g] = "live"}
    BY DEF Counted, Charged
  <1>2. PICK T : T = {g \in Counted' : record'[g] = "live"}
    OBVIOUS
  <1>3. T \in SUBSET S
    BY <1>1, <1>2
  <1>4. Total(T) <= Total(S) /\ Total(S) \in Nat /\ Total(T) \in Nat
    BY <1>3, TotalMono, TotalType
  <1>5. Due = Total(S)
    BY <1>1 DEF Due, Counted
  <1>6. Due' = Total(T)
    BY <1>2 DEF Due, Counted
  <1> QED BY <1>4, <1>5, <1>6

LEMMA DueType == Due \in Nat
  BY TotalType DEF Due, Charged

\* A step of a grow that charges nothing.
LEMMA PassKept ==
  ASSUME TypeOK, PassInv, UNCHANGED <<rev, pass, replica>>,
         Counted' \subseteq Counted,
         \A g \in Counted' : record'[g] = "live" => record[g] = "live"
  PROVE  PassInv'
  <1>1. Due' <= Due /\ Due \in Nat /\ Due' \in Nat
    BY DueShrinks
  <1>2. pass.total \in Nat
    BY DEF TypeOK
  <1>3. pass.total >= Due => pass.total >= Due'
    BY <1>1, <1>2
  <1> QED BY <1>3 DEF PassInv, At

LEMMA GrowPass ==
  ASSUME TypeOK, RecordInv, PassInv, NEW g \in Grows,
         \/ CheckVCPU(g) \/ Launch(g) \/ RecordLate(g) \/ Terminate(g)
         \/ ChargeRead(g) \/ ChargeFails(g)
  PROVE  PassInv'
  <1>1. CASE CheckVCPU(g) \/ ChargeRead(g) \/ ChargeFails(g)
    <2>1. UNCHANGED <<rev, pass, replica, record, prompt>>
      BY <1>1 DEF CheckVCPU, ChargeRead, ChargeFails, usage, records
    <2>2. Charged' \subseteq Charged
      BY <1>1 DEF CheckVCPU, ChargeRead, ChargeFails, Charged, TypeOK
    <2> QED BY <2>1, <2>2, PassKept DEF Counted
  <1>2. CASE Launch(g)
    <2>1. UNCHANGED <<rev, pass, replica>> /\ prompt' \subseteq prompt \union {g}
      BY <1>2 DEF Launch, usage, records
    <2>2. Charged' \subseteq Charged \ {g}
      BY <1>2 DEF Launch, Charged, TypeOK
    <2>3. ASSUME NEW h \in Counted' PROVE h \in Counted /\ record'[h] = record[h]
      BY <1>2, <2>1, <2>2 DEF Launch, WriteRecord, records, Counted, Charged, TypeOK
    <2> QED BY <2>1, <2>3, PassKept
  <1>3. CASE RecordLate(g)
    <2>1. UNCHANGED <<rev, pass, replica, prompt, step>>
      BY <1>3 DEF RecordLate, usage
    <2>2. Counted' = Counted /\ g \notin Counted
      BY <1>3, <2>1 DEF RecordLate, RecordInv, Counted, Charged
    <2>3. ASSUME NEW h \in Counted PROVE record'[h] = record[h]
      BY <1>3, <2>2 DEF RecordLate, WriteRecord, Counted, Charged, TypeOK
    <2> QED BY <2>1, <2>2, <2>3, PassKept
  <1>4. CASE Terminate(g)
    <2>1. UNCHANGED <<rev, pass, replica, prompt, step>>
      BY <1>4 DEF Terminate, usage
    <2>2. Counted' = Counted
      BY <2>1 DEF Counted, Charged
    <2>3. ASSUME NEW h \in Counted, record'[h] = "live" PROVE record[h] = "live"
      BY <1>4, <2>3 DEF Terminate, WriteRecord, Counted, Charged, TypeOK
    <2> QED BY <2>1, <2>2, <2>3, PassKept
  <1> QED BY <1>1, <1>2, <1>3, <1>4

LEMMA ChargePass ==
  ASSUME TypeOK, PassInv, NEW g \in Grows, ChargeWrite(g)
  PROVE  PassInv'
  <1>1. CASE rev = saw[g][2]
    <2>1. rev' = rev + 1 /\ pass' = pass
      BY <1>1 DEF ChargeWrite
    <2>2. rev + 1 # pass.before
      BY DEF TypeOK
    <2> QED BY <2>1, <2>2 DEF PassInv
  <1>2. CASE rev # saw[g][2]
    <2>1. UNCHANGED <<rev, pass, replica, record, prompt>>
      BY <1>2 DEF ChargeWrite, usage, records
    <2>2. Charged' \subseteq Charged
      BY <1>2 DEF ChargeWrite, Charged, TypeOK
    <2> QED BY <2>1, <2>2, PassKept DEF Counted
  <1> QED BY <1>1, <1>2

\* A snapshot that reached the watermark shows every live record that is due.
LEMMA SnapshotPass ==
  ASSUME TypeOK, RecordInv, PassInv, At("snapshot"),
         NEW rs, NEW high, Seen(rs, high),
         \/ rs = record
         \/ rs = replica.rs /\ high = replica.seq,
         UNCHANGED <<rev, step, record, prompt, replica>>
  PROVE  PassInv'
  <1>1. PICK S : S = {g \in Counted : record[g] = "live"}
    OBVIOUS
  <1>2. Due' = Total(S)
    BY <1>1 DEF Due, Counted, Charged
  <1>3. PICK total : total = Total(Live(rs))
    OBVIOUS
  <1>4. /\ pass'.at \in {"set", "read"} /\ pass'.total = total /\ pass'.before = pass.before
        /\ pass'.at = "set" => IsComplete(pass.mark, high)
    BY <1>3 DEF Seen, TypeOK
  <1>5. SUFFICES ASSUME rev = pass.before, IsComplete(pass.mark, high)
                 PROVE  total >= Total(S)
    BY <1>2, <1>4 DEF PassInv, At
  <1>6. S \subseteq Live(rs)
    <2> SUFFICES ASSUME NEW g \in S PROVE rs[g] = "live" /\ g \in Grows
      BY DEF Live
    <2>1. g \in Grows /\ record[g] = "live" /\ g \in Counted
      BY <1>1 DEF Counted, Charged
    <2>2. CASE rs = record
      BY <2>1, <2>2
    <2>3. CASE rs = replica.rs /\ high = replica.seq
      <3>1. replica.rs[g] # "none"
        BY <1>5, <2>1, <2>3 DEF PassInv, IsComplete
      <3>2. replica.rs[g] # "terminal"
        BY <2>1 DEF RecordInv
      <3> QED BY <2>1, <2>3, <3>1, <3>2 DEF TypeOK
    <2> QED BY <2>2, <2>3
  <1>7. Live(rs) \in SUBSET Grows /\ S \in SUBSET Live(rs)
    BY <1>6 DEF Live
  <1>8. Total(S) <= Total(Live(rs)) /\ Total(S) \in Nat /\ Total(Live(rs)) \in Nat
    BY <1>7, TotalMono, TotalType
  <1> QED BY <1>3, <1>8

LEMMA PassStep ==
  ASSUME TypeOK, RecordInv, PassInv, Next
  PROVE  PassInv'
  <1>1. ASSUME \/ CounterRevisions \/ WatermarkFails \/ ReadForRaise
               \/ PassFails \/ SetVCPUAt \/ SetVCPU
        PROVE  PassInv'
    <2>1. \/ pass'.at \in {"idle", "watermark", "raise"}
          \/ pass'.at = "snapshot" /\ pass'.mark = -1
      <3>1. CASE WatermarkFails
        BY <3>1 DEF WatermarkFails, TypeOK
      <3>2. CASE CounterRevisions
        BY <3>2 DEF CounterRevisions, NoPass
      <3>3. CASE ReadForRaise
        BY <3>3 DEF ReadForRaise, NoPass, TypeOK
      <3>4. CASE PassFails \/ SetVCPUAt \/ SetVCPU
        BY <3>4 DEF PassFails, SetVCPUAt, SetVCPU, NoPass
      <3> QED BY <1>1, <3>1, <3>2, <3>3, <3>4
    <2> QED BY <2>1 DEF PassInv, At
  <1>2. ASSUME Watermark PROVE PassInv'
    <2>1. /\ pass'.at = "snapshot" /\ pass'.mark = seq
          /\ UNCHANGED <<rev, replica, step, prompt, record>>
      BY <1>2 DEF Watermark, TypeOK, usage, records
    <2>2. replica.seq >= seq => replica.rs = record
      <3>1. seq \in Nat /\ replica.seq \in 0..seq
        BY DEF TypeOK
      <3>2. replica.seq >= seq => replica.seq = seq
        BY <3>1
      <3> QED BY <3>2 DEF RecordInv
    <2>3. Counted' = Counted
      BY <2>1 DEF Counted, Charged
    <2> QED BY <2>1, <2>2, <2>3 DEF PassInv, At, RecordInv, Counted
  <1>3. ASSUME Replicate PROVE PassInv'
    <2>1. replica'.rs = record /\ UNCHANGED <<rev, pass, step, prompt, record>>
      BY <1>3 DEF Replicate, usage, records
    <2>2. Counted' = Counted /\ Due' = Due
      BY <2>1 DEF Counted, Charged, Due
    <2> QED BY <2>1, <2>2 DEF PassInv, At, RecordInv, Counted
  <1>4. ASSUME SnapshotCurrent PROVE PassInv'
    BY <1>4, SnapshotPass DEF SnapshotCurrent, usage, records
  <1>5. ASSUME SnapshotBehind PROVE PassInv'
    BY <1>5, SnapshotPass DEF SnapshotBehind, usage, records
  <1> QED BY <1>1, <1>2, <1>3, <1>4, <1>5, GrowPass, ChargePass DEF Next, Pass

LEMMA NextInv == IInv /\ [Next]_vars => IInv'
  <1> SUFFICES ASSUME IInv, [Next]_vars PROVE IInv'
    OBVIOUS
  <1>1. CASE Next
    BY <1>1, TypeStep, ChargeStep, RecordStep, PassStep DEF IInv
  <1>2. CASE UNCHANGED vars
    <2>1. TypeOK' /\ ChargeInv' /\ RecordInv'
      BY <1>2 DEF IInv, TypeOK, ChargeInv, RecordInv, vars
    <2>2. PassInv'
      BY <1>2 DEF IInv, PassInv, At, Due, Counted, Charged, vars
    <2> QED BY <2>1, <2>2 DEF IInv
  <1> QED BY <1>1, <1>2

LEMMA Invariance == Spec => []IInv
  BY InitInv, NextInv, PTL DEF Spec

-----------------------------------------------------------------------------
(* Every reachable state has its types; in particular the usage counter is *)
(* never negative, whatever charges, terminations and passes interleave    *)
(* (AddVCPU, SetVCPUAt).                                                   *)
THEOREM TypeCorrect == Spec => []TypeOK
  <1>1. IInv => TypeOK
    BY DEF IInv
  <1> QED BY <1>1, Invariance, PTL

(* Charges of different gateways never overwrite one another (AddVCPU's    *)
(* compare-and-set): each raises the counter by what it charges.           *)
THEOREM ChargesAreAdded == Spec => ChargesAddUp
  <1> DEFINE A == \A g \in Grows : g \notin Charged /\ g \in Charged' =>
                    counter' = counter + Size[g]
  <1>1. IInv /\ [Next]_vars => [A]_vars
    <2> SUFFICES ASSUME IInv, Next, NEW g \in Grows, g \notin Charged, g \in Charged'
                 PROVE  counter' = counter + Size[g]
      OBVIOUS
    <2>1. step[g] # "charged" /\ step'[g] = "charged"
      BY DEF Charged
    <2>2. ASSUME NEW h \in Grows,
                 \/ CheckVCPU(h) \/ Launch(h) \/ RecordLate(h) \/ Terminate(h)
                 \/ ChargeRead(h) \/ ChargeFails(h)
          PROVE  FALSE
      BY <2>1, <2>2 DEF CheckVCPU, Launch, RecordLate, Terminate, ChargeRead, ChargeFails,
                        IInv, TypeOK
    <2>3. ASSUME Pass \/ WatermarkFails \/ SnapshotBehind \/ Replicate \/ PassFails
          PROVE  FALSE
      BY <2>1, <2>3 DEF Pass, CounterRevisions, Watermark, SnapshotCurrent, SetVCPUAt,
                        ReadForRaise, SetVCPU, WatermarkFails, SnapshotBehind, Replicate,
                        PassFails
    <2>4. PICK h \in Grows : ChargeWrite(h)
      BY <2>2, <2>3 DEF Next
    <2>5. h = g /\ rev = saw[g][2]
      BY <2>1, <2>4 DEF ChargeWrite, IInv, TypeOK
    <2>6. saw[g][1] = counter
      BY <2>4, <2>5 DEF ChargeWrite, IInv, ChargeInv
    <2> QED BY <2>4, <2>5, <2>6 DEF ChargeWrite
  <1> QED BY <1>1, Invariance, PTL DEF Spec, ChargesAddUp

(* A complete pass never lowers the counter below what has been charged    *)
(* and still exists (setVCPUAt, RecordVCPULister), however its reads fall  *)
(* among launches, charges and terminations and however far the replica    *)
(* that serves the snapshot is behind.                                     *)
THEOREM PassCovers == Spec => CompletePassCovers
  <1> DEFINE A == At("set") /\ counter' < counter => counter' >= Due
  <1>1. IInv /\ [Next]_vars => [A]_vars
    <2> SUFFICES ASSUME IInv, Next, At("set"), counter' < counter
                 PROVE  counter' >= Due
      OBVIOUS
    <2>1. counter \in Nat
      BY DEF IInv, TypeOK
    <2>2. ASSUME UNCHANGED usage PROVE FALSE
      BY <2>1, <2>2 DEF usage
    <2>3. ASSUME NEW g \in Grows,
                 \/ CheckVCPU(g) \/ Launch(g) \/ RecordLate(g) \/ Terminate(g)
                 \/ ChargeRead(g) \/ ChargeFails(g)
          PROVE  UNCHANGED usage
      BY <2>3 DEF CheckVCPU, Launch, RecordLate, Terminate, ChargeRead, ChargeFails
    <2>4. ASSUME NEW g \in Grows, ChargeWrite(g)
          PROVE  FALSE
      <3>1. rev = saw[g][2] /\ counter' = saw[g][1] + Size[g] /\ step[g] = "read"
        BY <2>2, <2>4 DEF ChargeWrite
      <3>2. counter' = counter + Size[g]
        BY <3>1 DEF IInv, ChargeInv
      <3> QED BY <2>1, <3>2
    <2>5. ASSUME \/ CounterRevisions \/ Watermark \/ SnapshotCurrent \/ ReadForRaise
                 \/ WatermarkFails \/ SnapshotBehind \/ Replicate \/ PassFails
          PROVE  UNCHANGED usage
      BY <2>5 DEF CounterRevisions, Watermark, SnapshotCurrent, ReadForRaise, WatermarkFails,
                  SnapshotBehind, Replicate, PassFails
    <2>6. ~ SetVCPU
      BY DEF SetVCPU, At
    <2>7. SetVCPUAt
      BY <2>2, <2>3, <2>4, <2>5, <2>6 DEF Next, Pass
    <2>8. rev = pass.before /\ counter' = pass.total
      BY <2>2, <2>7 DEF SetVCPUAt
    <2>9. pass.total >= Due
      BY <2>8 DEF IInv, PassInv
    <2> QED BY <2>8, <2>9
  <1> QED BY <1>1, Invariance, PTL DEF Spec, CompletePassCovers
=============================================================================
