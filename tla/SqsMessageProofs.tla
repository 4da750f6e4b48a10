---------------------------- MODULE SqsMessageProofs ----------------------------
(***************************************************************************)
(* The proofs about SqsMessage: its type invariant, what a receipt handle  *)
(* guarantees while its visibility timeout runs (HandleHolds), and what a  *)
(* successful DeleteMessage means (DeleteMeansDeleted and the action       *)
(* property DeletedStaysDeleted), for any number of calls, generations     *)
(* and timeouts.                                                           *)
(***************************************************************************)
EXTENDS SqsMessage, TLAPS

USE SqsAssumption DEF Gens

-----------------------------------------------------------------------------
(* The inductive invariant, part by part. *)

\* The record, its tombstone and the body agree; only a sweep or a withdrawn
\* claim removes a record, and only once the body is gone.
RecordInv ==
  /\ rec.s = "absent" <=> rec.g = 0
  /\ rec.s # "absent" => rev > 0 /\ rec.d > 0
  /\ rec.g <= top
  /\ body # "removed" => rec.g = top
  /\ body = "removed" => tomb
  /\ rec.s = "deleted" => tomb
  /\ tomb /\ body # "removed" => rec.s = "deleted"

\* Before the send there is nothing to receive.
QuietInv ==
  body = "unsent" =>
    ~tomb /\ top = 0 /\ late = {} /\ \A c \in Callers : At(c, "idle")

\* A handle names a generation that was written; after the tombstone the
\* newest generation is held only by a caller that asked for the delete.
HandleInv ==
  \A g \in Held : g <= top /\ (tomb /\ g = top => g \in asked)

\* The record a write w that would be accepted was computed from.
Derived(w) ==
  \/ IsClaim(w) /\ rec.s = "absent" /\ w.val.g = 1
  \/ IsClaim(w) /\ rec.s = "inflight" /\ rec.d <= now /\ w.val.g = rec.g + 1
  \/ ~IsClaim(w) /\ rec.s = "inflight" /\ rec.g = w.h /\ w.val.g = w.h

\* A write under way, whatever happened to the record since it was computed.
WriteInv(w) ==
  /\ w.val.s \in {"inflight", "deleted"} /\ w.val.g \in Gens /\ w.val.d > 0
  /\ w.val.d <= w.val.r + Cap
  /\ IsClaim(w) => w.val.s = "inflight" /\ w.val.r <= now /\ w.val.d = w.val.r + w.v
  /\ ~IsClaim(w) => w.h \in Held
  /\ IsDelete(w) => w.h \in asked

\* A claim on its way to answer: acknowledged, and the body not seen removed.
Live(w) == w.at = "deliver" \/ (w.at = "recheck" /\ body # "removed")

\* A claim on its way to answer in time still finds its own record, which no
\* other call can change: nobody holds its handle yet.
LiveInv(w) ==
  /\ tomb /\ w.val.g = top => top \in asked
  /\ w.v > 0 /\ now < w.val.d =>
       /\ body # "removed" /\ rec = w.val /\ rev = w.exp
       /\ until[w.val.g] = NoHandle

\* A call, by the place it is at.
CallInv(w) ==
  /\ w.exp <= rev
  /\ w.at = "claim" => w.v <= Cap /\ IsClaim(w)
  /\ w.at = "put" =>
       /\ WriteInv(w)
       /\ w.exp = 0 => IsClaim(w) /\ w.val.g = 1
       /\ Accepts(w) => Derived(w)
  /\ w.at \in {"recheck", "deliver"} => IsClaim(w) /\ WriteInv(w) /\ w.val.g <= top
  /\ w.at \in {"deleteAgain", "settle"} => w.h \in Held \cap asked
  /\ w.at = "changeAgain" => w.h \in Held
  /\ w.at \in {"withdraw", "sweepState"} => body = "removed"
  /\ w.at = "sweepBody" => tomb
  /\ Live(w) => LiveInv(w)

LateInv(w) == WriteInv(w) /\ w.exp <= rev /\ (rev = w.exp => Derived(w))

\* No two claims on their way to answer are of one generation.
Distinct ==
  \A c, e \in Callers :
    Live(call[c]) /\ Live(call[e]) /\ c # e => call[c].val.g # call[e].val.g

IInv ==
  /\ TypeOK /\ RecordInv /\ QuietInv /\ HandleInv
  /\ \A c \in Callers : CallInv(call[c])
  /\ \A w \in late : LateInv(w)
  /\ Distinct /\ HandleHolds /\ DeleteMeansDeleted

-----------------------------------------------------------------------------
(* Types of the values the actions write. *)

LEMMA IdleType == Idle \in Calls /\ NoRecord \in Records
  BY DEF Idle, Calls, Records, NoRecord

Ats == {"idle", "claim", "put", "recheck", "withdraw", "deliver", "deleteAgain",
        "settle", "changeAgain", "sweepBody", "sweepState"}

LEMMA MoveType ==
  ASSUME NEW w \in Calls, NEW a \in Ats
  PROVE  [w EXCEPT !.at = a] \in Calls
  BY DEF Calls, Ats

LEMMA RevisionType ==
  ASSUME NEW w \in Calls, NEW a \in Ats, NEW e \in Nat
  PROVE  [w EXCEPT !.at = a, !.exp = e] \in Calls
  BY DEF Calls, Ats

LEMMA PutType ==
  ASSUME NEW h \in 0..MaxGen, NEW v \in Nat, NEW val \in Records, NEW e \in Nat,
         NEW n \in Nat
  PROVE  [at |-> "put", h |-> h, v |-> v, exp |-> e, n |-> n, val |-> val] \in Calls
  BY DEF Calls

LEMMA ApplyType ==
  ASSUME TypeOK, NEW w \in Calls, WriteInv(w), NEW acked \in BOOLEAN, Apply(w, acked)
  PROVE  /\ rec' \in Records /\ rev' \in Nat /\ tomb' \in BOOLEAN
         /\ top' \in 0..MaxGen /\ until' \in [Gens -> Nat]
         /\ rec'.d <= rec'.r + Cap
  <1>1. w.val \in Records /\ w.h \in 0..MaxGen
    BY DEF Calls
  <1>2. w.val.d \in Nat /\ w.val.g \in 0..MaxGen
    BY <1>1 DEF Records
  <1>3. until' \in [Gens -> Nat]
    BY <1>2 DEF Apply, TypeOK
  <1> QED
    BY <1>1, <1>2, <1>3 DEF Apply, TypeOK, WriteInv

LEMMA DeleteDecideType ==
  ASSUME TypeOK, NEW c \in Callers, NEW h \in Gens, NEW n \in Nat,
         DeleteDecide(c, h, n)
  PROVE  call' \in [Callers -> Calls] /\ ok' \subseteq Gens
  <1>1. [rec EXCEPT !.s = "deleted"] \in Records
    BY DEF TypeOK, Records
  <1>2. rev \in Nat /\ h \in 0..MaxGen
    BY DEF TypeOK
  <1>3. [at |-> "put", h |-> h, v |-> 0, exp |-> rev, n |-> n,
         val |-> [rec EXCEPT !.s = "deleted"]] \in Calls
    BY <1>1, <1>2, 0 \in Nat, PutType
  <1> QED
    BY IdleType, <1>3 DEF DeleteDecide, Return, Goto, TypeOK

LEMMA ChangeDecideType ==
  ASSUME TypeOK, NEW c \in Callers, NEW h \in Gens, NEW v \in Nat, NEW n \in Nat,
         ChangeDecide(c, h, v, n)
  PROVE  call' \in [Callers -> Calls]
  <1>1. rev \in Nat /\ h \in 0..MaxGen /\ now + v \in Nat
    BY DEF TypeOK
  <1>2. [rec EXCEPT !.d = now + v] \in Records
    BY <1>1 DEF TypeOK, Records
  <1>3. [at |-> "put", h |-> h, v |-> v, exp |-> rev, n |-> n,
         val |-> [rec EXCEPT !.d = now + v]] \in Calls
    BY <1>2, <1>1, PutType
  <1> QED
    BY IdleType, <1>3 DEF ChangeDecide, Return, Goto, TypeOK

LEMMA TypeStep ==
  ASSUME IInv, [Next]_vars
  PROVE  TypeOK'
  <1> USE IdleType DEF IInv, store, seen, Goto, Return, At, Begin
  <1>1. ASSUME NEW delay \in Delays, Send(delay) PROVE TypeOK'
    BY <1>1 DEF Send, TypeOK
  <1>2. ASSUME NEW c \in Callers, NEW v \in Timeouts, ClaimRead(c, v) PROVE TypeOK'
    <2>0. v \in Nat
      OBVIOUS
    <2>1. [Idle EXCEPT !.at = "claim", !.v = v] \in Calls
      BY <2>0 DEF Calls, Idle
    <2> QED
      BY <1>2, <2>1, SMTT(30) DEF ClaimRead, TypeOK
  <1>3. ASSUME NEW c \in Callers, ClaimDecide(c) PROVE TypeOK'
    <2>1. call[c].v \in Nat
      BY DEF TypeOK, Calls
    <2>2. rec.g < MaxGen => Claimed(call[c].v) \in Records
      BY <2>1, SMTT(30) DEF Claimed, Records, TypeOK
    <2>3. ASSUME NEW e \in Nat, NEW val \in Records
          PROVE  [call[c] EXCEPT !.at = "put", !.val = val, !.exp = e] \in Calls
      BY DEF TypeOK, Calls
    <2>4. rec.g < MaxGen =>
            [call[c] EXCEPT !.at = "put", !.val = Claimed(call[c].v),
                            !.exp = IF Present THEN rev ELSE 0] \in Calls
      BY <2>2, <2>3 DEF TypeOK
    <2> QED
      BY <1>3, <2>4 DEF ClaimDecide, TypeOK
  <1>4. ASSUME NEW c \in Callers, RecheckBody(c) PROVE TypeOK'
    BY <1>4, ZenonT(30) DEF RecheckBody, TypeOK, Calls
  <1>5. ASSUME NEW c \in Callers, DeleteState(c) PROVE TypeOK'
    BY <1>5 DEF DeleteState, TypeOK, NoRecord
  <1>6. ASSUME NEW c \in Callers, Deliver(c) PROVE TypeOK'
    <2>1. call[c].val.d \in Nat
      BY DEF TypeOK, Calls, Records
    <2>2. until' \in [Gens -> Nat] /\ got' \in Nat
      BY <1>6, <2>1 DEF Deliver, TypeOK
    <2> QED
      BY <1>6, <2>2 DEF Deliver, TypeOK
  <1>7. ASSUME NEW c \in Callers, NEW h \in Held, DeleteCall(c, h) PROVE TypeOK'
    BY <1>7, DeleteDecideType DEF DeleteCall, TypeOK, Held
  <1>8. ASSUME NEW c \in Callers, DeleteAgain(c) PROVE TypeOK'
    <2>1. call[c].h \in Gens /\ call[c].n + 1 \in Nat
      BY <1>8 DEF DeleteAgain, CallInv, Held, TypeOK, Calls
    <2> QED
      BY <1>8, <2>1, DeleteDecideType DEF DeleteAgain, TypeOK
  <1>9. ASSUME NEW c \in Callers, Settle(c) PROVE TypeOK'
    <2>1. call[c].h \in Gens
      BY <1>9 DEF Settle, CallInv, Held
    <2> QED
      BY <1>9, <2>1 DEF Settle, TypeOK
  <1>10. ASSUME NEW c \in Callers, NEW h \in Held, NEW v \in Timeouts,
                ChangeCall(c, h, v)
         PROVE TypeOK'
    BY <1>10, ChangeDecideType DEF ChangeCall, TypeOK, Held
  <1>11. ASSUME NEW c \in Callers, ChangeAgain(c) PROVE TypeOK'
    <2>1. call[c].h \in Gens /\ call[c].v \in Nat /\ call[c].n + 1 \in Nat
      BY <1>11 DEF ChangeAgain, CallInv, Held, TypeOK, Calls
    <2> QED
      BY <1>11, <2>1, ChangeDecideType DEF ChangeAgain, TypeOK
  <1>12. ASSUME NEW c \in Callers, SweepRead(c) PROVE TypeOK'
    <2>1. [Idle EXCEPT !.at = "sweepBody", !.exp = rev] \in Calls
      BY DEF Calls, Idle, TypeOK
    <2> QED
      BY <1>12, <2>1, SMTT(30) DEF SweepRead, TypeOK
  <1>13. ASSUME NEW c \in Callers, SweepBody(c) PROVE TypeOK'
    BY <1>13 DEF SweepBody, TypeOK, Calls
  <1>14. ASSUME NEW c \in Callers, PutAcked(c) PROVE TypeOK'
    <2>1. call[c] \in Calls /\ WriteInv(call[c])
      BY <1>14 DEF PutAcked, CallInv, TypeOK
    <2>2. [call[c] EXCEPT !.at = "recheck", !.exp = rev + 1] \in Calls
      <3>1. rev + 1 \in Nat /\ "recheck" \in Ats
        BY DEF TypeOK, Ats
      <3> QED
        BY <2>1, <3>1, RevisionType
    <2>3. IsDelete(call[c]) => call[c].h \in Gens
      BY <2>1 DEF WriteInv, TypeOK
    <2> QED
      BY <1>14, <2>1, <2>2, <2>3, ApplyType DEF PutAcked, TypeOK
  <1>15. ASSUME NEW c \in Callers, PutConflicts(c) PROVE TypeOK'
    BY <1>15, MoveType, ZenonT(30) DEF PutConflicts, TypeOK, Ats
  <1>16. ASSUME NEW c \in Callers, PutReplyLost(c) PROVE TypeOK'
    <2>1. call[c] \in Calls /\ WriteInv(call[c])
      BY <1>16 DEF PutReplyLost, CallInv, TypeOK
    <2>2. call' \in [Callers -> Calls]
      BY <1>16, <2>1, MoveType DEF PutReplyLost, AfterUnknown, TypeOK, Ats
    <2> QED
      BY <1>16, <2>1, <2>2, ApplyType DEF PutReplyLost, TypeOK
  <1>17. ASSUME NEW c \in Callers, PutDelayed(c) PROVE TypeOK'
    <2>1. call[c] \in Calls /\ [call[c] EXCEPT !.exp = rev] \in Calls
      BY DEF TypeOK, Calls
    <2>2. call' \in [Callers -> Calls]
      BY <1>17, <2>1, MoveType DEF PutDelayed, AfterUnknown, TypeOK, Ats
    <2> QED
      BY <1>17, <2>1, <2>2 DEF PutDelayed, TypeOK
  <1>18. ASSUME NEW c \in Callers, CallFails(c) PROVE TypeOK'
    BY <1>18 DEF CallFails, TypeOK
  <1>19. ASSUME NEW w \in late, LateWrite(w) PROVE TypeOK'
    <2>1. w \in Calls /\ WriteInv(w)
      BY DEF LateInv, TypeOK
    <2> QED
      BY <1>19, <2>1, ApplyType DEF LateWrite, TypeOK
  <1>20. CASE Tick
    BY <1>20 DEF Tick, Expired, TypeOK
  <1>21. CASE UNCHANGED vars
    BY <1>21 DEF vars, TypeOK
  <1> QED
    BY <1>1, <1>2, <1>3, <1>4, <1>5, <1>6, <1>7, <1>8, <1>9, <1>10, <1>11, <1>12,
       <1>13, <1>14, <1>15, <1>16, <1>17, <1>18, <1>19, <1>20, <1>21 DEF Next

-----------------------------------------------------------------------------
(* A step of one caller that leaves the record, the body and the clock alone, *)
(* and starts no claim on its way to answer.                                  *)
LEMMA LocalStep ==
  ASSUME IInv, TypeOK', NEW c \in Callers, NEW x,
         call' = [call EXCEPT ![c] = x],
         UNCHANGED <<now, body, rec, rev, until, tomb, top>>,
         asked \subseteq asked',
         CallInv(x)',
         Live(x) => Live(call[c]) /\ x.val = call[c].val,
         body = "unsent" => x.at = "idle" /\ late' = {},
         \A w \in late' : LateInv(w)',
         DeleteMeansDeleted'
  PROVE  IInv'
  <1>1. RecordInv' /\ QuietInv' /\ HandleInv' /\ HandleHolds'
    BY DEF IInv, TypeOK, RecordInv, QuietInv, HandleInv, HandleHolds, Held, At
  <1>2. ASSUME NEW e \in Callers, e # c
        PROVE  CallInv(call[e])'
    <2>1. CallInv(call[e])
      BY DEF IInv
    <2>2. call \in [Callers -> Calls]
      BY DEF IInv, TypeOK
    <2>3. call'[e] = call[e]
      BY <2>2, <1>2
    <2> QED
      BY <2>1, <2>3 DEF CallInv, WriteInv, Derived, Accepts, IsClaim, IsDelete, Present,
                  Held, Live, LiveInv
  <1>3. CallInv(call[c])'
    BY DEF IInv, TypeOK
  <1>4. Distinct'
    BY DEF IInv, TypeOK, Distinct, Live
  <1> QED
    BY <1>1, <1>2, <1>3, <1>4 DEF IInv

(* A write that is applied: what it does to the record and the handles, and *)
(* that it leaves every other call and every late write in order.           *)
LEMMA WriteStep ==
  ASSUME IInv, TypeOK', NEW w \in Calls, WriteInv(w), Derived(w),
         NEW acked \in BOOLEAN, Apply(w, acked),
         UNCHANGED <<now, body, asked>>
  PROVE  /\ RecordInv' /\ HandleInv' /\ HandleHolds'
         /\ \A x \in Calls : CallInv(x) => CallInv(x)'
         /\ \A x \in Calls : LateInv(x) => LateInv(x)'
         /\ DeleteMeansDeleted /\ ok' = ok => DeleteMeansDeleted'
  <1>1. w.val \in Records /\ w.h \in 0..MaxGen /\ w.v \in Nat
    BY DEF Calls
  <1>2. /\ w.val.s \in {"absent", "inflight", "deleted"}
        /\ w.val.g \in 0..MaxGen /\ w.val.d \in Nat /\ w.val.r \in Nat
    BY <1>1 DEF Records
  <1>3. /\ rec.g \in 0..MaxGen /\ rec.d \in Nat /\ top \in 0..MaxGen /\ rev \in Nat
        /\ now \in Nat /\ until \in [Gens -> Nat] /\ tomb \in BOOLEAN
        /\ rec.s \in {"absent", "inflight", "deleted"}
        /\ body \in {"unsent", "stored", "removed"}
    BY SMTT(30) DEF IInv, TypeOK, Records
  <1>4. /\ rec' = w.val /\ rev' = rev + 1 /\ tomb' = (tomb \/ IsDelete(w))
        /\ top' = IF w.val.g > top THEN w.val.g ELSE top
    BY DEF Apply
  <1>5. top' >= top /\ top' >= w.val.g /\ top' \in Nat
    BY <1>2, <1>3, <1>4
  <1>6. Held' = Held
    BY <1>1, <1>2, <1>3 DEF Held, Apply, WriteInv, IsClaim, IsDelete, NoHandle
  <1>7. \/ /\ IsClaim(w) /\ ~IsDelete(w) /\ w.val.s = "inflight"
           /\ rec.s = "absent" \/ (rec.s = "inflight" /\ rec.d <= now)
           /\ w.val.g = rec.g + 1 /\ until' = until
        \/ /\ ~IsClaim(w) /\ rec.s = "inflight" /\ rec.g = w.h /\ w.val.g = w.h
           /\ w.h \in Held /\ top' = top
           /\ w.val.s = "deleted" => w.h \in asked /\ until' = until
           /\ w.val.s # "deleted" => w.val.s = "inflight" /\ until'[w.h] <= w.val.d
           /\ \A g \in Gens \ {w.h} : until'[g] = until[g]
    <2>1. CASE IsClaim(w)
      <3>1. w.val.s = "inflight" /\ ~IsDelete(w)
        BY <2>1 DEF WriteInv, IsClaim, IsDelete
      <3>2. \/ rec.s = "absent" /\ w.val.g = 1
            \/ rec.s = "inflight" /\ rec.d <= now /\ w.val.g = rec.g + 1
        BY <2>1 DEF Derived
      <3>3. rec.s = "absent" => rec.g = 0
        BY DEF IInv, RecordInv
      <3>4. until' = until
        BY <2>1, <3>1 DEF Apply, IsClaim
      <3> QED BY <2>1, <3>1, <3>2, <3>3, <3>4
    <2>2. CASE ~IsClaim(w)
      <3>1. rec.s = "inflight" /\ rec.g = w.h /\ w.val.g = w.h /\ w.h \in Held
        BY <1>1, <1>2, <1>3, <2>2 DEF Derived, WriteInv, IsClaim, IsDelete
      <3>2. top' = top
        BY <1>2, <1>3, <1>4, <3>1 DEF IInv, RecordInv
      <3>3. w.val.s = "deleted" => w.h \in asked /\ until' = until
        BY <1>1, <1>2, <1>3, <2>2 DEF Apply, WriteInv, IsClaim, IsDelete
      <3>4. w.val.s # "deleted" => w.val.s = "inflight" /\ until'[w.h] <= w.val.d
        BY <1>1, <1>2, <1>3, <2>2, <3>1 DEF Apply, WriteInv, IsClaim, IsDelete, Held
      <3>5. \A g \in Gens \ {w.h} : until'[g] = until[g]
        BY <1>1, <1>3, <2>2 DEF Apply
      <3> QED BY <2>2, <3>1, <3>2, <3>3, <3>4, <3>5
    <2> QED BY <2>1, <2>2
  <1>8. RecordInv'
    <2>1. w.val.s # "absent" /\ w.val.g > 0 /\ w.val.d > 0
      BY <1>1, <1>2, <1>3, <1>7, SMTT(30) DEF Held, WriteInv
    <2>2. w.val.g <= top'
      BY <1>5
    <2>3. body # "removed" => w.val.g = top'
      BY <1>2, <1>3, <1>4, <1>7 DEF IInv, RecordInv
    <2>4. tomb' /\ body # "removed" => w.val.s = "deleted"
      BY <1>3, <1>4, <1>7 DEF IInv, RecordInv, IsDelete
    <2>5. (body = "removed" \/ w.val.s = "deleted") => tomb'
      BY <1>4 DEF IInv, RecordInv, IsDelete
    <2> QED
      BY <1>3, <1>4, <2>1, <2>2, <2>3, <2>4, <2>5, <1>2 DEF RecordInv
  <1>9. HandleInv'
    BY <1>2, <1>3, <1>4, <1>6, <1>7 DEF IInv, HandleInv, RecordInv, IsDelete, Held
  <1>10. HandleHolds'
    <2> SUFFICES ASSUME NEW g \in Held \ asked, until'[g] > now
                 PROVE  \/ /\ body = "stored" /\ rec'.s = "inflight"
                           /\ rec'.g = g /\ rec'.d >= until'[g]
                        \/ body = "removed" /\ g < top'
      BY <1>6 DEF HandleHolds
    <2>1. CASE body = "removed"
      BY <2>1, <1>3, <1>5 DEF IInv, RecordInv, HandleInv, Held
    <2>2. CASE body # "removed" /\ IsClaim(w)
      BY <2>2, <1>3, <1>7 DEF IInv, HandleHolds, Held
    <2>3. CASE body # "removed" /\ ~IsClaim(w) /\ g = w.h
      <3>1. body = "stored"
        BY <2>3, <1>3 DEF IInv, QuietInv, HandleInv, Held
      <3> QED
        BY <3>1, <2>3, <1>2, <1>3, <1>4, <1>7 DEF IInv, Held
    <2>4. CASE body # "removed" /\ ~IsClaim(w) /\ g # w.h
      BY <2>4, <1>3, <1>7 DEF IInv, HandleHolds, Held
    <2> QED
      BY <2>1, <2>2, <2>3, <2>4
  <1>11. ASSUME NEW x \in Calls, CallInv(x) PROVE CallInv(x)'
    <2>1. WriteInv(x) => WriteInv(x)'
      BY <1>6 DEF WriteInv, IsClaim, IsDelete
    <2>2. x.exp \in Nat /\ x.exp <= rev
      BY <1>11 DEF CallInv, Calls
    <2>3. ~Accepts(x)'
      BY <1>3, <1>4, <2>2 DEF Accepts, Present, WriteInv
    <2>4. x.val.g \in Nat /\ x.val.d \in Nat /\ x.v \in Nat
      BY DEF Calls, Records
    <2>5. Live(x) => LiveInv(x)'
      <3> SUFFICES ASSUME Live(x) PROVE LiveInv(x)'
        OBVIOUS
      <3>1. LiveInv(x) /\ x.val.g <= top /\ x.val.s = "inflight"
        BY <1>11 DEF CallInv, Live, WriteInv
      <3>2. ~(x.v > 0 /\ now < x.val.d)
        BY <3>1, <1>3, <1>7, <2>4 DEF LiveInv, Held
      <3>3. tomb' /\ x.val.g = top' => top' \in asked
        BY <3>1, <1>3, <1>4, <1>5, <1>7, <2>4 DEF IInv, RecordInv, LiveInv, IsDelete
      <3> QED
        BY <3>2, <3>3 DEF LiveInv
    <2>6. x.val.g <= top => x.val.g <= top'
      BY <1>3, <1>5, <2>4
    <2>7. tomb => tomb'
      BY <1>4
    <2>8. x.exp <= rev'
      BY <1>3, <1>4, <2>2
    <2> QED
      BY <1>11, <1>6, <2>1, <2>3, <2>5, <2>6, <2>7, <2>8 DEF CallInv, Live, IsClaim
  <1>12. ASSUME NEW x \in Calls, LateInv(x) PROVE LateInv(x)'
    <2>1. x.exp \in Nat
      BY DEF Calls
    <2> QED
      BY <1>12, <1>3, <1>4, <1>6, <2>1 DEF LateInv, WriteInv, IsClaim, IsDelete
  <1>13. DeleteMeansDeleted /\ ok' = ok => DeleteMeansDeleted'
    BY <1>2, <1>3, <1>4 DEF DeleteMeansDeleted, IInv, TypeOK
  <1> QED
    BY <1>8, <1>9, <1>10, <1>11, <1>12, <1>13

-----------------------------------------------------------------------------
(* The steps, one lemma per kind of call. *)

LEMMA IdleInv ==
  ASSUME TypeOK'
  PROVE  CallInv(Idle)' /\ ~Live(Idle) /\ Idle.at = "idle"
  BY DEF CallInv, Live, Idle, TypeOK

\* Before the send no caller is busy and no handle is held.
LEMMA SentStep ==
  ASSUME IInv, NEW c \in Callers, call[c].at # "idle" \/ Held # {}
  PROVE  body # "unsent"
  BY DEF IInv, QuietInv, HandleInv, At, TypeOK, Held

LEMMA LateKept ==
  ASSUME IInv, UNCHANGED <<now, rec, rev, until>>, asked \subseteq asked'
  PROVE  \A w \in late : LateInv(w)'
  BY DEF IInv, LateInv, WriteInv, Derived, IsClaim, IsDelete, Held

\* A call that ends: nothing else changes.
LEMMA ReturnStep ==
  ASSUME IInv, TypeOK', NEW c \in Callers, Return(c),
         UNCHANGED <<now, body, rec, rev, late, until, tomb, top>>,
         asked \subseteq asked', DeleteMeansDeleted'
  PROVE  IInv'
  <1>1. \A w \in late' : LateInv(w)'
    BY LateKept
  <1>2. call' = [call EXCEPT ![c] = Idle]
    BY DEF Return, Goto
  <1>3. body = "unsent" => late' = {}
    BY DEF IInv, QuietInv
  <1> QED
    BY <1>1, <1>2, <1>3, LocalStep, IdleInv

LEMMA ClaimReadStep ==
  ASSUME IInv, TypeOK', NEW c \in Callers, NEW v \in Timeouts, ClaimRead(c, v)
  PROVE  IInv'
  <1>0. PICK x : x = [Idle EXCEPT !.at = "claim", !.v = v]
    OBVIOUS
  <1>1. call' = [call EXCEPT ![c] = x]
    BY <1>0 DEF ClaimRead, Goto
  <1>2. x.at = "claim" /\ x.exp = 0 /\ x.v = v /\ x.h = 0
    BY <1>0 DEF Idle
  <1>3. CallInv(x)' /\ ~Live(x)
    <2>1. rev' \in Nat /\ x.v <= Cap
      BY <1>2 DEF TypeOK
    <2> QED
      BY <1>2, <2>1 DEF CallInv, Live, IsClaim
  <1>4. \A w \in late' : LateInv(w)'
    BY LateKept DEF ClaimRead, store, seen
  <1>5. DeleteMeansDeleted'
    BY DEF ClaimRead, store, seen, IInv, DeleteMeansDeleted
  <1> QED
    BY <1>1, <1>3, <1>4, <1>5, LocalStep DEF ClaimRead, store, seen

LEMMA ClaimDecideStep ==
  ASSUME IInv, TypeOK', NEW c \in Callers, ClaimDecide(c)
  PROVE  IInv'
  <1>1. DeleteMeansDeleted'
    BY DEF ClaimDecide, store, seen, IInv, DeleteMeansDeleted
  <1>2. CASE Return(c)
    BY <1>1, <1>2, ReturnStep DEF ClaimDecide, store, seen
  <1>3. CASE ~Return(c)
    <2>0. PICK x : x = [call[c] EXCEPT !.at = "put", !.val = Claimed(call[c].v),
                                      !.exp = IF Present THEN rev ELSE 0]
      OBVIOUS
    <2>1. call' = [call EXCEPT ![c] = x] /\ Receivable /\ rec.g < MaxGen
      BY <1>3, <2>0 DEF ClaimDecide, Goto
    <2>2. call[c] \in Calls /\ call[c].h = 0 /\ call[c].v <= Cap /\ call[c].v \in Nat
      BY DEF ClaimDecide, At, IInv, CallInv, IsClaim, TypeOK, Calls
    <2>3. /\ x.at = "put" /\ x.h = 0 /\ x.v = call[c].v
          /\ x.val = Claimed(call[c].v) /\ x.exp = IF Present THEN rev ELSE 0
      BY <2>0, <2>2 DEF Calls
    <2>4. /\ x.val.s = "inflight" /\ x.val.g = rec.g + 1 /\ x.val.d = now + x.v
          /\ x.val.r = now
      BY <2>3 DEF Claimed
    <2>5. /\ rec.g \in 0..MaxGen /\ rev \in Nat /\ now \in Nat \ {0} /\ rec.d \in Nat
          /\ rec.s = "absent" <=> rec.g = 0
      BY DEF IInv, TypeOK, Records, RecordInv
    <2>6. UNCHANGED <<now, rec, rev, late, until, asked, body, tomb, top>>
      BY DEF ClaimDecide, store, seen
    <2>7. WriteInv(x)'
      BY <2>1, <2>2, <2>3, <2>4, <2>5, <2>6 DEF WriteInv, IsClaim, IsDelete
    <2>8. Derived(x)'
      BY <2>1, <2>2, <2>3, <2>4, <2>5, <2>6 DEF Derived, IsClaim, Receivable, Present
    <2>9. x.exp <= rev' /\ (x.exp = 0 => x.val.g = 1)
      <3>1. Present => rev > 0
        BY DEF Present, RecordInv, IInv
      <3> QED
        BY <3>1, <2>3, <2>4, <2>5, <2>6 DEF Present
    <2>10. CallInv(x)' /\ ~Live(x)
      BY <2>3, <2>7, <2>8, <2>9 DEF CallInv, Live, IsClaim
    <2>11. body # "unsent"
      BY SentStep DEF ClaimDecide, At
    <2> QED
      BY <1>1, <2>1, <2>6, <2>10, <2>11, LateKept, LocalStep
  <1> QED
    BY <1>2, <1>3

LEMMA RecheckBodyStep ==
  ASSUME IInv, TypeOK', NEW c \in Callers, RecheckBody(c)
  PROVE  IInv'
  <1>0. PICK x : x = [call[c] EXCEPT !.at = IF body = "stored" THEN "deliver"
                                            ELSE "withdraw"]
    OBVIOUS
  <1>1. UNCHANGED <<now, rec, rev, late, until, asked, body, tomb, top, ok>>
    BY DEF RecheckBody, store, seen
  <1>2. call' = [call EXCEPT ![c] = x] /\ call[c].at = "recheck"
    BY <1>0 DEF RecheckBody, Goto, At
  <1>3. call[c] \in Calls /\ CallInv(call[c])
    BY DEF IInv, TypeOK
  <1>4. /\ x.at = IF body = "stored" THEN "deliver" ELSE "withdraw"
        /\ x.h = call[c].h /\ x.v = call[c].v /\ x.val = call[c].val
        /\ x.exp = call[c].exp
    BY <1>0, <1>3 DEF Calls
  <1>5. body \in {"stored", "removed"}
    BY <1>2, SentStep DEF IInv, TypeOK
  <1>6. CallInv(x)'
    BY <1>1, <1>2, <1>3, <1>4, <1>5
       DEF CallInv, Live, LiveInv, WriteInv, IsClaim, IsDelete, Held
  <1>7. Live(x) => Live(call[c]) /\ x.val = call[c].val
    BY <1>2, <1>4 DEF Live
  <1>8. DeleteMeansDeleted'
    BY <1>1 DEF IInv, DeleteMeansDeleted
  <1> QED
    BY <1>1, <1>2, <1>5, <1>6, <1>7, <1>8, LateKept, LocalStep

LEMMA SettledMeans ==
  ASSUME IInv, NEW h \in Held, Settled(h)
  PROVE  tomb \/ top > h
  BY DEF IInv, RecordInv, HandleInv, Settled, Present, TypeOK, Records, Held

LEMMA DeleteDecideStep ==
  ASSUME IInv, TypeOK', NEW c \in Callers, NEW h \in Held, NEW n,
         DeleteDecide(c, h, n), h \in asked', asked \subseteq asked',
         UNCHANGED <<now, rec, rev, late, until, body, tomb, top>>
  PROVE  IInv'
  <1>1. ok' = ok \/ (Settled(h) /\ ok' = ok \union {h})
    BY DEF DeleteDecide
  <1>2. DeleteMeansDeleted'
    BY <1>1, SettledMeans DEF IInv, DeleteMeansDeleted
  <1>3. CASE Return(c)
    BY <1>2, <1>3, ReturnStep
  <1>4. CASE ~Return(c)
    <2>0. PICK x : x = [at |-> "put", h |-> h, v |-> 0, exp |-> rev, n |-> n,
                        val |-> [rec EXCEPT !.s = "deleted"]]
      OBVIOUS
    <2>1. call' = [call EXCEPT ![c] = x] /\ ~Settled(h) /\ rec.g = h
      BY <1>4, <2>0 DEF DeleteDecide, Goto
    <2>2. /\ rec \in Records /\ rec.g \in 0..MaxGen /\ rev \in Nat /\ rec.d \in Nat
          /\ rec.r \in Nat /\ rec.d <= rec.r + Cap
          /\ rec.s \in {"absent", "inflight", "deleted"} /\ h \in Gens
      BY DEF IInv, TypeOK, Records, Held
    <2>3. /\ x.at = "put" /\ x.h = h /\ x.exp = rev /\ x.val.s = "deleted"
          /\ x.val.g = h /\ x.val.d = rec.d /\ x.val.r = rec.r
      BY <2>0, <2>1, <2>2 DEF Records
    <2>4. rec.s = "inflight" /\ rec.d > 0 /\ rev > 0
      BY <2>1, <2>2 DEF IInv, RecordInv, Settled, Present
    <2>5. CallInv(x)' /\ ~Live(x)
      BY <2>1, <2>2, <2>3, <2>4
         DEF CallInv, Live, WriteInv, Derived, IsClaim, IsDelete, Held
    <2>6. body # "unsent"
      BY SentStep
    <2> QED
      BY <1>2, <2>1, <2>5, <2>6, LateKept, LocalStep
  <1> QED
    BY <1>3, <1>4

LEMMA DeleteSteps ==
  ASSUME IInv, TypeOK', NEW c \in Callers,
         \/ \E h \in Held : DeleteCall(c, h)
         \/ DeleteAgain(c) \/ Settle(c)
  PROVE  IInv'
  <1>1. ASSUME NEW h \in Held, DeleteCall(c, h) PROVE IInv'
    BY <1>1, DeleteDecideStep DEF DeleteCall, store
  <1>2. CASE DeleteAgain(c)
    <2>1. call[c].h \in Held \cap asked
      BY <1>2 DEF DeleteAgain, At, IInv, CallInv
    <2>3. call[c].n + 1 \in Nat
      <3>1. call \in [Callers -> Calls]
        BY DEF IInv, TypeOK
      <3> QED BY <3>1 DEF Calls
    <2>2. PICK h \in Held, n \in Nat : h = call[c].h /\ n = call[c].n + 1
      BY <2>1, <2>3
    <2> QED
      BY <1>2, <2>1, <2>2, DeleteDecideStep DEF DeleteAgain, store
  <1>3. CASE Settle(c)
    <2>1. call[c].h \in Held
      BY <1>3 DEF Settle, At, IInv, CallInv
    <2>2. DeleteMeansDeleted'
      BY <1>3, <2>1, SettledMeans DEF Settle, store, IInv, DeleteMeansDeleted
    <2> QED
      BY <1>3, <2>2, ReturnStep DEF Settle, store
  <1> QED
    BY <1>1, <1>2, <1>3

LEMMA ChangeDecideStep ==
  ASSUME IInv, TypeOK', NEW c \in Callers, NEW h \in Held, NEW v \in Nat, NEW n,
         ChangeDecide(c, h, v, n),
         UNCHANGED <<now, rec, rev, late, until, asked, ok, body, tomb, top>>
  PROVE  IInv'
  <1>1. DeleteMeansDeleted'
    BY DEF IInv, DeleteMeansDeleted
  <1>2. CASE Return(c)
    BY <1>1, <1>2, ReturnStep
  <1>3. CASE ~Return(c)
    <2>0. PICK x : x = [at |-> "put", h |-> h, v |-> v, exp |-> rev, n |-> n,
                        val |-> [rec EXCEPT !.d = now + v]]
      OBVIOUS
    <2>1. /\ call' = [call EXCEPT ![c] = x]
          /\ rec.s = "inflight" /\ rec.g = h /\ now + v <= rec.r + Cap
      BY <1>3, <2>0 DEF ChangeDecide, Goto
    <2>2. /\ rec \in Records /\ rev \in Nat /\ now \in Nat \ {0} /\ rec.r \in Nat
          /\ rev > 0 /\ h \in Gens
      BY <2>1 DEF IInv, TypeOK, Records, RecordInv, Held
    <2>3. /\ x.at = "put" /\ x.h = h /\ x.exp = rev /\ x.val.s = "inflight"
          /\ x.val.g = h /\ x.val.d = now + v /\ x.val.r = rec.r
      BY <2>0, <2>1, <2>2 DEF Records
    <2>4. CallInv(x)' /\ ~Live(x)
      BY <2>1, <2>2, <2>3
         DEF CallInv, Live, WriteInv, Derived, IsClaim, IsDelete, Held
    <2>5. body # "unsent"
      BY SentStep
    <2> QED
      BY <1>1, <2>1, <2>4, <2>5, LateKept, LocalStep
  <1> QED
    BY <1>2, <1>3

LEMMA ChangeSteps ==
  ASSUME IInv, TypeOK', NEW c \in Callers,
         \/ \E h \in Held, v \in Timeouts : ChangeCall(c, h, v)
         \/ ChangeAgain(c)
  PROVE  IInv'
  <1>1. ASSUME NEW h \in Held, NEW v \in Timeouts, ChangeCall(c, h, v) PROVE IInv'
    <2>1. v \in Nat
      OBVIOUS
    <2> QED
      BY <1>1, <2>1, ChangeDecideStep DEF ChangeCall, store, seen
  <1>2. CASE ChangeAgain(c)
    <2>1. call[c].h \in Held /\ call[c].v \in Nat
      BY <1>2 DEF ChangeAgain, At, IInv, CallInv, TypeOK, Calls
    <2>3. call[c].n + 1 \in Nat
      <3>1. call \in [Callers -> Calls]
        BY DEF IInv, TypeOK
      <3> QED BY <3>1 DEF Calls
    <2>2. PICK h \in Held, v \in Nat, n \in Nat :
            h = call[c].h /\ v = call[c].v /\ n = call[c].n + 1
      BY <2>1, <2>3
    <2> QED
      BY <1>2, <2>2, ChangeDecideStep DEF ChangeAgain, store, seen
  <1> QED
    BY <1>1, <1>2

LEMMA SweepReadStep ==
  ASSUME IInv, TypeOK', NEW c \in Callers, SweepRead(c)
  PROVE  IInv'
  <1>0. PICK x : x = [Idle EXCEPT !.at = "sweepBody", !.exp = rev]
    OBVIOUS
  <1>1. call' = [call EXCEPT ![c] = x]
    BY <1>0 DEF SweepRead, Goto
  <1>2. x.at = "sweepBody" /\ x.exp = rev
    BY <1>0 DEF Idle
  <1>3. tomb /\ rev \in Nat
    BY DEF SweepRead, IInv, RecordInv, TypeOK
  <1>4. UNCHANGED <<now, rec, rev, late, until, asked, ok, body, tomb, top>>
    BY DEF SweepRead, store, seen
  <1>5. CallInv(x)' /\ ~Live(x)
    BY <1>2, <1>3, <1>4 DEF CallInv, Live
  <1>6. DeleteMeansDeleted' /\ body # "unsent"
    BY <1>4 DEF SweepRead, IInv, DeleteMeansDeleted
  <1> QED
    BY <1>1, <1>4, <1>5, <1>6, LateKept, LocalStep

LEMMA PutConflictsStep ==
  ASSUME IInv, TypeOK', NEW c \in Callers, PutConflicts(c)
  PROVE  IInv'
  <1>1. UNCHANGED <<now, rec, rev, late, until, asked, ok, body, tomb, top>>
    BY DEF PutConflicts, store, seen
  <1>2. DeleteMeansDeleted'
    BY <1>1 DEF IInv, DeleteMeansDeleted
  <1>3. CASE Return(c)
    BY <1>1, <1>2, <1>3, ReturnStep
  <1>4. CASE ~Return(c)
    <2>0. PICK x : x = [call[c] EXCEPT !.at = IF IsDelete(call[c])
                                              THEN "deleteAgain" ELSE "changeAgain"]
      OBVIOUS
    <2>1. /\ call' = [call EXCEPT ![c] = x] /\ ~IsClaim(call[c])
          /\ call[c].at = "put"
      BY <1>4, <2>0 DEF PutConflicts, Goto, At
    <2>2. call[c] \in Calls /\ CallInv(call[c])
      BY DEF IInv, TypeOK
    <2>3. /\ x.at = IF IsDelete(call[c]) THEN "deleteAgain" ELSE "changeAgain"
          /\ x.h = call[c].h /\ x.exp = call[c].exp
      BY <2>0, <2>2 DEF Calls
    <2>4. CallInv(x)' /\ ~Live(x)
      BY <1>1, <2>1, <2>2, <2>3 DEF CallInv, Live, WriteInv, Held
    <2>5. body # "unsent"
      BY <2>1, SentStep
    <2> QED
      BY <1>1, <1>2, <2>1, <2>4, <2>5, LateKept, LocalStep
  <1> QED
    BY <1>3, <1>4

\* A delete whose reply is lost goes on to settle.
LEMMA SettleNext ==
  ASSUME IInv, NEW c \in Callers, At(c, "put"), IsDelete(call[c]),
         rev' \in Nat, rev' >= rev, Held' = Held, asked' = asked
  PROVE  \E x : /\ x = [call[c] EXCEPT !.at = "settle"]
                /\ CallInv(x)' /\ ~Live(x) /\ ~Live(x)'
  <1>0. PICK x : x = [call[c] EXCEPT !.at = "settle"]
    OBVIOUS
  <1>1. call[c] \in Calls /\ CallInv(call[c]) /\ call[c].at = "put" /\ rev \in Nat
    BY DEF IInv, TypeOK, At
  <1>2. x.at = "settle" /\ x.h = call[c].h /\ x.exp = call[c].exp /\ x.exp \in Nat
    BY <1>0, <1>1 DEF Calls
  <1>3. ~IsClaim(call[c]) /\ call[c].h \in Held \cap asked
    BY <1>1 DEF CallInv, WriteInv, IsDelete
  <1>4. x.exp <= rev'
    BY <1>1, <1>2 DEF CallInv
  <1>5. CallInv(x)' /\ ~Live(x) /\ ~Live(x)'
    BY <1>2, <1>3, <1>4 DEF CallInv, Live
  <1> QED
    BY <1>0, <1>5

LEMMA PutDelayedStep ==
  ASSUME IInv, TypeOK', NEW c \in Callers, PutDelayed(c)
  PROVE  IInv'
  <1>1. UNCHANGED <<now, rec, rev, until, asked, ok, body, tomb, top>>
    BY DEF PutDelayed, seen
  <1>2. DeleteMeansDeleted'
    BY <1>1 DEF IInv, DeleteMeansDeleted
  <1>3. call[c] \in Calls /\ CallInv(call[c]) /\ call[c].at = "put" /\ rev \in Nat
    BY DEF IInv, TypeOK, PutDelayed, At
  <1>4. \A w \in late' : LateInv(w)'
    <2>1. PICK y : y = [call[c] EXCEPT !.exp = rev]
      OBVIOUS
    <2>2. /\ y.exp = rev /\ y.h = call[c].h /\ y.v = call[c].v
          /\ y.val = call[c].val
      BY <2>1, <1>3 DEF Calls
    <2>3. Accepts(call[c]) => LateInv(y)'
      BY <1>1, <1>3, <2>2
         DEF CallInv, LateInv, WriteInv, Derived, IsClaim, IsDelete, Held
    <2>4. \A w \in late : LateInv(w)'
      BY <1>1, LateKept
    <2> QED
      BY <2>1, <2>3, <2>4 DEF PutDelayed
  <1>5. body # "unsent"
    BY <1>3, SentStep
  <1>6. CASE IsDelete(call[c])
    <2>1. PICK x : /\ x = [call[c] EXCEPT !.at = "settle"]
                   /\ CallInv(x)' /\ ~Live(x)
      BY <1>1, <1>3, <1>6, SettleNext DEF At, Held
    <2>2. call' = [call EXCEPT ![c] = x]
      BY <1>6, <2>1 DEF PutDelayed, AfterUnknown, Goto
    <2> QED
      BY <1>1, <1>2, <1>4, <1>5, <2>1, <2>2, LocalStep
  <1>7. CASE ~IsDelete(call[c])
    <2>1. call' = [call EXCEPT ![c] = Idle]
      BY <1>7 DEF PutDelayed, AfterUnknown, Return, Goto
    <2> QED
      BY <1>1, <1>2, <1>4, <1>5, <2>1, IdleInv, LocalStep
  <1> QED
    BY <1>6, <1>7

LEMMA DeleteStateStep ==
  ASSUME IInv, TypeOK', NEW c \in Callers, DeleteState(c)
  PROVE  IInv'
  <1>1. UNCHANGED <<now, late, until, asked, ok, body, tomb, top>>
    BY DEF DeleteState, seen
  <1>2. DeleteMeansDeleted'
    BY <1>1 DEF IInv, DeleteMeansDeleted
  <1>3. CASE UNCHANGED <<rec, rev>>
    BY <1>1, <1>2, <1>3, ReturnStep DEF DeleteState
  <1>4. CASE ~UNCHANGED <<rec, rev>>
    <2>1. rec' = NoRecord /\ rev' = rev + 1 /\ call' = [call EXCEPT ![c] = Idle]
      BY <1>4 DEF DeleteState, Return, Goto
    <2>2. rec'.s = "absent" /\ rec'.g = 0
      BY <2>1 DEF NoRecord
    <2>3. body = "removed" /\ tomb /\ rev \in Nat /\ top \in Nat
      BY DEF DeleteState, IInv, CallInv, RecordInv, TypeOK
    <2>4. RecordInv' /\ QuietInv'
      BY <1>1, <2>2, <2>3 DEF RecordInv, QuietInv
    <2>5. HandleInv' /\ Held' = Held
      BY <1>1 DEF IInv, HandleInv, Held
    <2>6. HandleHolds'
      BY <1>1, <2>3, <2>5 DEF IInv, HandleHolds, HandleInv, Held
    <2>7. ASSUME NEW x \in Calls, CallInv(x) PROVE CallInv(x)'
      <3>1. x.exp \in Nat /\ x.exp <= rev
        BY <2>7 DEF CallInv, Calls
      <3>2. x.at = "put" /\ Accepts(x)' => Derived(x)'
        BY <2>7, <2>1, <2>2, <2>3, <3>1
           DEF CallInv, Accepts, Present, Derived, IsClaim
      <3>3. WriteInv(x) => WriteInv(x)'
        BY <1>1, <2>5 DEF WriteInv
      <3>4. Live(x) => LiveInv(x)'
        BY <2>7, <1>1, <2>3 DEF CallInv, Live, LiveInv
      <3>5. x.exp <= rev'
        BY <2>1, <2>3, <3>1
      <3> QED
        BY <2>7, <1>1, <2>5, <3>2, <3>3, <3>4, <3>5 DEF CallInv, Live
    <2>8. \A e \in Callers : CallInv(call[e])'
      BY <2>1, <2>7, IdleInv DEF IInv, TypeOK
    <2>9. ASSUME NEW w \in late PROVE LateInv(w)'
      <3>1. w.exp \in Nat /\ LateInv(w)
        BY DEF IInv, TypeOK, Calls
      <3> QED
        BY <1>1, <2>1, <2>3, <2>5, <3>1 DEF LateInv, WriteInv
    <2>10. Distinct'
      BY <1>1, <2>1, IdleInv DEF IInv, TypeOK, Distinct, Live
    <2> QED
      BY <1>1, <1>2, <2>4, <2>5, <2>6, <2>8, <2>9, <2>10 DEF IInv
  <1> QED
    BY <1>3, <1>4

LEMMA SweepBodyStep ==
  ASSUME IInv, TypeOK', NEW c \in Callers, SweepBody(c)
  PROVE  IInv'
  <1>1. UNCHANGED <<now, rec, rev, late, until, asked, ok, tomb, top>>
    BY DEF SweepBody, seen
  <1>2. body' = "removed" /\ tomb /\ top \in Nat
    BY DEF SweepBody, At, IInv, CallInv, TypeOK
  <1>3. body # "removed" => rec.s = "deleted"
    BY <1>2 DEF IInv, RecordInv
  <1>4. RecordInv' /\ QuietInv' /\ DeleteMeansDeleted'
    BY <1>1, <1>2 DEF IInv, RecordInv, QuietInv, DeleteMeansDeleted
  <1>5. HandleInv' /\ Held' = Held
    BY <1>1 DEF IInv, HandleInv, Held
  <1>6. HandleHolds'
    BY <1>1, <1>2, <1>5 DEF IInv, HandleHolds, HandleInv, Held
  <1>7. ASSUME NEW x \in Calls, CallInv(x) PROVE CallInv(x)'
    <2>1. Live(x)' => LiveInv(x)'
      <3> SUFFICES ASSUME Live(x)' PROVE LiveInv(x)'
        OBVIOUS
      <3>1. x.at = "deliver" /\ LiveInv(x) /\ x.val.s = "inflight"
        BY <1>2, <1>7 DEF Live, CallInv, WriteInv
      <3>2. ~(x.v > 0 /\ now < x.val.d)
        BY <1>3, <3>1 DEF LiveInv
      <3> QED
        BY <1>1, <3>1, <3>2 DEF LiveInv
    <2> QED
      BY <1>1, <1>2, <1>5, <1>7, <2>1
         DEF CallInv, WriteInv, Accepts, Present, Derived, IsClaim, IsDelete
  <1>8. \A e \in Callers : CallInv(call[e])'
    <2>0. PICK x : x = [call[c] EXCEPT !.at = "sweepState"]
      OBVIOUS
    <2>1. call' = [call EXCEPT ![c] = x] /\ call[c] \in Calls /\ CallInv(call[c])
      BY <2>0 DEF SweepBody, Goto, IInv, TypeOK
    <2>2. x.at = "sweepState" /\ x.exp = call[c].exp
      BY <2>0, <2>1 DEF Calls
    <2>3. CallInv(x)'
      BY <1>1, <1>2, <2>1, <2>2 DEF CallInv, Live
    <2> QED
      BY <2>1, <2>3, <1>7 DEF IInv, TypeOK
  <1>9. \A w \in late : LateInv(w)'
    BY <1>1, LateKept
  <1>10. Distinct'
    <2>1. call \in [Callers -> Calls] /\ call[c].at = "sweepBody"
      BY DEF IInv, TypeOK, SweepBody, At
    <2>2. ASSUME NEW e \in Callers, Live(call[e])'
          PROVE  call'[e] = call[e] /\ Live(call[e])
      BY <1>2, <2>1, <2>2 DEF SweepBody, Goto, Live, Calls
    <2> QED
      BY <2>2 DEF IInv, Distinct
  <1> QED
    BY <1>1, <1>4, <1>5, <1>6, <1>8, <1>9, <1>10 DEF IInv

LEMMA DeliverStep ==
  ASSUME IInv, TypeOK', NEW c \in Callers, Deliver(c)
  PROVE  /\ IInv'
         /\ got' # got => ~tomb
  <1> DEFINE g == call[c].val.g
             d == call[c].val.d
  <1>1. UNCHANGED <<now, rec, rev, late, body, asked, ok, tomb, top>>
    BY DEF Deliver, store
  <1>2. /\ call[c] \in Calls /\ CallInv(call[c]) /\ call[c].at = "deliver"
        /\ call' = [call EXCEPT ![c] = Idle] /\ call \in [Callers -> Calls]
    BY DEF IInv, TypeOK, Deliver, At, Return, Goto
  <1>3. /\ WriteInv(call[c]) /\ LiveInv(call[c]) /\ IsClaim(call[c])
        /\ g \in Gens /\ g <= top /\ d > 0 /\ d \in Nat /\ call[c].v \in Nat
        /\ now \in Nat /\ until \in [Gens -> Nat] /\ call[c].val.r \in Nat
    <2>1. WriteInv(call[c]) /\ LiveInv(call[c]) /\ IsClaim(call[c]) /\ g <= top
      BY <1>2 DEF CallInv, Live
    <2>2. g \in Gens /\ d > 0
      BY <2>1 DEF WriteInv
    <2>3. d \in Nat /\ call[c].v \in Nat /\ call[c].val.r \in Nat
      BY <1>2 DEF Calls, Records
    <2>4. now \in Nat /\ until \in [Gens -> Nat]
      BY DEF IInv, TypeOK
    <2> QED
      BY <2>1, <2>2, <2>3, <2>4
  <1>4. CASE until' = until /\ got' = got
    <2>1. DeleteMeansDeleted'
      BY <1>1 DEF IInv, DeleteMeansDeleted
    <2> QED
      BY <1>1, <1>4, <2>1, ReturnStep DEF Deliver
  <1>5. CASE ~(until' = until /\ got' = got)
    <2>1. /\ until' = [until EXCEPT ![g] = d]
          /\ ~(call[c].v > 0 /\ now >= d)
          /\ call[c].v = 0 => got' = got
      BY <1>3, <1>5 DEF Deliver
    <2>2. call[c].v > 0 =>
            /\ body # "removed" /\ rec.s = "inflight" /\ rec.g = g /\ rec.d = d
            /\ ~tomb /\ body = "stored"
      <3> SUFFICES ASSUME call[c].v > 0
                   PROVE  /\ body # "removed" /\ rec.s = "inflight" /\ rec.g = g
                          /\ rec.d = d /\ ~tomb /\ body = "stored"
        OBVIOUS
      <3>1. now < d
        BY <1>3, <2>1
      <3>2. body # "removed" /\ rec = call[c].val
        BY <1>3, <3>1 DEF LiveInv
      <3>3. rec.s = "inflight"
        BY <1>3, <3>2 DEF WriteInv
      <3>4. ~tomb
        BY <3>2, <3>3 DEF IInv, RecordInv
      <3>5. body = "stored"
        BY <1>2, <3>2, SentStep DEF IInv, TypeOK
      <3> QED
        BY <3>2, <3>3, <3>4, <3>5
    <2>3. call[c].v = 0 => d <= now
      BY <1>3 DEF WriteInv
    <2>4. Held' = Held \union {g}
      BY <1>3, <2>1 DEF Held, NoHandle
    <2>5. RecordInv' /\ QuietInv' /\ DeleteMeansDeleted'
      BY <1>1, <1>2, SentStep DEF IInv, RecordInv, QuietInv, DeleteMeansDeleted
    <2>6. HandleInv'
      BY <1>1, <1>3, <2>4 DEF IInv, HandleInv, LiveInv
    <2>7. HandleHolds'
      <3> SUFFICES ASSUME NEW e \in Held' \ asked, until'[e] > now
                   PROVE  \/ /\ body = "stored" /\ rec.s = "inflight"
                             /\ rec.g = e /\ rec.d >= until'[e]
                          \/ body = "removed" /\ e < top
        BY <1>1 DEF HandleHolds
      <3>1. CASE e = g
        <4>1. until'[e] = d
          BY <3>1, <1>3, <2>1
        <4>2. call[c].v > 0
          BY <4>1, <1>3, <2>3
        <4> QED
          BY <3>1, <4>1, <4>2, <1>3, <2>2
      <3>2. CASE e # g
        <4>1. e \in Held \ asked /\ until'[e] = until[e]
          BY <3>2, <1>3, <2>1, <2>4 DEF Held
        <4> QED
          BY <4>1 DEF IInv, HandleHolds
      <3> QED
        BY <3>1, <3>2
    <2>8. ASSUME NEW e \in Callers PROVE CallInv(call[e])'
      <3>1. CASE e = c
        BY <1>2, <3>1, IdleInv
      <3>2. CASE e # c
        <4>1. call'[e] = call[e] /\ CallInv(call[e])
          BY <1>2, <3>2 DEF IInv
        <4>2. WriteInv(call[e]) => WriteInv(call[e])'
          BY <4>1, <1>1, <2>4 DEF WriteInv, IsClaim, IsDelete
        <4>3. Live(call[e]) => LiveInv(call[e])'
          <5> SUFFICES ASSUME Live(call[e]) PROVE LiveInv(call[e])'
            OBVIOUS
          <5>1. LiveInv(call[e]) /\ WriteInv(call[e])
            BY <4>1 DEF CallInv, Live
          <5>2. call[e].val.g # g /\ call[e].val.g \in Gens
            BY <1>2, <3>2, <5>1 DEF IInv, Distinct, Live, WriteInv
          <5>3. until'[call[e].val.g] = until[call[e].val.g]
            BY <1>3, <2>1, <5>2
          <5> QED
            BY <1>1, <4>1, <5>1, <5>3 DEF LiveInv
        <4> QED
          BY <1>1, <2>4, <4>1, <4>2, <4>3
             DEF CallInv, Live, Accepts, Present, Derived, IsClaim
      <3> QED
        BY <3>1, <3>2
    <2>9. \A w \in late : LateInv(w)'
      BY <1>1, <2>4 DEF IInv, LateInv, WriteInv, Derived, IsClaim, IsDelete
    <2>10. Distinct'
      BY <1>1, <1>2, IdleInv DEF IInv, Distinct, Live
    <2> QED
      BY <1>1, <2>1, <2>2, <1>3, <2>5, <2>6, <2>7, <2>8, <2>9, <2>10 DEF IInv
  <1> QED
    BY <1>4, <1>5

-----------------------------------------------------------------------------
(* Writes that are applied. *)

LEMMA PutAckedStep ==
  ASSUME IInv, TypeOK', NEW c \in Callers, PutAcked(c)
  PROVE  IInv'
  <1>1. PICK w \in Calls : w = call[c]
    BY DEF IInv, TypeOK
  <1>2. /\ CallInv(w) /\ w.at = "put" /\ WriteInv(w) /\ Derived(w) /\ Apply(w, TRUE)
        /\ call \in [Callers -> Calls] /\ rev \in Nat
    BY <1>1 DEF IInv, TypeOK, PutAcked, At, CallInv
  <1>3. UNCHANGED <<now, body, late, asked>>
    BY DEF PutAcked
  <1>4. /\ RecordInv' /\ HandleInv' /\ HandleHolds'
        /\ \A x \in Calls : CallInv(x) => CallInv(x)'
        /\ \A x \in Calls : LateInv(x) => LateInv(x)'
        /\ DeleteMeansDeleted /\ ok' = ok => DeleteMeansDeleted'
    BY <1>2, <1>3, WriteStep
  <1>5. \A x \in late' : LateInv(x)'
    BY <1>3, <1>4 DEF IInv, TypeOK
  <1>6. body # "unsent"
    BY <1>1, <1>2, SentStep
  <1>7. DeleteMeansDeleted'
    <2>1. CASE IsDelete(w)
      BY <1>2, <2>1 DEF Apply, DeleteMeansDeleted
    <2>2. CASE ~IsDelete(w)
      BY <1>1, <1>4, <2>2 DEF PutAcked, IInv
    <2> QED
      BY <2>1, <2>2
  <1>8. CASE ~IsClaim(w)
    <2>1. call' = [call EXCEPT ![c] = Idle]
      BY <1>1, <1>8 DEF PutAcked, Goto
    <2>2. \A e \in Callers : CallInv(call[e])'
      BY <1>2, <1>4, <2>1, IdleInv DEF IInv
    <2>3. Distinct'
      BY <1>2, <1>3, <2>1, IdleInv DEF IInv, Distinct, Live
    <2> QED
      BY <1>3, <1>4, <1>5, <1>6, <1>7, <2>2, <2>3 DEF IInv, QuietInv
  <1>9. CASE IsClaim(w)
    <2>0. PICK x : x = [w EXCEPT !.at = "recheck", !.exp = rev + 1]
      OBVIOUS
    <2>1. call' = [call EXCEPT ![c] = x]
      BY <1>1, <1>9, <2>0 DEF PutAcked, Goto
    <2>2. /\ x.at = "recheck" /\ x.exp = rev + 1 /\ x.h = w.h /\ x.v = w.v
          /\ x.val = w.val
      BY <2>0 DEF Calls
    <2>3. /\ rec' = w.val /\ rev' = rev + 1 /\ until' = until
          /\ tomb' = tomb /\ top' = IF w.val.g > top THEN w.val.g ELSE top
      BY <1>2, <1>9 DEF Apply, WriteInv, IsDelete, IInv, TypeOK
    <2>4. w.val.g \in Gens /\ top \in Nat /\ rec.g \in Nat /\ w.val.g = rec.g + 1
      <3>1. top \in Nat /\ rec.g \in Nat /\ (rec.s = "absent" <=> rec.g = 0)
        BY DEF IInv, TypeOK, Records, RecordInv
      <3> QED
        BY <1>2, <1>9, <3>1 DEF WriteInv, Derived
    <2>5. body # "removed" => w.val.g = top + 1 /\ ~tomb
      BY <1>2, <1>9, <2>4 DEF IInv, RecordInv, Derived
    <2>6. LiveInv(x)' \/ body = "removed"
      <3> SUFFICES ASSUME body # "removed" PROVE LiveInv(x)'
        OBVIOUS
      <3>1. until[w.val.g] = NoHandle
        BY <2>4, <2>5 DEF IInv, HandleInv, Held
      <3> QED
        BY <1>3, <2>2, <2>3, <2>5, <3>1 DEF LiveInv
    <2>7. WriteInv(x)'
      BY <1>2, <1>3, <1>9, <2>2, <2>3 DEF WriteInv, IsClaim, IsDelete, Held
    <2>8. CallInv(x)'
      BY <1>3, <1>9, <2>2, <2>3, <2>4, <2>6, <2>7, <1>2 DEF CallInv, Live, IsClaim
    <2>9. \A e \in Callers : CallInv(call[e])'
      BY <1>2, <1>4, <2>1, <2>8 DEF IInv
    <2>10. Distinct'
      <3>1. ASSUME NEW e \in Callers, e # c, Live(call[e])', body # "removed"
            PROVE  call'[e] = call[e] /\ Live(call[e]) /\ call[e].val.g # w.val.g
        <4>1. call'[e] = call[e] /\ call[e] \in Calls
          BY <1>2, <2>1, <3>1
        <4>2. Live(call[e]) /\ CallInv(call[e])
          BY <1>3, <3>1, <4>1 DEF Live, IInv
        <4>3. call[e].val.g <= top /\ call[e].val.g \in Nat
          BY <4>1, <4>2 DEF Live, CallInv, Calls, Records
        <4> QED
          BY <2>4, <2>5, <3>1, <4>1, <4>2, <4>3
      <3>2. CASE body # "removed"
        BY <1>2, <2>1, <2>2, <3>1, <3>2 DEF IInv, Distinct
      <3>3. CASE body = "removed"
        <4>1. ~Live(x)'
          BY <1>3, <2>2, <3>3 DEF Live
        <4> QED
          BY <1>2, <1>3, <2>1, <4>1 DEF IInv, Distinct, Live
      <3> QED
        BY <3>2, <3>3
    <2> QED
      BY <1>3, <1>4, <1>5, <1>6, <1>7, <2>9, <2>10 DEF IInv, QuietInv
  <1> QED
    BY <1>8, <1>9

LEMMA PutReplyLostStep ==
  ASSUME IInv, TypeOK', NEW c \in Callers, PutReplyLost(c)
  PROVE  IInv'
  <1>1. PICK w \in Calls : w = call[c]
    BY DEF IInv, TypeOK
  <1>2. /\ CallInv(w) /\ w.at = "put" /\ WriteInv(w) /\ Derived(w) /\ Apply(w, FALSE)
        /\ call \in [Callers -> Calls] /\ rev \in Nat
    BY <1>1 DEF IInv, TypeOK, PutReplyLost, At, CallInv
  <1>3. UNCHANGED <<now, body, late, asked, ok>>
    BY DEF PutReplyLost
  <1>4. /\ RecordInv' /\ HandleInv' /\ HandleHolds'
        /\ \A x \in Calls : CallInv(x) => CallInv(x)'
        /\ \A x \in Calls : LateInv(x) => LateInv(x)'
        /\ DeleteMeansDeleted'
    BY <1>2, <1>3, WriteStep DEF IInv
  <1>5. \A x \in late' : LateInv(x)'
    BY <1>3, <1>4 DEF IInv, TypeOK
  <1>6. body # "unsent"
    BY <1>1, <1>2, SentStep
  <1>7. PICK x : CallInv(x)' /\ ~Live(x)' /\ call' = [call EXCEPT ![c] = x]
    <2>1. CASE IsDelete(w)
      <3>1. rev' \in Nat /\ rev' >= rev /\ until' = until
        BY <1>2, <2>1 DEF Apply
      <3> QED
        BY <1>1, <1>2, <1>3, <2>1, <3>1, SettleNext
           DEF PutReplyLost, AfterUnknown, Goto, Held
    <2>2. CASE ~IsDelete(w)
      <3>1. ~Live(Idle)'
        BY DEF Live, Idle
      <3> QED
        BY <1>1, <2>2, <3>1, IdleInv DEF PutReplyLost, AfterUnknown, Return, Goto
    <2> QED
      BY <2>1, <2>2
  <1>8. \A e \in Callers : CallInv(call[e])'
    BY <1>2, <1>4, <1>7 DEF IInv
  <1>9. Distinct'
    BY <1>2, <1>3, <1>7 DEF IInv, Distinct, Live
  <1> QED
    BY <1>3, <1>4, <1>5, <1>6, <1>8, <1>9 DEF IInv, QuietInv

LEMMA LateWriteStep ==
  ASSUME IInv, TypeOK', NEW w \in late, LateWrite(w)
  PROVE  IInv'
  <1>1. UNCHANGED <<now, body, call, asked, ok>> /\ late' \subseteq late
    BY DEF LateWrite
  <1>2. w \in Calls /\ WriteInv(w) /\ (rev = w.exp => Derived(w)) /\ late # {}
    BY DEF IInv, TypeOK, LateInv
  <1>3. CASE rev # w.exp
    <2>1. UNCHANGED <<rec, rev, tomb, top, until>>
      BY <1>3 DEF LateWrite
    <2>2. \A x \in late : LateInv(x)'
      BY <1>1, <2>1, LateKept
    <2>3. ASSUME NEW e \in Callers PROVE CallInv(call[e])'
      <3>1. CallInv(call[e]) /\ call'[e] = call[e]
        BY <1>1 DEF IInv
      <3> QED
        BY <1>1, <2>1, <3>1 DEF CallInv, WriteInv, Derived, Accepts, IsClaim,
                                IsDelete, Present, Held, Live, LiveInv
    <2> QED
      BY <1>1, <1>2, <2>1, <2>2, <2>3 DEF IInv, RecordInv, QuietInv, HandleInv, Held,
            Distinct, Live, HandleHolds, DeleteMeansDeleted
  <1>4. CASE rev = w.exp
    <2>1. Apply(w, FALSE)
      BY <1>4 DEF LateWrite
    <2>2. /\ RecordInv' /\ HandleInv' /\ HandleHolds'
          /\ \A x \in Calls : CallInv(x) => CallInv(x)'
          /\ \A x \in Calls : LateInv(x) => LateInv(x)'
          /\ DeleteMeansDeleted'
      BY <1>1, <1>2, <1>4, <2>1, WriteStep DEF IInv
    <2>3. \A x \in late' : LateInv(x)'
      BY <1>1, <2>2 DEF IInv, TypeOK
    <2>4. \A e \in Callers : CallInv(call[e])'
      BY <1>1, <2>2 DEF IInv, TypeOK
    <2> QED
      BY <1>1, <1>2, <2>2, <2>3, <2>4 DEF IInv, QuietInv, Distinct, Live
  <1> QED
    BY <1>3, <1>4

-----------------------------------------------------------------------------
(* The clock and the send. *)

LEMMA TickStep ==
  ASSUME IInv, TypeOK', Tick
  PROVE  IInv'
  <1>1. UNCHANGED <<body, rec, rev, late, call, until, asked, ok, tomb, top>>
    BY DEF Tick, store, seen
  <1>2. now \in Nat /\ now' = now + 1
    BY DEF Tick, IInv, TypeOK
  <1>3. rec.d \in Nat /\ until \in [Gens -> Nat]
    BY DEF IInv, TypeOK, Records
  <1>4. ASSUME NEW w \in Calls
        PROVE  (WriteInv(w) => WriteInv(w)') /\ (Derived(w) => Derived(w)')
    <2>1. w.val.r \in Nat
      BY DEF Calls, Records
    <2> QED
      BY <1>1, <1>2, <1>3, <2>1 DEF WriteInv, Derived, IsClaim, IsDelete, Held
  <1>5. ASSUME NEW e \in Callers PROVE CallInv(call[e])'
    <2>1. PICK w \in Calls : w = call[e]
      BY DEF IInv, TypeOK
    <2>2. CallInv(w) /\ w.val.d \in Nat
      BY <2>1 DEF IInv, Calls, Records
    <2>3. Live(w) => LiveInv(w)'
      BY <1>1, <1>2, <2>2 DEF CallInv, Live, LiveInv
    <2>4. CallInv(w)'
      BY <1>1, <1>4, <2>2, <2>3 DEF CallInv, Live, Accepts, Present, IsClaim, Held
    <2> QED
      BY <1>1, <2>1, <2>4
  <1>6. \A w \in late : LateInv(w)'
    BY <1>1, <1>4 DEF IInv, LateInv, TypeOK
  <1>7. HandleHolds'
    BY <1>1, <1>2, <1>3 DEF IInv, HandleHolds, Held
  <1> QED
    BY <1>1, <1>5, <1>6, <1>7 DEF IInv, RecordInv, QuietInv, HandleInv, Held,
       Distinct, Live, DeleteMeansDeleted, At

LEMMA SendStep ==
  ASSUME IInv, TypeOK', NEW delay \in Delays, Send(delay)
  PROVE  IInv'
  <1>1. UNCHANGED <<now, rec, rev, late, call, until, asked, ok, tomb, top>>
    BY DEF Send, seen
  <1>2. /\ body' = "stored" /\ ~tomb /\ late = {} /\ top = 0
        /\ \A c \in Callers : call[c].at = "idle"
    BY DEF Send, IInv, QuietInv, At
  <1>3. ASSUME NEW e \in Callers PROVE CallInv(call[e])' /\ ~Live(call[e])'
    <2>1. call'[e] = call[e] /\ call[e].at = "idle" /\ call[e].exp <= rev
      BY <1>1, <1>2 DEF IInv, CallInv
    <2> QED
      BY <1>1, <2>1 DEF CallInv, Live
  <1>4. Held = {}
    BY <1>2 DEF IInv, HandleInv, Held
  <1> QED
    BY <1>1, <1>2, <1>3, <1>4 DEF Send, IInv, RecordInv, QuietInv, HandleInv, Held,
       Distinct, HandleHolds, DeleteMeansDeleted

-----------------------------------------------------------------------------
(* The theorems. *)

LEMMA InitInv == Init => IInv
  <1> SUFFICES ASSUME Init PROVE IInv
    OBVIOUS
  <1>1. TypeOK
    <2>1. call \in [Callers -> Calls] /\ until \in [Gens -> Nat]
      BY IdleType DEF Init, NoHandle
    <2>2. rec \in Records /\ rec.d <= rec.r + Cap
      BY IdleType DEF Init, NoRecord
    <2>3. now \in 1..(1 + Retention) /\ calls \in 0..MaxCalls /\ top \in 0..MaxGen
      BY DEF Init
    <2> QED
      BY <2>1, <2>2, <2>3 DEF Init, TypeOK
  <1>2. Held = {}
    BY DEF Init, Held, NoHandle
  <1>3. \A c \in Callers : call[c] = Idle
    BY DEF Init
  <1>4. CallInv(Idle) /\ ~Live(Idle) /\ Idle.at = "idle"
    BY DEF Init, CallInv, Live, Idle
  <1>5. RecordInv /\ QuietInv
    BY <1>3, <1>4 DEF Init, RecordInv, QuietInv, NoRecord, At
  <1>6. \A c \in Callers : CallInv(call[c]) /\ ~Live(call[c])
    BY <1>3, <1>4
  <1> QED
    BY <1>1, <1>2, <1>5, <1>6
       DEF Init, IInv, HandleInv, HandleHolds, DeleteMeansDeleted, Distinct

LEMMA NextInv ==
  ASSUME IInv, [Next]_vars
  PROVE  IInv'
  <1>0. TypeOK'
    BY TypeStep
  <1>1. ASSUME NEW c \in Callers, CallFails(c) PROVE IInv'
    <2>1. DeleteMeansDeleted'
      BY <1>1 DEF CallFails, store, seen, IInv, DeleteMeansDeleted
    <2> QED
      BY <1>0, <1>1, <2>1, ReturnStep DEF CallFails, store, seen
  <1>2. CASE UNCHANGED vars
    <2>1. \A w \in late : LateInv(w)'
      BY <1>2, LateKept DEF vars
    <2>2. ASSUME NEW e \in Callers PROVE CallInv(call[e])'
      <3>1. CallInv(call[e]) /\ call'[e] = call[e]
        BY <1>2 DEF IInv, vars
      <3> QED
        BY <1>2, <3>1 DEF vars, CallInv, WriteInv, Derived, Accepts, IsClaim,
                          IsDelete, Present, Held, Live, LiveInv
    <2> QED
      BY <1>0, <1>2, <2>1, <2>2 DEF vars, IInv, RecordInv, QuietInv, HandleInv, Held,
            Distinct, Live, HandleHolds, DeleteMeansDeleted, At
  <1> QED
    BY <1>0, <1>1, <1>2, ClaimReadStep, ClaimDecideStep, RecheckBodyStep,
       DeleteStateStep, DeliverStep, DeleteSteps, ChangeSteps, SweepReadStep,
       SweepBodyStep, PutAckedStep, PutConflictsStep, PutReplyLostStep,
       PutDelayedStep, LateWriteStep, TickStep, SendStep DEF Next

LEMMA Invariance == Spec => []IInv
  BY InitInv, NextInv, PTL DEF Spec

(* Every variable keeps its type, and a message is never hidden past the   *)
(* receive's time plus MaxVisibilityTimeout, by any sequence of receives   *)
(* and visibility changes.                                                 *)
THEOREM TypeCorrect == Spec => []TypeOK
  <1>1. IInv => TypeOK
    BY DEF IInv
  <1> QED
    BY <1>1, Invariance, PTL

(* While a receipt handle's visibility timeout runs the message is in      *)
(* flight under it, against receives, late writes, stale handles and       *)
(* sweeps of any number of concurrent calls.                               *)
THEOREM Hiding == Spec => []HandleHolds
  <1>1. IInv => HandleHolds
    BY DEF IInv
  <1> QED
    BY <1>1, Invariance, PTL

(* A DeleteMessage that answers success has left a tombstone, or its       *)
(* handle had been superseded.                                             *)
THEOREM DeleteIsReal == Spec => []DeleteMeansDeleted
  <1>1. IInv => DeleteMeansDeleted
    BY DEF IInv
  <1> QED
    BY <1>1, Invariance, PTL

LEMMA OnlyDeliversAnswer ==
  ASSUME IInv, [Next]_vars, got' # got
  PROVE  ~tomb
  <1>1. TypeOK'
    BY TypeStep
  <1>2. \E c \in Callers : Deliver(c)
    BY DEF Next, vars, seen, Send, ClaimRead, ClaimDecide, RecheckBody, DeleteState,
           DeleteCall, DeleteAgain, Settle, ChangeCall, ChangeAgain, SweepRead,
           SweepBody, PutAcked, PutConflicts, PutReplyLost, PutDelayed, CallFails,
           LateWrite, Tick
  <1> QED
    BY <1>1, <1>2, DeliverStep

(* After the tombstone no receive that hides the message answers with it,  *)
(* although the sweeper takes the tombstone away again.                    *)
THEOREM StaysDeleted == Spec => DeletedStaysDeleted
  <1>1. IInv /\ [Next]_vars => [got' # got => ~tomb]_vars
    BY OnlyDeliversAnswer
  <1> QED
    BY <1>1, Invariance, PTL DEF Spec, DeletedStaysDeleted
=============================================================================
