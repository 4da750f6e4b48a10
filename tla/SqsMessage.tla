------------------------------- MODULE SqsMessage -------------------------------
(***************************************************************************)
(* The life of one SQS message (domains/sqs/message): a body in a          *)
(* JetStream stream and, from its first receive on, a state record in a    *)
(* key-value bucket.  Receives, deletes, visibility changes and the        *)
(* sweeper are concurrent calls that hold no lock: each reads the record,  *)
(* decides, and writes under the revision it read.  A write whose reply is *)
(* lost may have been applied, may be applied later, or never.  Messages   *)
(* share no key, so the life of one is the life of each.                   *)
(***************************************************************************)
EXTENDS Naturals, FiniteSets

CONSTANTS
  Callers,     \* calls in progress at a time
  MaxCalls,    \* bound: calls made in a behaviour
  MaxGen,      \* bound: receipt generations
  Delays,      \* delays a send may ask for
  Timeouts,    \* visibility timeouts a call may ask for
  Cap,         \* MaxVisibilityTimeout
  Retention,   \* the queue's MessageRetentionPeriod
  Attempts     \* deleteAttempts, visibilityAttempts

ASSUME SqsAssumption ==
  /\ MaxCalls \in Nat /\ MaxGen \in Nat \ {0}
  /\ Delays \subseteq Nat /\ Timeouts \subseteq 0..Cap
  /\ Cap \in Nat /\ Retention \in Nat \ {0} /\ Attempts \in Nat \ {0}

Gens == 1..MaxGen
NoRecord == [s |-> "absent", g |-> 0, d |-> 0, r |-> 0]
NoHandle == 0

VARIABLES
  now,      \* the worker's clock; nothing is received past the retention
  body,     \* the stream: "unsent", "stored", "removed"
  vis,      \* Sqs-Vis, the end of the send's delay
  rec,      \* the state record: s, g, d and r; c equals g, f is informative
  rev,      \* revision of the record's last write or removal
  late,     \* writes whose caller gave up and which may still arrive
  call,     \* each caller's progress
  calls,    \* calls made so far
  until,    \* the deadline the holder of each handle may rely on
  asked,    \* handles some DeleteMessage has named
  ok,       \* handles whose DeleteMessage answered success
  got,      \* receives with a visibility timeout that answered with the message
  tomb,     \* the tombstone has been written
  top       \* the newest generation written

store == <<body, rec, rev, late>>
seen == <<until, asked, ok, got, tomb, top>>
vars == <<now, body, vis, rec, rev, late, call, calls, until, asked, ok, got,
          tomb, top>>

Idle == [at |-> "idle", h |-> 0, v |-> 0, val |-> NoRecord, exp |-> 0, n |-> 0]

Init ==
  /\ now = 1 /\ body = "unsent" /\ vis = 0
  /\ rec = NoRecord /\ rev = 0 /\ late = {}
  /\ call = [c \in Callers |-> Idle] /\ calls = 0
  /\ until = [g \in Gens |-> NoHandle]
  /\ asked = {} /\ ok = {} /\ got = 0 /\ tomb = FALSE /\ top = 0

\* The send takes the time 1, so that 0 is no time; the retention counts from it.
Expired == now >= 1 + Retention
Held == {g \in Gens : until[g] # NoHandle}
Present == rec.s # "absent"

Goto(c, to) == call' = [call EXCEPT ![c] = to]
At(c, pc) == call[c].at = pc
Return(c) == Goto(c, Idle)

\* A new call of a caller: it counts towards the bound.
Begin(c) == At(c, "idle") /\ calls < MaxCalls /\ calls' = calls + 1

-----------------------------------------------------------------------------
\* Sender.Send: validated, then appended; it answers once the append is acknowledged.
Send(delay) ==
  /\ body = "unsent" /\ now = 1
  /\ body' = "stored" /\ vis' = now + delay
  /\ UNCHANGED <<now, rec, rev, late, call, calls, seen>>

-----------------------------------------------------------------------------
\* Claim: the body is read first.
ClaimRead(c, v) ==
  /\ Begin(c)
  /\ body = "stored"
  /\ Goto(c, [Idle EXCEPT !.at = "claim", !.v = v])
  /\ UNCHANGED <<now, vis, store, seen>>

\* The record a claim writes over the one it read.
Claimed(v) == [s |-> "inflight", g |-> rec.g + 1, d |-> now + v, r |-> now]

\* Visible to a receive: never received and past its delay, or past its deadline.
Receivable ==
  /\ ~Expired
  /\ \/ ~Present /\ now >= vis
     \/ rec.s = "inflight" /\ rec.d <= now

\* Claim: the record, then the clock, then the decision.
ClaimDecide(c) ==
  /\ At(c, "claim")
  /\ \/ /\ Receivable /\ rec.g < MaxGen
        /\ Goto(c, [call[c] EXCEPT !.at = "put", !.val = Claimed(call[c].v),
                                   !.exp = IF Present THEN rev ELSE 0])
     \/ ~Receivable /\ Return(c)
  /\ UNCHANGED <<now, vis, calls, store, seen>>

\* Mutant: the claim answers without reading the body again.
RecheckNothing(c) ==
  /\ At(c, "recheck")
  /\ Goto(c, [call[c] EXCEPT !.at = "deliver"])
  /\ UNCHANGED <<now, vis, calls, store, seen>>

\* recheckBody: a sweeper may have removed the body since it was read.
RecheckBody(c) ==
  /\ At(c, "recheck")
  /\ Goto(c, [call[c] EXCEPT !.at = IF body = "stored" THEN "deliver"
                                    ELSE "withdraw"])
  /\ UNCHANGED <<now, vis, calls, store, seen>>

\* DeleteState under the revision read: the sweeper's last step and a claim's withdrawal.
DeleteState(c) ==
  /\ call[c].at \in {"withdraw", "sweepState"}
  /\ IF Present /\ rev = call[c].exp
     THEN rec' = NoRecord /\ rev' = rev + 1
     ELSE UNCHANGED <<rec, rev>>
  /\ Return(c)
  /\ UNCHANGED <<now, body, vis, late, calls, seen>>

\* Claim's answer: not when the acknowledgement came after the deadline it set.
Deliver(c) ==
  /\ At(c, "deliver")
  /\ IF call[c].v > 0 /\ now >= call[c].val.d
     THEN UNCHANGED <<until, got>>
     ELSE /\ until' = [until EXCEPT ![call[c].val.g] = call[c].val.d]
          /\ got' = IF call[c].v > 0 THEN got + 1 ELSE got
  /\ Return(c)
  /\ UNCHANGED <<now, vis, calls, store, asked, ok, tomb, top>>

-----------------------------------------------------------------------------
\* Deleter.current: outcomes that need no write.
Settled(h) == ~Present \/ rec.s = "deleted" \/ rec.g > h

\* Deleter.current's verdict for a call at c, with the tombstone as the write.
DeleteDecide(c, h, n) ==
  \/ Settled(h) /\ Return(c) /\ ok' = ok \union {h}
  \/ ~Settled(h) /\ rec.g < h /\ Return(c) /\ UNCHANGED ok
  \/ /\ ~Settled(h) /\ rec.g = h /\ UNCHANGED ok
     /\ Goto(c, [at |-> "put", h |-> h, v |-> 0, exp |-> rev, n |-> n,
                 val |-> [rec EXCEPT !.s = "deleted"]])

\* Deleter.Delete, from a handle some receive returned.
DeleteCall(c, h) ==
  /\ Begin(c)
  /\ asked' = asked \union {h}
  /\ DeleteDecide(c, h, 1)
  /\ UNCHANGED <<now, vis, store, until, got, tomb, top>>

\* Delete again after a definite conflict.
DeleteAgain(c) ==
  /\ At(c, "deleteAgain")
  /\ DeleteDecide(c, call[c].h, call[c].n + 1)
  /\ UNCHANGED <<now, vis, calls, store, until, asked, got, tomb, top>>

\* Mutant: a lost reply is taken for success.
SettleAnyway(c) ==
  /\ At(c, "settle")
  /\ ok' = ok \union {call[c].h}
  /\ Return(c)
  /\ UNCHANGED <<now, vis, calls, store, until, asked, got, tomb, top>>

\* settle: after a lost reply, success only if no receive can bring it back.
Settle(c) ==
  /\ At(c, "settle")
  /\ ok' = IF Settled(call[c].h) THEN ok \union {call[c].h} ELSE ok
  /\ Return(c)
  /\ UNCHANGED <<now, vis, calls, store, until, asked, got, tomb, top>>

-----------------------------------------------------------------------------
\* Mutant: the cap counts from the change, not from the receive.
ChangeDecideFromNow(c, h, v, n) ==
  \/ /\ rec.s = "inflight" /\ rec.g = h /\ rec.d > now /\ v <= Cap
     /\ Goto(c, [at |-> "put", h |-> h, v |-> v, exp |-> rev, n |-> n,
                 val |-> [rec EXCEPT !.d = now + v]])
  \/ /\ rec.s # "inflight" \/ rec.g # h \/ rec.d <= now \/ v > Cap
     /\ Return(c)

\* ChangeVisibility's verdict: in flight under this handle, and within the cap.
ChangeDecide(c, h, v, n) ==
  \/ /\ rec.s = "inflight" /\ rec.g = h /\ rec.d > now
     /\ now + v <= rec.r + Cap
     /\ Goto(c, [at |-> "put", h |-> h, v |-> v, exp |-> rev, n |-> n,
                 val |-> [rec EXCEPT !.d = now + v]])
  \/ /\ \/ rec.s # "inflight" \/ rec.g # h \/ rec.d <= now
        \/ now + v > rec.r + Cap
     /\ Return(c)

ChangeCall(c, h, v) ==
  /\ Begin(c)
  /\ ChangeDecide(c, h, v, 1)
  /\ UNCHANGED <<now, vis, store, seen>>

ChangeAgain(c) ==
  /\ At(c, "changeAgain")
  /\ ChangeDecide(c, call[c].h, call[c].v, call[c].n + 1)
  /\ UNCHANGED <<now, vis, calls, store, seen>>

-----------------------------------------------------------------------------
\* sweepOne: the tombstone is read, then the body goes, then the record.
SweepRead(c) ==
  /\ Begin(c)
  /\ body = "stored" /\ rec.s = "deleted"
  /\ Goto(c, [Idle EXCEPT !.at = "sweepBody", !.exp = rev])
  /\ UNCHANGED <<now, vis, store, seen>>

SweepBody(c) ==
  /\ At(c, "sweepBody")
  /\ body' = "removed"
  /\ Goto(c, [call[c] EXCEPT !.at = "sweepState"])
  /\ UNCHANGED <<now, vis, rec, rev, late, calls, seen>>

-----------------------------------------------------------------------------
IsClaim(w) == w.h = 0
IsDelete(w) == w.val.s = "deleted"

\* The store's compare-and-set; a create finds no record (or its removal marker).
Accepts(w) == IF w.exp = 0 THEN ~Present ELSE Present /\ rev = w.exp

\* What an applied write changes.  A holder who asked for a shorter visibility
\* relies on no more than that; one who was told of a longer one relies on it.
Apply(w, acked) ==
  /\ rec' = w.val /\ rev' = rev + 1
  /\ tomb' = (tomb \/ IsDelete(w))
  /\ top' = IF w.val.g > top THEN w.val.g ELSE top
  /\ until' = IF IsClaim(w) \/ IsDelete(w) THEN until
              ELSE [until EXCEPT ![w.h] = IF acked \/ w.val.d < @ THEN w.val.d
                                          ELSE @]

\* Mutant: the write carries no revision, so a stale reader overwrites.
PutAckedBlind(c) ==
  /\ At(c, "put")
  /\ Apply(call[c], TRUE)
  /\ Goto(c, IF IsClaim(call[c])
             THEN [call[c] EXCEPT !.at = "recheck", !.exp = rev + 1] ELSE Idle)
  /\ ok' = IF IsDelete(call[c]) THEN ok \union {call[c].h} ELSE ok
  /\ UNCHANGED <<now, body, vis, late, calls, asked, got>>

\* PutState acknowledged: a claim goes on to recheck the body, the others answer.
PutAcked(c) ==
  /\ At(c, "put") /\ Accepts(call[c])
  /\ Apply(call[c], TRUE)
  /\ Goto(c, IF IsClaim(call[c])
             THEN [call[c] EXCEPT !.at = "recheck", !.exp = rev + 1] ELSE Idle)
  /\ ok' = IF IsDelete(call[c]) THEN ok \union {call[c].h} ELSE ok
  /\ UNCHANGED <<now, body, vis, late, calls, asked, got>>

\* ErrRevisionMismatch: a claim is lost, the others read again, so many times.
PutConflicts(c) ==
  /\ At(c, "put") /\ ~Accepts(call[c])
  /\ IF IsClaim(call[c]) \/ call[c].n >= Attempts
     THEN Return(c)
     ELSE Goto(c, [call[c] EXCEPT !.at = IF IsDelete(call[c])
                                         THEN "deleteAgain" ELSE "changeAgain"])
  /\ UNCHANGED <<now, vis, calls, store, seen>>

\* After an unknown outcome the delete reads once more; nothing is sent again.
AfterUnknown(c) ==
  IF IsDelete(call[c]) THEN Goto(c, [call[c] EXCEPT !.at = "settle"])
  ELSE Return(c)

\* The reply is lost after the write was applied.
PutReplyLost(c) ==
  /\ At(c, "put") /\ Accepts(call[c])
  /\ Apply(call[c], FALSE) /\ AfterUnknown(c)
  /\ UNCHANGED <<now, body, vis, late, calls, asked, ok, got>>

\* The caller gives up on a write still under way: it may arrive, or never.
PutDelayed(c) ==
  /\ At(c, "put")
  /\ late' = IF Accepts(call[c]) THEN late \union {[call[c] EXCEPT !.exp = rev]}
             ELSE late
  /\ AfterUnknown(c)
  /\ UNCHANGED <<now, body, vis, rec, rev, calls, seen>>

\* A delayed write arrives: it is applied only if nothing was written since it was sent.
LateWrite(w) ==
  /\ late' = late \ {w}
  /\ IF rev = w.exp THEN Apply(w, FALSE)
     ELSE UNCHANGED <<rec, rev, tomb, top, until>>
  /\ UNCHANGED <<now, body, vis, call, calls, asked, ok, got>>

\* A read fails, the context ends or the worker dies: the call ends where it is.
CallFails(c) ==
  /\ call[c].at \notin {"idle", "put"}
  /\ Return(c)
  /\ UNCHANGED <<now, vis, calls, store, seen>>

\* Time passes; past the retention no call reads the clock to any effect.
Tick ==
  /\ body # "unsent" /\ ~Expired
  /\ now' = now + 1
  /\ UNCHANGED <<vis, call, calls, store, seen>>

Next ==
  \/ \E delay \in Delays : Send(delay)
  \/ \E c \in Callers :
       \/ \E v \in Timeouts : ClaimRead(c, v)
       \/ ClaimDecide(c) \/ RecheckBody(c) \/ DeleteState(c) \/ Deliver(c)
       \/ \E h \in Held : DeleteCall(c, h)
       \/ DeleteAgain(c) \/ Settle(c)
       \/ \E h \in Held, v \in Timeouts : ChangeCall(c, h, v)
       \/ ChangeAgain(c)
       \/ SweepRead(c) \/ SweepBody(c)
       \/ PutAcked(c) \/ PutConflicts(c) \/ PutReplyLost(c) \/ PutDelayed(c)
       \/ CallFails(c)
  \/ \E w \in late : LateWrite(w)
  \/ Tick

Spec == Init /\ [][Next]_vars

-----------------------------------------------------------------------------
Records ==
  [s : {"absent", "inflight", "deleted"}, g : 0..MaxGen, d : Nat, r : Nat]
Calls ==
  [at : {"idle", "claim", "put", "recheck", "withdraw", "deliver",
         "deleteAgain", "settle", "changeAgain", "sweepBody", "sweepState"},
   h : 0..MaxGen, v : Nat, val : Records, exp : Nat, n : Nat]

(* Every variable has its type; a record in flight never lets its message   *)
(* stay hidden past the receive's time plus the cap (ChangeVisibility's     *)
(* "may not pass the issuing receive's time plus 12 hours").                *)
TypeOK ==
  /\ now \in 1..(1 + Retention) /\ vis \in Nat
  /\ body \in {"unsent", "stored", "removed"}
  /\ rec \in Records /\ rev \in Nat
  /\ late \subseteq Calls
  /\ call \in [Callers -> Calls] /\ calls \in 0..MaxCalls
  /\ until \in [Gens -> Nat] /\ asked \subseteq Gens /\ ok \subseteq Gens
  /\ got \in Nat /\ tomb \in BOOLEAN /\ top \in 0..MaxGen
  /\ rec.d <= rec.r + Cap

(* While a consumer may rely on its visibility timeout and has not asked    *)
(* for a delete, the message is stored and in flight under that consumer's  *)
(* handle until at least then: no other receive, late write, stale handle   *)
(* or sweep takes it, so no two consumers work on it at a time.  The one    *)
(* exception is a message already deleted under a newer receive: a claim    *)
(* that read the body before the sweep may have created the record anew,    *)
(* and ChangeVisibility, which reads only the record, then answers success  *)
(* for an old handle of the same generation.                                *)
HandleHolds ==
  \A g \in Held \ asked :
    until[g] > now =>
      \/ /\ body = "stored" /\ rec.s = "inflight"
         /\ rec.g = g /\ rec.d >= until[g]
      \/ body = "removed" /\ g < top

(* A DeleteMessage that answered success left a tombstone, or its handle    *)
(* had been superseded by a newer receive: a lost reply, a conflict or a    *)
(* record already swept is never reported as a delete that did not happen.  *)
DeleteMeansDeleted == \A h \in ok : tomb \/ top > h

(* Once the tombstone is written no receive that hides the message answers  *)
(* with it again, although the sweeper removes the tombstone itself while   *)
(* receives that read the body before it are still under way (recheckBody). *)
(* A receive with timeout 0 hides nothing and may answer after a concurrent *)
(* receive's delete.                                                        *)
DeletedStaysDeleted == [][got' # got => ~tomb]_vars
=============================================================================
