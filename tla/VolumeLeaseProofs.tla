------------------------- MODULE VolumeLeaseProofs -------------------------
(***************************************************************************)
(* Proofs about VolumeLease for every set of nodes and slots, every TTL    *)
(* above the validity, and every bound.                                    *)
(***************************************************************************)
EXTENDS VolumeLease, TLAPS

USE ConstantsAssumption

-----------------------------------------------------------------------------
(* Type correctness *)

LEMMA RequestType ==
    ASSUME TypeOK, NEW s \in Slots
    PROVE  RequestOf(s) \in Request
BY DEF TypeOK, RequestOf, Request

LEMMA GiveUpType ==
    ASSUME TypeOK, NEW s \in Slots, GiveUp(s)
    PROVE  stray' \subseteq Request
BY RequestType DEF TypeOK, GiveUp

LEMMA StoreType ==
    ASSUME TypeOK, NEW r \in Request, Store(r)
    PROVE  seq' \in Nat /\ entry' \in Entry
BY DEF TypeOK, Store, Written, Request, Entry, NoEntry

LEMMA AnswerType ==
    ASSUME TypeOK, NEW s \in Slots, NEW st \in CallStates, NEW rev \in Nat,
           Answer(s, st, rev)
    PROVE  /\ call' \in [Slots -> CallStates]
           /\ res' \in [Slots -> Nat]
           /\ sent' \in [Slots -> Nat]
BY DEF TypeOK, Answer

LEMMA SendType ==
    ASSUME TypeOK, NEW s \in Slots, NEW at \in Nat, Send(s, at)
    PROVE  /\ call' \in [Slots -> CallStates]
           /\ res' \in [Slots -> Nat]
           /\ sent' \in [Slots -> Nat]
BY DEF TypeOK, Send, CallStates

LEMMA ResetType ==
    ASSUME TypeOK, NEW s \in Slots, Reset(s)
    PROVE  /\ phase' \in [Slots -> Phases]
           /\ generation' \in [Slots -> Nat]
           /\ revision' \in [Slots -> Nat]
           /\ confirmed' \in [Slots -> Nat]
           /\ refs' \in [Slots -> Int]
           /\ lost' \subseteq Slots
           /\ call' \in [Slots -> CallStates]
           /\ res' \in [Slots -> Nat]
           /\ sent' \in [Slots -> Nat]
BY AnswerType DEF TypeOK, Reset, Phases, CallStates

LEMMA AdmitType ==
    ASSUME TypeOK, NEW s \in Slots, NEW rev \in Nat, NEW at \in Nat,
           Admit(s, rev, at), now' = now, UNCHANGED server, stray' \subseteq Request
    PROVE  TypeOK'
<1>1. CASE now - at >= Validity
  <2>1. Reset(s) /\ held' = held /\ epoch' = epoch
    BY <1>1 DEF Admit
  <2> QED BY <2>1, ResetType DEF TypeOK, server
<1>2. CASE ~(now - at >= Validity)
  <2>1. /\ phase' = [phase EXCEPT ![s] = "held"]
        /\ revision' = [revision EXCEPT ![s] = rev]
        /\ confirmed' = [confirmed EXCEPT ![s] = at]
        /\ refs' = [refs EXCEPT ![s] = 1]
        /\ held' = [held EXCEPT ![Home[s]] = s]
        /\ epoch' = generation[s]
        /\ Answer(s, "idle", 0)
        /\ generation' = generation /\ lost' = lost
    BY <1>2 DEF Admit
  <2>2. /\ call' \in [Slots -> CallStates]
        /\ res' \in [Slots -> Nat]
        /\ sent' \in [Slots -> Nat]
    BY <2>1, AnswerType DEF CallStates
  <2>3. now' \in Nat /\ seq' \in Nat /\ entry' \in Entry
    BY DEF TypeOK, server
  <2>4. phase' \in [Slots -> Phases]
    BY <2>1 DEF TypeOK, Phases
  <2>5. held' \in [Nodes -> Slots \cup {NoSlot}]
    BY <2>1 DEF TypeOK
  <2>6. /\ generation' \in [Slots -> Nat] /\ revision' \in [Slots -> Nat]
        /\ confirmed' \in [Slots -> Nat] /\ refs' \in [Slots -> Int]
        /\ lost' \subseteq Slots /\ epoch' \in Nat
    BY <2>1 DEF TypeOK
  <2> QED BY <2>2, <2>3, <2>4, <2>5, <2>6 DEF TypeOK
<1> QED BY <1>1, <1>2

LEMMA TypeStep ==
    ASSUME TypeOK, [Next]_vars
    PROVE  TypeOK'
<1> USE DEF fields, server, calls
<1>1. CASE UNCHANGED vars
  BY <1>1 DEF vars, TypeOK
<1>2. CASE Tick
  BY <1>2 DEF Tick, TypeOK
<1>3. CASE Expire
  BY <1>3 DEF Expire, TypeOK, Entry, NoEntry
<1>4. ASSUME NEW s \in Slots, Serve(s) PROVE TypeOK'
  BY <1>4, RequestType, StoreType, AnswerType DEF Serve, TypeOK, CallStates
<1>5. ASSUME NEW s \in Slots, Acquire(s) PROVE TypeOK'
  <2>1. CASE BeginAcquire(s)
    BY <2>1, SendType DEF BeginAcquire, TypeOK, Phases
  <2>2. CASE Share(s)
    BY <2>2 DEF Share, TypeOK
  <2>3. CASE Won(s)
    BY <2>3, SendType DEF Won, TypeOK, Phases
  <2>4. CASE TakeOver(s)
    BY <2>4, SendType DEF TakeOver, TypeOK, Phases, Entry
  <2>5. CASE AcquireRefused(s)
    BY <2>5, ResetType DEF AcquireRefused, TypeOK
  <2>6. CASE AcquireTimesOut(s)
    BY <2>6, ResetType, GiveUpType DEF AcquireTimesOut, TypeOK
  <2>7. CASE PublishAcked(s)
    BY <2>7, AdmitType DEF PublishAcked, TypeOK
  <2>8. CASE PublishFails(s)
    BY <2>8, AdmitType, GiveUpType DEF PublishFails, TypeOK
  <2> QED BY <1>5, <2>1, <2>2, <2>3, <2>4, <2>5, <2>6, <2>7, <2>8 DEF Acquire
<1>6. ASSUME NEW s \in Slots, Renew(s) PROVE TypeOK'
  <2>1. CASE BeginRenew(s)
    BY <2>1, SendType DEF BeginRenew, TypeOK
  <2>2. CASE RenewAcked(s)
    BY <2>2, AnswerType DEF RenewAcked, TypeOK, CallStates
  <2>3. CASE RenewTimesOut(s)
    BY <2>3, AnswerType, GiveUpType DEF RenewTimesOut, TypeOK, CallStates
  <2>4. CASE ReadoptReads(s)
    BY <2>4, AnswerType DEF ReadoptReads, TypeOK, CallStates, Entry
  <2>5. CASE ReadoptUnread(s)
    BY <2>5, AnswerType DEF ReadoptUnread, TypeOK, CallStates
  <2>6. CASE ReadoptAdopts(s)
    BY <2>6, AnswerType DEF ReadoptAdopts, TypeOK, CallStates
  <2>7. CASE LoseToPeer(s)
    BY <2>7, AnswerType DEF LoseToPeer, TypeOK, CallStates
  <2>8. CASE Surrender(s)
    BY <2>8 DEF Surrender, TypeOK
  <2> QED BY <1>6, <2>1, <2>2, <2>3, <2>4, <2>5, <2>6, <2>7, <2>8 DEF Renew
<1>7. ASSUME NEW s \in Slots, GiveBack(s) PROVE TypeOK'
  <2>1. CASE Release(s)
    BY <2>1 DEF Release, TypeOK, Phases
  <2>2. CASE StopLoop(s)
    BY <2>2, GiveUpType, ResetType, SendType DEF StopLoop, TypeOK, Phases
  <2>3. CASE DeleteDone(s)
    BY <2>3, GiveUpType, ResetType DEF DeleteDone, TypeOK
  <2> QED BY <1>7, <2>1, <2>2, <2>3 DEF GiveBack
<1>8. ASSUME NEW r \in stray, ServeStray(r) PROVE TypeOK'
  BY <1>8, StoreType DEF ServeStray, TypeOK
<1>9. ASSUME NEW n \in Nodes, Crash(n) PROVE TypeOK'
  BY <1>9, RequestType DEF Crash, TypeOK, Phases, CallStates
<1> QED BY <1>1, <1>2, <1>3, <1>4, <1>5, <1>6, <1>7, <1>8, <1>9 DEF Next

\* Every variable keeps its type: in particular every revision and send time a
\* node remembers is a number, whatever request was lost or applied late.
THEOREM TypeCorrect == Spec => []TypeOK
<1>1. Init => TypeOK
  BY DEF Init, TypeOK, Entry, NoEntry, Zero, CallStates, Phases
<1>2. TypeOK /\ [Next]_vars => TypeOK'
  BY TypeStep
<1> QED BY <1>1, <1>2, PTL DEF Spec

-----------------------------------------------------------------------------
(* The inductive invariant.  A step of one slot leaves the other slots as they
   are, so most of it is about the slot that moves; Same and LocalStep say what
   has to be shown of it. *)

\* Nothing of slot u changes.
Same(u) ==
    /\ phase'[u] = phase[u]
    /\ generation'[u] = generation[u]
    /\ revision'[u] = revision[u]
    /\ confirmed'[u] = confirmed[u]
    /\ u \in lost' <=> u \in lost
    /\ call'[u] = call[u]
    /\ res'[u] = res[u]
    /\ sent'[u] = sent[u]

LEMMA SameClaim ==
    ASSUME NEW u \in Slots, Same(u)
    PROVE  /\ Gen(u)' = Gen(u)
           /\ Base(u)' = Base(u)
           /\ Standing(u)' <=> Standing(u)
BY DEF Same, Gen, Base, Standing

\* What the invariant says of one claim.
SlotFacts(s) == (Alive(s) => Unrivalled(s)) /\ (Fresh(s) => Covered(s))

LEMMA GenType ==
    ASSUME TypeOK, FreshClaimsBacked, NEW t \in Slots
    PROVE  /\ Gen(t) \in Nat /\ Gen(t) <= seq
           /\ Base(t) \in Nat /\ Base(t) <= now
           /\ Standing(t) => Gen(t) > 0
BY DEF TypeOK, FreshClaimsBacked, Bounds, PhaseFacts, Gen, Base, Standing

\* A fresh claim is the only one alive.
LEMMA OneAlive ==
    ASSUME TypeOK, FreshClaimsBacked, NEW s \in Slots, NEW t \in Slots,
           Fresh(s), Alive(t)
    PROVE  s = t
<1> SUFFICES ASSUME s # t PROVE FALSE
  OBVIOUS
<1>1. Alive(s)
  BY DEF Alive, Fresh
<1>2. Youngest(s) /\ Youngest(t) /\ Covered(s)
  BY <1>1 DEF FreshClaimsBacked, Unrivalled
<1>3. Gen(s) < Gen(t) /\ Gen(t) < Gen(s)
  BY <1>2 DEF Youngest, Gen
<1> QED BY <1>3, GenType

\* Another slot's request cannot take the entry from a claim that is alive.
LEMMA OthersHarmless ==
    ASSUME TypeOK, FreshClaimsBacked, NEW s \in Slots, NEW t \in Slots, s # t,
           Alive(t)
    PROVE  RequestOf(s).cond < Gen(t)
<1>1. Standing(t) /\ Youngest(t)
  BY DEF FreshClaimsBacked, Unrivalled, Alive
<1> QED BY <1>1, GenType DEF Youngest, RequestOf

\* Nor can its own, unless it gives the lease back.
LEMMA OwnHarmless ==
    ASSUME NEW s \in Slots, phase[s] \in {"publish", "held"}
    PROVE  Harmless(RequestOf(s), s)
BY DEF Harmless, RequestOf, Gen

LEMMA Bystander ==
    ASSUME TypeOK, FreshClaimsBacked, NEW s \in Slots, NEW t \in Slots, s # t,
           now' = now, entry' = entry, epoch' = epoch,
           stray' \subseteq stray \cup {RequestOf(s)},
           \A u \in Slots \ {s} : Same(u),
           Alive(t) => /\ revision'[s] < Gen(t)
                       /\ generation'[s] < Gen(t)
                       /\ res'[s] < Gen(t)
    PROVE  SlotFacts(t)'
<1>1. Same(t)
  OBVIOUS
<1>2. /\ Gen(t)' = Gen(t) /\ Base(t)' = Base(t) /\ (Standing(t)' <=> Standing(t))
      /\ phase'[t] = phase[t] /\ call'[t] = call[t] /\ sent'[t] = sent[t]
  BY <1>1, SameClaim DEF Same
<1>3. Fresh(t)' <=> Fresh(t)
  BY <1>2 DEF Fresh
<1>4. Alive(t)' <=> Alive(t)
  BY <1>2, <1>3 DEF Alive
<1>5. Fresh(t) => Covered(t)'
  BY <1>2 DEF Covered, FreshClaimsBacked
<1>6. ASSUME Alive(t) PROVE Unrivalled(t)'
  <2>1. Unrivalled(t)
    BY <1>6 DEF FreshClaimsBacked
  <2>2. \A r \in stray' : Harmless(r, t)'
    BY <1>2, <1>6, <2>1, OthersHarmless DEF Unrivalled, Harmless
  <2>3. Youngest(t)'
    BY <1>2, <1>6, <2>1 DEF Unrivalled, Youngest, Same
  <2> QED BY <1>2, <2>1, <2>2, <2>3 DEF Unrivalled
<1> QED BY <1>3, <1>4, <1>5, <1>6 DEF SlotFacts

\* A step of slot s that leaves the server, the clock and held alone.
LEMMA LocalStep ==
    ASSUME TypeOK, TypeOK', FreshClaimsBacked, NEW s \in Slots,
           now' = now, seq' = seq, entry' = entry, epoch' = epoch,
           stray' \subseteq stray \cup {RequestOf(s)},
           \A u \in Slots \ {s} : Same(u),
           revision'[s] <= seq, generation'[s] <= seq, res'[s] <= seq,
           confirmed'[s] <= now, sent'[s] <= now,
           \A t \in Slots \ {s} : Alive(t) => /\ revision'[s] < Gen(t)
                                              /\ generation'[s] < Gen(t)
                                              /\ res'[s] < Gen(t),
           phase'[s] \in {"free", "create", "takeover"} => generation'[s] = 0,
           phase'[s] \in {"publish", "held", "stop", "delete"} => generation'[s] > 0,
           call'[s] = "ok" => res'[s] > 0,
           phase'[s] = "publish" =>
              confirmed'[s] <= sent'[s] /\ revision'[s] = generation'[s],
           s \in lost' => phase'[s] \in LoopRuns,
           HeldFacts', SlotFacts(s)'
    PROVE  FreshClaimsBacked'
<1>1. Bounds'
  <2>1. \A r \in stray' : r.cond <= seq
    BY DEF FreshClaimsBacked, Bounds, RequestOf, TypeOK
  <2>2. \A u \in Slots : /\ revision'[u] <= seq /\ generation'[u] <= seq /\ res'[u] <= seq
                         /\ confirmed'[u] <= now /\ sent'[u] <= now
    BY DEF FreshClaimsBacked, Bounds, Same
  <2> QED BY <2>1, <2>2 DEF FreshClaimsBacked, Bounds
<1>2. PhaseFacts'
  BY DEF FreshClaimsBacked, PhaseFacts, Same
<1>3. \A t \in Slots : SlotFacts(t)'
  <2> TAKE t \in Slots
  <2>1. CASE t = s
    BY <2>1
  <2>2. CASE t # s
    BY <2>2, Bystander
  <2> QED BY <2>1, <2>2
<1> QED BY <1>1, <1>2, <1>3 DEF FreshClaimsBacked, SlotFacts

\* A slot without a claim has nothing to back.
LEMMA NoClaim ==
    ASSUME NEW s \in Slots, ~ Standing(s)'
    PROVE  SlotFacts(s)'
BY DEF SlotFacts, Alive, Fresh

\* Zero is older than every claim.
LEMMA ZeroIsOld ==
    ASSUME TypeOK, FreshClaimsBacked
    PROVE  \A t \in Slots : Alive(t) => 0 < Gen(t)
BY GenType DEF Alive

\* What the slots other than s know is older than their claims.
LEMMA KnownIsOld ==
    ASSUME TypeOK, FreshClaimsBacked, NEW s \in Slots
    PROVE  \A t \in Slots \ {s} : Alive(t) => /\ revision[s] < Gen(t)
                                              /\ generation[s] < Gen(t)
                                              /\ res[s] < Gen(t)
BY DEF FreshClaimsBacked, Unrivalled, Youngest

LEMMA ResetStep ==
    ASSUME TypeOK, TypeOK', FreshClaimsBacked, NEW s \in Slots, Reset(s),
           now' = now, UNCHANGED server, held' = held, epoch' = epoch,
           stray' \subseteq stray \cup {RequestOf(s)}
    PROVE  FreshClaimsBacked'
<1>1. /\ phase'[s] = "free" /\ generation'[s] = 0 /\ revision'[s] = 0
      /\ confirmed'[s] = 0 /\ call'[s] = "idle" /\ res'[s] = 0 /\ sent'[s] = 0
      /\ s \notin lost'
  BY DEF Reset, Answer, TypeOK
<1>2. \A u \in Slots \ {s} : Same(u)
  BY DEF Reset, Answer, TypeOK, Same
<1>3. HeldFacts'
  <2>1. \A u \in Slots : phase'[u] \in Acquiring \cup {"held"} => phase'[u] = phase[u]
    BY <1>1, <1>2 DEF Same, Acquiring
  <2> QED BY <2>1 DEF FreshClaimsBacked, HeldFacts, Acquiring
<1>4. SlotFacts(s)'
  BY <1>1, NoClaim DEF Standing
<1>5. \A t \in Slots \ {s} : Alive(t) => /\ revision'[s] < Gen(t)
                                         /\ generation'[s] < Gen(t)
                                         /\ res'[s] < Gen(t)
  BY <1>1, ZeroIsOld
<1>6. seq' = seq /\ entry' = entry /\ 0 <= seq /\ 0 <= now
  BY DEF server, TypeOK
<1> QED BY <1>1, <1>2, <1>3, <1>4, <1>5, <1>6, LocalStep

\* A step of the renewLoop, or a shared open, that does not extend the lease.
LEMMA LoopStep ==
    ASSUME TypeOK, TypeOK', FreshClaimsBacked, NEW s \in Slots, phase[s] \in LoopRuns,
           now' = now, UNCHANGED server, held' = held, epoch' = epoch, phase' = phase,
           generation' = generation, confirmed' = confirmed, lost \subseteq lost',
           stray' \subseteq stray \cup {RequestOf(s)},
           \A u \in Slots \ {s} : Same(u),
           revision'[s] \in {revision[s], res[s]}, sent'[s] <= now,
           call'[s] = "ok" => call[s] = "ok" /\ res'[s] = res[s] /\ sent'[s] = sent[s],
           res'[s] <= seq,
           \A t \in Slots \ {s} : Alive(t) => res'[s] < Gen(t)
    PROVE  FreshClaimsBacked'
<1>1. seq' = seq /\ entry' = entry
  BY DEF server
<1>2. HeldFacts'
  BY DEF FreshClaimsBacked, HeldFacts
<1>3. SlotFacts(s)'
  <2>1. CASE phase[s] = "stop"
    BY <2>1, NoClaim DEF Standing
  <2>2. CASE phase[s] = "held"
    <3>1. Gen(s)' = Gen(s) /\ Base(s)' = confirmed[s] /\ Base(s) = confirmed[s]
      BY <2>2 DEF Gen, Base
    <3>2. Standing(s)' => Standing(s)
      BY <2>2 DEF Standing
    <3>3. Fresh(s)' => Fresh(s)
      BY <3>1, <3>2 DEF Fresh
    <3>4. Alive(s)' => Alive(s)
      BY <1>1, <3>1, <3>2, <3>3 DEF Alive
    <3>5. ASSUME Alive(s) PROVE Unrivalled(s)'
      <4>1. Unrivalled(s)
        BY <3>5 DEF FreshClaimsBacked
      <4>2. \A r \in stray' : Harmless(r, s)'
        BY <2>2, <3>1, <4>1, OwnHarmless DEF Unrivalled, Harmless
      <4>3. Youngest(s)'
        BY <3>1, <4>1 DEF Unrivalled, Youngest, Same
      <4> QED BY <1>1, <3>1, <4>1, <4>2, <4>3 DEF Unrivalled
    <3>6. ASSUME Fresh(s) PROVE Covered(s)'
      BY <1>1, <3>1, <3>6 DEF Covered, FreshClaimsBacked
    <3> QED BY <3>3, <3>4, <3>5, <3>6 DEF SlotFacts
  <2> QED BY <2>1, <2>2 DEF LoopRuns
<1>4. /\ revision'[s] <= seq /\ generation'[s] <= seq /\ confirmed'[s] <= now
      /\ generation'[s] > 0
      /\ call'[s] = "ok" => res'[s] > 0
      /\ phase'[s] \in LoopRuns
  BY DEF FreshClaimsBacked, Bounds, PhaseFacts, LoopRuns
<1>5. \A t \in Slots \ {s} : Alive(t) => /\ revision'[s] < Gen(t)
                                         /\ generation'[s] < Gen(t)
                                         /\ res'[s] < Gen(t)
  BY KnownIsOld
<1> QED BY <1>1, <1>2, <1>3, <1>4, <1>5, LocalStep DEF LoopRuns

LEMMA ShareStep ==
    ASSUME TypeOK, TypeOK', FreshClaimsBacked, NEW s \in Slots, Share(s)
    PROVE  FreshClaimsBacked'
<1>1. \A u \in Slots : Same(u)
  BY DEF Share, Same, calls
<1>2. /\ phase[s] \in LoopRuns /\ phase' = phase /\ held' = held /\ epoch' = epoch
      /\ now' = now /\ generation' = generation /\ confirmed' = confirmed
      /\ lost' = lost /\ stray' = stray /\ revision' = revision
      /\ sent' = sent /\ res' = res /\ call' = call /\ UNCHANGED server
  BY DEF Share, calls, LoopRuns
<1>3. sent[s] <= now /\ res[s] <= seq
  BY DEF FreshClaimsBacked, Bounds
<1> QED BY <1>1, <1>2, <1>3, KnownIsOld, LoopStep

LEMMA RenewStep ==
    ASSUME TypeOK, TypeOK', FreshClaimsBacked, NEW s \in Slots, Renew(s)
    PROVE  FreshClaimsBacked'
<1> USE DEF server, calls, fields
<1>0. sent[s] <= now /\ res[s] <= seq /\ 0 <= now /\ 0 <= seq
  BY DEF FreshClaimsBacked, Bounds, TypeOK
<1>1. CASE BeginRenew(s)
  <2>1. /\ phase[s] \in LoopRuns /\ \A u \in Slots \ {s} : Same(u)
        /\ call'[s] = "sent" /\ res'[s] = 0 /\ sent'[s] = now
    BY <1>1 DEF BeginRenew, Send, Same, TypeOK
  <2> QED BY <1>0, <1>1, <2>1, ZeroIsOld, LoopStep DEF BeginRenew, TypeOK
<1>2. CASE RenewTimesOut(s)
  <2>1. /\ phase[s] \in LoopRuns /\ \A u \in Slots \ {s} : Same(u)
        /\ call'[s] = "idle" /\ res'[s] = 0 /\ sent'[s] = 0
        /\ stray' \subseteq stray \cup {RequestOf(s)}
    BY <1>2 DEF RenewTimesOut, Answer, GiveUp, Same, TypeOK
  <2> QED BY <1>0, <1>2, <2>1, ZeroIsOld, LoopStep DEF RenewTimesOut
<1>3. CASE ReadoptReads(s)
  <2>1. /\ phase[s] \in LoopRuns /\ \A u \in Slots \ {s} : Same(u)
        /\ call'[s] \in {"mine", "gone"} /\ sent'[s] = sent[s]
        /\ \/ res'[s] = 0
           \/ res'[s] = entry.rev /\ entry.owner = Home[s] /\ entry.gen = generation[s]
    BY <1>3 DEF ReadoptReads, Answer, Same, TypeOK
  <2>2. generation[s] > 0 /\ entry.rev <= seq
    BY <2>1 DEF FreshClaimsBacked, PhaseFacts, Bounds, LoopRuns
  <2>3. ASSUME NEW t \in Slots \ {s}, Alive(t) PROVE res'[s] < Gen(t)
    <3>1. entry.gen \in {0, Gen(t)} /\ generation[s] < Gen(t)
      BY <2>3 DEF FreshClaimsBacked, Unrivalled, Youngest
    <3> QED BY <2>1, <2>2, <2>3, <3>1, ZeroIsOld DEF TypeOK
  <2> QED BY <1>0, <1>3, <2>1, <2>2, <2>3, LoopStep DEF ReadoptReads
<1>4. CASE ReadoptUnread(s)
  <2>1. /\ phase[s] \in LoopRuns /\ \A u \in Slots \ {s} : Same(u)
        /\ call'[s] = "idle" /\ res'[s] = 0 /\ sent'[s] = 0
    BY <1>4 DEF ReadoptUnread, Answer, Same, TypeOK
  <2> QED BY <1>0, <1>4, <2>1, ZeroIsOld, LoopStep DEF ReadoptUnread
<1>5. CASE ReadoptAdopts(s)
  <2>1. /\ phase[s] \in LoopRuns /\ \A u \in Slots \ {s} : Same(u)
        /\ call'[s] = "idle" /\ res'[s] = 0 /\ sent'[s] = 0 /\ revision'[s] = res[s]
    BY <1>5 DEF ReadoptAdopts, Answer, Same, TypeOK
  <2> QED BY <1>0, <1>5, <2>1, ZeroIsOld, LoopStep DEF ReadoptAdopts
<1>6. CASE LoseToPeer(s)
  <2>1. /\ phase[s] \in LoopRuns /\ \A u \in Slots \ {s} : Same(u)
        /\ call'[s] = "idle" /\ res'[s] = 0 /\ sent'[s] = 0
    BY <1>6 DEF LoseToPeer, Answer, Same, TypeOK
  <2> QED BY <1>0, <1>6, <2>1, ZeroIsOld, LoopStep DEF LoseToPeer
<1>7. CASE Surrender(s)
  <2>1. phase[s] \in LoopRuns /\ \A u \in Slots \ {s} : Same(u)
    BY <1>7 DEF Surrender, Same, TypeOK
  <2> QED BY <1>0, <1>7, <2>1, KnownIsOld, LoopStep DEF Surrender
<1>8. CASE RenewAcked(s)
  <2>1. /\ phase[s] \in LoopRuns /\ \A u \in Slots \ {s} : Same(u)
        /\ call[s] = "ok" /\ call'[s] = "idle" /\ res'[s] = 0 /\ sent'[s] = 0
        /\ now' = now /\ phase' = phase /\ generation' = generation
        /\ held' = held /\ stray' = stray /\ epoch' = epoch
        /\ seq' = seq /\ entry' = entry
    BY <1>8 DEF RenewAcked, Answer, Same, TypeOK
  <2>2. CASE s \in lost \/ Expired(s)
    <3>1. lost' = lost \cup {s} /\ revision' = revision /\ confirmed' = confirmed
      BY <1>8, <2>2 DEF RenewAcked
    <3> QED BY <1>0, <2>1, <3>1, ZeroIsOld, LoopStep
  <2>3. CASE ~(s \in lost \/ Expired(s))
    <3>1. revision'[s] = res[s] /\ confirmed'[s] = sent[s] /\ lost' = lost
      BY <1>8, <2>3 DEF RenewAcked, TypeOK
    <3>2. HeldFacts'
      BY <2>1 DEF FreshClaimsBacked, HeldFacts
    <3>3. /\ generation'[s] > 0 /\ generation'[s] <= seq
      BY <2>1 DEF FreshClaimsBacked, Bounds, PhaseFacts, LoopRuns
    <3>4. SlotFacts(s)'
      <4>1. CASE phase[s] = "stop"
        BY <2>1, <4>1, NoClaim DEF Standing
      <4>2. CASE phase[s] = "held"
        <5>1. Fresh(s) /\ Alive(s)
          BY <2>3, <4>2 DEF Fresh, Alive, Standing, Base, Expired, TypeOK
        <5>2. Unrivalled(s) /\ Covered(s)
          BY <5>1 DEF FreshClaimsBacked
        <5>3. Gen(s)' = Gen(s) /\ Base(s)' = sent[s]
          BY <2>1, <3>1, <4>2 DEF Gen, Base
        <5>4. Covered(s)'
          BY <2>1, <4>2, <5>2, <5>3 DEF Covered
        <5>5. \A r \in stray' : Harmless(r, s)'
          BY <2>1, <5>2, <5>3 DEF Unrivalled, Harmless
        <5>6. Youngest(s)'
          BY <2>1, <5>2, <5>3 DEF Unrivalled, Youngest, Same
        <5>7. Unrivalled(s)'
          BY <2>1, <5>2, <5>3, <5>5, <5>6 DEF Unrivalled
        <5> QED BY <5>4, <5>7 DEF SlotFacts
      <4> QED BY <2>1, <4>1, <4>2 DEF LoopRuns
    <3>5. \A t \in Slots \ {s} : Alive(t) => /\ revision'[s] < Gen(t)
                                             /\ generation'[s] < Gen(t)
                                             /\ res'[s] < Gen(t)
      BY <2>1, <3>1, KnownIsOld, ZeroIsOld
    <3> QED BY <1>0, <2>1, <3>1, <3>2, <3>3, <3>4, <3>5, LocalStep DEF LoopRuns
  <2> QED BY <2>2, <2>3
<1> QED BY <1>1, <1>2, <1>3, <1>4, <1>5, <1>6, <1>7, <1>8 DEF Renew

LEMMA BeginAcquireStep ==
    ASSUME SerialOpens, TypeOK, TypeOK', FreshClaimsBacked, NEW s \in Slots, BeginAcquire(s)
    PROVE  FreshClaimsBacked'
<1> USE DEF server
<1>1. /\ \A u \in Slots \ {s} : Same(u)
      /\ phase[s] = "free" /\ phase'[s] = "create" /\ held[Home[s]] = NoSlot
      /\ call'[s] = "sent" /\ res'[s] = 0 /\ sent'[s] = 0 /\ confirmed'[s] = now
      /\ generation'[s] = generation[s] /\ revision'[s] = revision[s] /\ held' = held
  BY DEF BeginAcquire, Send, Same, TypeOK
<1>2. \A t \in Slots : Home[t] = Home[s] => phase[t] \notin Acquiring
  BY DEF BeginAcquire
<1>3. HeldFacts'
  <2> SUFFICES ASSUME NEW u \in Slots, NEW t \in Slots, Home[u] = Home[t]
               PROVE  /\ phase'[u] \in Acquiring /\ phase'[t] \in Acquiring => u = t
                      /\ phase'[u] = "held" => held'[Home[u]] = u /\ phase'[t] \notin Acquiring
    BY DEF HeldFacts
  <2>1. CASE u # s /\ t # s
    BY <1>1, <2>1 DEF FreshClaimsBacked, HeldFacts, Same
  <2>2. CASE u = s
    BY <1>1, <1>2, <2>2 DEF Same, Acquiring
  <2>3. CASE t = s /\ u # s
    <3>1. phase'[u] = phase[u] /\ phase[u] \notin Acquiring
      BY <1>1, <1>2, <2>3 DEF Same
    <3>2. phase[u] # "held"
      BY <1>1, <2>3 DEF FreshClaimsBacked, HeldFacts
    <3> QED BY <3>1, <3>2
  <2> QED BY <2>1, <2>2, <2>3
<1>4. SlotFacts(s)'
  BY <1>1, NoClaim DEF Standing
<1>5. /\ generation'[s] = 0 /\ generation'[s] <= seq /\ revision'[s] <= seq
      /\ 0 <= seq /\ 0 <= now /\ now <= now /\ s \notin lost'
  BY <1>1 DEF FreshClaimsBacked, PhaseFacts, Bounds, TypeOK, BeginAcquire, LoopRuns
<1>6. \A t \in Slots \ {s} : Alive(t) => /\ revision'[s] < Gen(t)
                                         /\ generation'[s] < Gen(t)
                                         /\ res'[s] < Gen(t)
  BY <1>1, KnownIsOld, ZeroIsOld
<1> QED BY <1>1, <1>3, <1>4, <1>5, <1>6, LocalStep DEF BeginAcquire

LEMMA WonStep ==
    ASSUME TypeOK, TypeOK', FreshClaimsBacked, NEW s \in Slots, Won(s)
    PROVE  FreshClaimsBacked'
<1> USE DEF server
<1>1. /\ \A u \in Slots \ {s} : Same(u)
      /\ phase[s] \in {"create", "takeover"} /\ phase'[s] = "publish"
      /\ call[s] = "ok" /\ call'[s] = "sent" /\ res'[s] = 0 /\ sent'[s] = now
      /\ generation'[s] = res[s] /\ revision'[s] = res[s] /\ confirmed'[s] = confirmed[s]
  BY DEF Won, Send, Same, TypeOK
<1>2. now' = now /\ entry' = entry /\ seq' = seq /\ epoch' = epoch /\ stray' = stray /\ held' = held
  BY DEF Won
<1>3. HeldFacts'
  <2>1. \A u \in Slots : /\ phase'[u] \in Acquiring <=> phase[u] \in Acquiring
                         /\ phase'[u] = "held" <=> phase[u] = "held"
    BY <1>1 DEF Same, Acquiring
  <2> QED BY <1>2, <2>1 DEF FreshClaimsBacked, HeldFacts
<1>4. SlotFacts(s)'
  <2>1. Gen(s)' = Gen(s) /\ Base(s)' = Base(s) /\ Standing(s)
    BY <1>1 DEF Gen, Base, Standing
  <2>2. (Fresh(s)' => Fresh(s)) /\ (Alive(s)' => Alive(s))
    BY <1>2, <2>1 DEF Fresh, Alive
  <2>3. ASSUME Alive(s) PROVE Unrivalled(s)'
    <3>1. Unrivalled(s)
      BY <2>3 DEF FreshClaimsBacked
    <3>2. \A r \in stray' : Harmless(r, s)'
      BY <1>2, <2>1, <3>1 DEF Unrivalled, Harmless
    <3>3. Youngest(s)'
      BY <1>1, <2>1, <3>1 DEF Unrivalled, Youngest, Same
    <3> QED BY <1>1, <1>2, <2>1, <3>1, <3>2, <3>3 DEF Unrivalled
  <2>4. ASSUME Fresh(s) PROVE Covered(s)'
    BY <1>1, <1>2, <2>1, <2>4 DEF Covered, FreshClaimsBacked
  <2> QED BY <2>2, <2>3, <2>4 DEF SlotFacts
<1>5. /\ res[s] <= seq /\ res[s] > 0 /\ confirmed[s] <= now /\ 0 <= seq /\ now <= now
      /\ s \notin lost'
  BY <1>1 DEF FreshClaimsBacked, Bounds, PhaseFacts, TypeOK, Won, LoopRuns
<1>6. \A t \in Slots \ {s} : Alive(t) => /\ revision'[s] < Gen(t)
                                         /\ generation'[s] < Gen(t)
                                         /\ res'[s] < Gen(t)
  BY <1>1, KnownIsOld, ZeroIsOld
<1> QED BY <1>1, <1>2, <1>3, <1>4, <1>5, <1>6, LocalStep

\* takeOver reads the revision of an entry of its own node: were it that of
\* another slot's claim, that slot's acquire would have overlapped this one.
LEMMA TakeOverStep ==
    ASSUME TypeOK, TypeOK', FreshClaimsBacked, NEW s \in Slots, TakeOver(s)
    PROVE  FreshClaimsBacked'
<1> USE DEF server
<1>1. /\ \A u \in Slots \ {s} : Same(u)
      /\ phase[s] = "create" /\ phase'[s] = "takeover" /\ entry.owner = Home[s]
      /\ call'[s] = "sent" /\ res'[s] = 0 /\ sent'[s] = 0
      /\ generation'[s] = generation[s] /\ revision'[s] = entry.rev
      /\ confirmed'[s] = confirmed[s]
  BY DEF TakeOver, Send, Same, TypeOK
<1>2. now' = now /\ entry' = entry /\ seq' = seq /\ epoch' = epoch /\ stray' = stray /\ held' = held
  BY DEF TakeOver
<1>3. HeldFacts'
  <2>1. \A u \in Slots : /\ phase'[u] \in Acquiring <=> phase[u] \in Acquiring
                         /\ phase'[u] = "held" <=> phase[u] = "held"
    BY <1>1 DEF Same, Acquiring
  <2> QED BY <1>2, <2>1 DEF FreshClaimsBacked, HeldFacts
<1>4. SlotFacts(s)'
  BY <1>1, NoClaim DEF Standing
<1>5. /\ generation'[s] = 0 /\ generation'[s] <= seq /\ entry.rev <= seq
      /\ confirmed[s] <= now /\ 0 <= seq /\ 0 <= now /\ s \notin lost'
  BY <1>1 DEF FreshClaimsBacked, Bounds, PhaseFacts, TypeOK, TakeOver, LoopRuns
<1>6. ASSUME NEW t \in Slots \ {s} PROVE ~ Alive(t)
  <2> SUFFICES ASSUME Alive(t) PROVE FALSE
    OBVIOUS
  <2>1. Home[t] = Home[s]
    BY <1>1 DEF FreshClaimsBacked, Unrivalled
  <2>2. phase[t] \in Acquiring \/ phase[t] = "held"
    BY DEF Alive, Standing, Acquiring
  <2> QED BY <1>1, <2>1, <2>2 DEF FreshClaimsBacked, HeldFacts, Acquiring
<1> QED BY <1>1, <1>2, <1>3, <1>4, <1>5, <1>6, LocalStep

\* The lease goes into held: its claim is fresh, so no other one is alive.
LEMMA AdmitStep ==
    ASSUME TypeOK, TypeOK', FreshClaimsBacked, NEW s \in Slots, phase[s] = "publish",
           NEW rev \in Nat, NEW at \in Nat, Admit(s, rev, at),
           rev \in {revision[s], res[s]}, at <= Base(s),
           now' = now, UNCHANGED server,
           stray' \subseteq stray \cup {RequestOf(s)}
    PROVE  FreshClaimsBacked'
<1> USE DEF server
<1>1. CASE now - at >= Validity
  BY <1>1, ResetStep DEF Admit
<1>2. CASE ~(now - at >= Validity)
  <2>1. /\ \A u \in Slots \ {s} : Same(u)
        /\ phase'[s] = "held" /\ revision'[s] = rev /\ confirmed'[s] = at
        /\ call'[s] = "idle" /\ res'[s] = 0 /\ sent'[s] = 0
        /\ generation'[s] = generation[s] /\ held'[Home[s]] = s
        /\ \A n \in Nodes \ {Home[s]} : held'[n] = held[n]
        /\ epoch' = generation[s]
    BY <1>2 DEF Admit, Answer, Same, TypeOK
  <2>2. /\ generation[s] > 0 /\ generation[s] <= seq /\ rev <= seq
        /\ at <= now /\ 0 <= seq /\ 0 <= now
    BY GenType DEF FreshClaimsBacked, Bounds, PhaseFacts, TypeOK
  <2>3. Fresh(s) /\ Alive(s)
    BY <1>2, GenType DEF Fresh, Alive, Standing, TypeOK
  <2>4. Unrivalled(s) /\ Covered(s)
    BY <2>3 DEF FreshClaimsBacked
  <2>5. \A t \in Slots \ {s} : ~ Alive(t) /\ ~ Fresh(t)
    BY <2>3, OneAlive DEF Alive, Fresh
  <2>6. Bounds'
    <3>1. \A r \in stray' : r.cond <= seq
      BY DEF FreshClaimsBacked, Bounds, RequestOf, TypeOK
    <3>2. \A u \in Slots : /\ revision'[u] <= seq /\ generation'[u] <= seq /\ res'[u] <= seq
                           /\ confirmed'[u] <= now /\ sent'[u] <= now
      BY <2>1, <2>2 DEF FreshClaimsBacked, Bounds, Same
    <3> QED BY <2>1, <2>2, <3>1, <3>2 DEF FreshClaimsBacked, Bounds
  <2>7. PhaseFacts'
    BY <2>1, <2>2 DEF FreshClaimsBacked, PhaseFacts, Same, LoopRuns
  <2>8. HeldFacts'
    <3> SUFFICES ASSUME NEW u \in Slots, NEW t \in Slots, Home[u] = Home[t]
                 PROVE  /\ phase'[u] \in Acquiring /\ phase'[t] \in Acquiring => u = t
                        /\ phase'[u] = "held" => held'[Home[u]] = u /\ phase'[t] \notin Acquiring
      BY DEF HeldFacts
    <3>1. CASE u # s /\ t # s
      <4>1. phase'[u] = phase[u] /\ phase'[t] = phase[t]
        BY <2>1, <3>1 DEF Same
      <4>2. phase[u] = "held" => Home[u] # Home[s]
        BY DEF FreshClaimsBacked, HeldFacts, Acquiring
      <4> QED BY <2>1, <4>1, <4>2 DEF FreshClaimsBacked, HeldFacts
    <3>2. CASE u = s
      BY <2>1, <3>2 DEF FreshClaimsBacked, HeldFacts, Acquiring, Same
    <3>3. CASE t = s /\ u # s
      BY <2>1, <3>3 DEF FreshClaimsBacked, HeldFacts, Acquiring, Same
    <3> QED BY <3>1, <3>2, <3>3
  <2>9. SlotFacts(s)'
    <3>1. Gen(s)' = Gen(s) /\ Gen(s) = generation[s] /\ Base(s)' = at
      BY <2>1 DEF Gen, Base
    <3>2. Covered(s)'
      BY <2>1, <2>4, <3>1, GenType DEF Covered, TypeOK, Entry
    <3>3. \A r \in stray' : Harmless(r, s)'
      BY <2>4, <3>1, OwnHarmless DEF Unrivalled, Harmless
    <3>4. Youngest(s)'
      BY <2>1, <2>4, <3>1 DEF Unrivalled, Youngest, Same
    <3>5. Unrivalled(s)'
      BY <2>1, <2>4, <3>1, <3>3, <3>4 DEF Unrivalled
    <3> QED BY <3>2, <3>5 DEF SlotFacts
  <2>10. \A t \in Slots \ {s} : SlotFacts(t)'
    <3> TAKE t \in Slots \ {s}
    <3>1. /\ Gen(t)' = Gen(t) /\ Base(t)' = Base(t) /\ (Standing(t)' <=> Standing(t))
      BY <2>1, SameClaim
    <3>2. ~ Alive(t)' /\ ~ Fresh(t)'
      BY <2>5, <3>1 DEF Alive, Fresh
    <3> QED BY <3>2 DEF SlotFacts
  <2> QED BY <2>6, <2>7, <2>8, <2>9, <2>10 DEF FreshClaimsBacked, SlotFacts
<1> QED BY <1>1, <1>2

LEMMA AcquireStep ==
    ASSUME SerialOpens, TypeOK, TypeOK', FreshClaimsBacked, NEW s \in Slots, Acquire(s)
    PROVE  FreshClaimsBacked'
<1>1. CASE BeginAcquire(s)
  BY <1>1, BeginAcquireStep
<1>2. CASE Share(s)
  BY <1>2, ShareStep
<1>3. CASE Won(s)
  BY <1>3, WonStep
<1>4. CASE TakeOver(s)
  BY <1>4, TakeOverStep
<1>5. CASE AcquireRefused(s)
  BY <1>5, ResetStep DEF AcquireRefused
<1>6. CASE AcquireTimesOut(s)
  BY <1>6, ResetStep DEF AcquireTimesOut, GiveUp
<1>7. CASE PublishAcked(s)
  <2>1. Base(s) = sent[s] /\ sent[s] \in Nat /\ res[s] \in Nat
    BY <1>7 DEF PublishAcked, Base, TypeOK
  <2> QED BY <1>7, <2>1, AdmitStep DEF PublishAcked
<1>8. CASE PublishFails(s)
  <2>1. confirmed[s] <= Base(s) /\ confirmed[s] \in Nat /\ revision[s] \in Nat
    BY <1>8 DEF PublishFails, Base, TypeOK, FreshClaimsBacked, PhaseFacts
  <2> QED BY <1>8, <2>1, AdmitStep DEF PublishFails, GiveUp
<1> QED BY <1>1, <1>2, <1>3, <1>4, <1>5, <1>6, <1>7, <1>8 DEF Acquire

LEMMA GiveBackStep ==
    ASSUME TypeOK, TypeOK', FreshClaimsBacked, NEW s \in Slots, GiveBack(s)
    PROVE  FreshClaimsBacked'
<1> USE DEF server, calls, fields
<1>0. /\ generation[s] <= seq /\ revision[s] <= seq /\ res[s] <= seq
      /\ sent[s] <= now /\ confirmed[s] <= now /\ 0 <= now /\ 0 <= seq
  BY DEF FreshClaimsBacked, Bounds, TypeOK
<1>1. CASE Release(s)
  <2>1. /\ phase[s] = "held" /\ generation' = generation /\ revision' = revision
        /\ confirmed' = confirmed /\ lost' = lost /\ call' = call /\ res' = res
        /\ sent' = sent /\ now' = now /\ UNCHANGED server /\ epoch' = epoch
        /\ stray' = stray
    BY <1>1 DEF Release
  <2>2. generation[s] > 0 /\ (call[s] = "ok" => res[s] > 0)
    BY <2>1 DEF FreshClaimsBacked, PhaseFacts
  <2>3. CASE refs[s] > 1
    <3>1. phase' = phase /\ held' = held
      BY <1>1, <2>3 DEF Release
    <3> QED BY <1>0, <2>1, <3>1, KnownIsOld, LoopStep DEF Same, LoopRuns
  <2>4. CASE ~(refs[s] > 1)
    <3>1. /\ phase'[s] = "stop" /\ \A u \in Slots \ {s} : Same(u)
          /\ \A n \in Nodes \ {Home[s]} : held'[n] = held[n]
      BY <1>1, <2>4 DEF Release, TypeOK, Same
    <3>2. HeldFacts'
      <4>1. \A u \in Slots : phase'[u] \in Acquiring \cup {"held"} =>
                                u # s /\ phase'[u] = phase[u]
        BY <3>1 DEF Same, Acquiring
      <4>2. \A u \in Slots : phase[u] = "held" /\ Home[u] = Home[s] => u = s
        BY <2>1 DEF FreshClaimsBacked, HeldFacts
      <4>3. \A u \in Slots : phase'[u] = "held" => held'[Home[u]] = held[Home[u]]
        BY <3>1, <4>1, <4>2
      <4> QED BY <4>1, <4>3 DEF FreshClaimsBacked, HeldFacts, Acquiring
    <3>3. SlotFacts(s)'
      BY <3>1, NoClaim DEF Standing
    <3> QED BY <1>0, <2>1, <2>2, <3>1, <3>2, <3>3, KnownIsOld, LocalStep DEF LoopRuns
  <2> QED BY <2>3, <2>4
<1>2. CASE StopLoop(s)
  <2>1. CASE s \in lost
    BY <1>2, <2>1, ResetStep DEF StopLoop, GiveUp
  <2>2. CASE s \notin lost
    <3>1. /\ phase[s] = "stop" /\ phase'[s] = "delete"
          /\ \A u \in Slots \ {s} : Same(u)
          /\ generation' = generation /\ revision' = revision /\ confirmed' = confirmed
          /\ s \notin lost' /\ call'[s] = "sent" /\ res'[s] = 0 /\ sent'[s] = 0
      BY <1>2, <2>2 DEF StopLoop, Send, Same, TypeOK
    <3>2. /\ stray' \subseteq stray \cup {RequestOf(s)}
          /\ now' = now /\ held' = held /\ epoch' = epoch /\ UNCHANGED server
      BY <1>2 DEF StopLoop, GiveUp
    <3>3. HeldFacts'
      <4>1. \A u \in Slots : phase'[u] \in Acquiring \cup {"held"} => phase'[u] = phase[u]
        BY <3>1 DEF Same, Acquiring
      <4> QED BY <3>2, <4>1 DEF FreshClaimsBacked, HeldFacts, Acquiring
    <3>4. SlotFacts(s)'
      BY <3>1, NoClaim DEF Standing
    <3>5. generation[s] > 0
      BY <3>1 DEF FreshClaimsBacked, PhaseFacts
    <3> QED BY <1>0, <3>1, <3>2, <3>3, <3>4, <3>5, KnownIsOld, ZeroIsOld, LocalStep
  <2> QED BY <2>1, <2>2
<1>3. CASE DeleteDone(s)
  BY <1>3, ResetStep DEF DeleteDone, GiveUp
<1> QED BY <1>1, <1>2, <1>3 DEF GiveBack

\* A write that is accepted replaces the entry of a claim only by that claim's
\* own rewrite, so no other claim was fresh, and none is alive afterwards.
LEMMA OthersGone ==
    ASSUME TypeOK, FreshClaimsBacked, NEW t \in Slots, Same(t), now' = now,
           entry'.rev \in {0, seq + 1}, ~ Fresh(t)
    PROVE  SlotFacts(t)'
<1>1. /\ Gen(t)' = Gen(t) /\ Base(t)' = Base(t) /\ (Standing(t)' <=> Standing(t))
  BY SameClaim
<1>2. ~ Fresh(t)'
  BY <1>1 DEF Fresh
<1>3. Standing(t) => Gen(t) \in Nat /\ Gen(t) > 0 /\ Gen(t) <= seq
  BY GenType
<1>4. ~ Alive(t)'
  BY <1>1, <1>2, <1>3 DEF Alive, TypeOK
<1> QED BY <1>2, <1>4 DEF SlotFacts

\* The entry an accepted write leaves.
LEMMA StoreEffect ==
    ASSUME TypeOK, NEW r \in Request, Store(r)
    PROVE  /\ seq' = seq + 1
           /\ entry'.rev \in {0, seq + 1} /\ entry'.at <= now
           /\ ~ r.del => /\ entry'.owner = r.node /\ entry'.gen = r.gen
                         /\ entry'.rev = seq + 1 /\ entry'.at = now
BY DEF TypeOK, Store, Written, Request, NoEntry

LEMMA ServeStep ==
    ASSUME TypeOK, TypeOK', FreshClaimsBacked, NEW s \in Slots, Serve(s)
    PROVE  FreshClaimsBacked'
<1> USE DEF server, fields
<1>1. /\ call[s] = "sent" /\ now' = now /\ phase' = phase /\ generation' = generation
      /\ revision' = revision /\ confirmed' = confirmed /\ lost' = lost
      /\ held' = held /\ stray' = stray /\ epoch' = epoch
  BY DEF Serve
<1>2. HeldFacts'
  BY <1>1 DEF FreshClaimsBacked, HeldFacts
<1>3. CASE ~ Accepts(RequestOf(s))
  <2>1. /\ call'[s] = "refused" /\ res'[s] = 0 /\ sent' = sent
        /\ UNCHANGED server /\ \A u \in Slots \ {s} : Same(u)
    BY <1>1, <1>3 DEF Serve, Answer, Same, TypeOK
  <2>2. SlotFacts(s)'
    <3>1. Base(s)' = Base(s) /\ Base(s) = confirmed[s] /\ (Standing(s)' <=> Standing(s))
      BY <1>1, <2>1 DEF Base, Standing
    <3>2. Standing(s) => Gen(s)' = Gen(s)
      BY <1>1, <2>1 DEF Gen, Standing
    <3>3. (Fresh(s)' <=> Fresh(s)) /\ (Alive(s)' <=> Alive(s))
      BY <1>1, <2>1, <3>1, <3>2 DEF Fresh, Alive
    <3>4. ASSUME Alive(s) PROVE Unrivalled(s)'
      <4>1. Unrivalled(s) /\ Gen(s)' = Gen(s)
        BY <3>2, <3>4 DEF FreshClaimsBacked, Alive
      <4>2. \A r \in stray' : Harmless(r, s)'
        BY <1>1, <4>1 DEF Unrivalled, Harmless
      <4>3. Youngest(s)'
        BY <1>1, <2>1, <4>1 DEF Unrivalled, Youngest, Same
      <4> QED BY <1>1, <2>1, <4>1, <4>2, <4>3 DEF Unrivalled
    <3>5. ASSUME Fresh(s) PROVE Covered(s)'
      <4>1. Covered(s) /\ Gen(s)' = Gen(s)
        BY <3>2, <3>5 DEF FreshClaimsBacked, Fresh
      <4> QED BY <1>1, <2>1, <3>1, <4>1 DEF Covered
    <3> QED BY <3>3, <3>4, <3>5 DEF SlotFacts
  <2>3. /\ generation[s] <= seq /\ revision[s] <= seq /\ 0 <= seq
        /\ sent[s] <= now /\ confirmed[s] <= now
        /\ phase[s] \in {"free", "create", "takeover"} => generation[s] = 0
        /\ phase[s] \in {"publish", "held", "stop", "delete"} => generation[s] > 0
        /\ phase[s] = "publish" => confirmed[s] <= sent[s] /\ revision[s] = generation[s]
        /\ s \in lost => phase[s] \in LoopRuns
    BY DEF FreshClaimsBacked, Bounds, PhaseFacts, TypeOK
  <2> QED BY <1>1, <1>2, <2>1, <2>2, <2>3, KnownIsOld, ZeroIsOld, LocalStep
<1>4. CASE Accepts(RequestOf(s))
  <2>1. /\ Store(RequestOf(s))
        /\ call'[s] = "ok" /\ res'[s] = seq + 1 /\ sent' = sent
        /\ \A u \in Slots \ {s} : Same(u)
    BY <1>1, <1>4 DEF Serve, Answer, Same, TypeOK
  <2>2. /\ seq' = seq + 1 /\ entry'.rev \in {0, seq + 1} /\ entry'.at <= now
        /\ phase[s] # "delete" => /\ entry'.owner = Home[s]
                                  /\ entry'.gen = generation[s]
                                  /\ entry'.rev = seq + 1 /\ entry'.at = now
    BY <2>1, RequestType, StoreEffect DEF RequestOf
  <2>3. Bounds'
    BY <1>1, <2>1, <2>2 DEF FreshClaimsBacked, Bounds, Same, TypeOK, Request, Entry
  <2>4. PhaseFacts'
    BY <1>1, <2>1 DEF FreshClaimsBacked, PhaseFacts, Same, TypeOK
  <2>5. ASSUME NEW t \in Slots \ {s} PROVE SlotFacts(t)'
    <3>1. ~ Fresh(t)
      <4> SUFFICES ASSUME Fresh(t) PROVE FALSE
        OBVIOUS
      <4>1. Alive(t) /\ entry.rev >= Gen(t)
        BY DEF Alive, Fresh, FreshClaimsBacked, Covered
      <4>2. RequestOf(s).cond < Gen(t)
        BY <4>1, OthersHarmless
      <4> QED BY <1>4, <4>1, <4>2, RequestType, GenType DEF Accepts, Request, TypeOK, Entry
    <3> QED BY <1>1, <2>1, <2>2, <3>1, OthersGone
  <2>6. SlotFacts(s)'
    <3>1. CASE phase[s] \in {"create", "takeover"}
      <4>1. /\ Gen(s)' = seq + 1 /\ Base(s)' = confirmed[s] /\ generation[s] = 0
            /\ confirmed[s] <= now /\ epoch <= seq /\ \A r \in stray : r.cond <= seq
        BY <1>1, <2>1, <3>1 DEF Gen, Base, FreshClaimsBacked, Bounds, PhaseFacts
      <4>2. Covered(s)'
        BY <1>1, <2>2, <3>1, <4>1 DEF Covered, TypeOK
      <4>3. Youngest(s)'
        BY <2>1, <4>1 DEF Youngest, Same, FreshClaimsBacked, Bounds, TypeOK
      <4>4. \A r \in stray' : Harmless(r, s)'
        BY <1>1, <4>1 DEF Harmless, TypeOK, Request
      <4>5. epoch' < Gen(s)'
        BY <1>1, <4>1 DEF TypeOK
      <4>6. Unrivalled(s)'
        BY <1>1, <2>2, <3>1, <4>1, <4>3, <4>4, <4>5 DEF Unrivalled
      <4> QED BY <4>2, <4>6 DEF SlotFacts
    <3>2. CASE phase[s] = "publish"
      <4>1. /\ Gen(s)' = Gen(s) /\ Gen(s) = generation[s] /\ Base(s)' = sent[s]
            /\ sent[s] <= now /\ generation[s] = revision[s] /\ generation[s] <= seq
        BY <1>1, <2>1, <3>2 DEF Gen, Base, FreshClaimsBacked, Bounds, PhaseFacts
      <4>2. Alive(s)
        BY <1>4, <3>2, <4>1 DEF Alive, Standing, Accepts, RequestOf
      <4>3. Unrivalled(s)
        BY <4>2 DEF FreshClaimsBacked
      <4>4. Covered(s)'
        BY <1>1, <2>2, <3>2, <4>1 DEF Covered, TypeOK
      <4>5. Youngest(s)'
        BY <2>1, <4>1, <4>3 DEF Unrivalled, Youngest, Same
      <4>6. \A r \in stray' : Harmless(r, s)'
        BY <1>1, <4>1, <4>3 DEF Unrivalled, Harmless
      <4>7. Unrivalled(s)'
        BY <1>1, <2>2, <3>2, <4>1, <4>3, <4>5, <4>6 DEF Unrivalled
      <4> QED BY <4>4, <4>7 DEF SlotFacts
    <3>3. CASE phase[s] = "held"
      <4>1. /\ Gen(s)' = Gen(s) /\ Gen(s) = generation[s] /\ Base(s)' = Base(s)
            /\ Base(s) <= now /\ sent[s] <= now /\ generation[s] <= seq
            /\ (Standing(s)' <=> Standing(s))
        BY <1>1, <2>1, <3>3 DEF Gen, Base, Standing, FreshClaimsBacked, Bounds
      <4>2. (Fresh(s)' <=> Fresh(s)) /\ (Alive(s)' => Fresh(s)')
        BY <1>1, <2>2, <3>3, <4>1 DEF Fresh, Alive, TypeOK
      <4>3. ASSUME Fresh(s) PROVE Unrivalled(s)' /\ Covered(s)'
        <5>1. Unrivalled(s)
          BY <4>3 DEF FreshClaimsBacked, Alive, Fresh
        <5>2. Covered(s)'
          BY <1>1, <2>1, <2>2, <3>3, <4>1, GenType DEF Covered, TypeOK
        <5>3. Youngest(s)'
          BY <2>1, <4>1, <5>1 DEF Unrivalled, Youngest, Same
        <5>4. \A r \in stray' : Harmless(r, s)'
          BY <1>1, <4>1, <5>1 DEF Unrivalled, Harmless
        <5>5. Unrivalled(s)'
          BY <1>1, <2>2, <3>3, <4>1, <5>1, <5>3, <5>4 DEF Unrivalled
        <5> QED BY <5>2, <5>5
      <4> QED BY <4>2, <4>3 DEF SlotFacts
    <3>4. CASE phase[s] \in {"free", "stop", "delete"}
      BY <1>1, <3>4, NoClaim DEF Standing
    <3> QED BY <3>1, <3>2, <3>3, <3>4 DEF TypeOK, Phases
  <2> QED BY <1>2, <2>3, <2>4, <2>5, <2>6 DEF FreshClaimsBacked, SlotFacts
<1> QED BY <1>3, <1>4

LEMMA ServeStrayStep ==
    ASSUME TypeOK, TypeOK', FreshClaimsBacked, NEW r \in stray, ServeStray(r)
    PROVE  FreshClaimsBacked'
<1> USE DEF server, fields, calls
<1>1. /\ now' = now /\ phase' = phase /\ generation' = generation
      /\ revision' = revision /\ confirmed' = confirmed /\ lost' = lost
      /\ held' = held /\ epoch' = epoch /\ call' = call /\ res' = res /\ sent' = sent
      /\ stray' \subseteq stray
  BY DEF ServeStray
<1>2. HeldFacts' /\ PhaseFacts'
  BY <1>1 DEF FreshClaimsBacked, HeldFacts, PhaseFacts
<1>3. \A u \in Slots : Same(u)
  BY <1>1 DEF Same
<1>4. /\ seq' \in Nat /\ seq <= seq' /\ entry'.rev <= seq' /\ entry'.at <= now
      /\ \/ entry' = entry
         \/ /\ Accepts(r) /\ entry'.rev \in {0, seq + 1}
            /\ ~ r.del => /\ entry'.owner = r.node /\ entry'.gen = r.gen
                          /\ entry'.rev = seq + 1 /\ entry'.at = now
  <2>1. CASE Accepts(r) /\ Store(r)
    BY <2>1, StoreEffect DEF TypeOK
  <2>2. CASE UNCHANGED server
    BY <2>2 DEF TypeOK, FreshClaimsBacked, Bounds, Entry
  <2> QED BY <2>1, <2>2 DEF ServeStray
<1>5. Bounds'
  <2>1. \A q \in stray' : q.cond <= seq'
    BY <1>1, <1>4 DEF FreshClaimsBacked, Bounds, TypeOK, Request
  <2>2. \A u \in Slots : /\ revision'[u] <= seq' /\ generation'[u] <= seq' /\ res'[u] <= seq'
                         /\ confirmed'[u] <= now' /\ sent'[u] <= now'
    BY <1>1, <1>4 DEF FreshClaimsBacked, Bounds, TypeOK
  <2>3. epoch' <= seq'
    BY <1>1, <1>4 DEF FreshClaimsBacked, Bounds, TypeOK
  <2> QED BY <1>1, <1>4, <2>1, <2>2, <2>3 DEF Bounds
<1>6. ASSUME NEW t \in Slots PROVE SlotFacts(t)'
  <2>1. /\ Gen(t)' = Gen(t) /\ Base(t)' = Base(t) /\ (Standing(t)' <=> Standing(t))
        /\ (Fresh(t)' <=> Fresh(t))
    BY <1>1, <1>3, SameClaim DEF Fresh
  <2>2. ASSUME Unrivalled(t)
        PROVE  Youngest(t)' /\ \A q \in stray' : Harmless(q, t)'
    BY <1>1, <2>1, <2>2 DEF Unrivalled, Youngest, Harmless
  <2>3. CASE entry' = entry
    <3>1. Alive(t)' <=> Alive(t)
      BY <2>1, <2>3 DEF Alive
    <3>2. Alive(t) => Unrivalled(t)'
      BY <1>1, <2>1, <2>2, <2>3 DEF Unrivalled, FreshClaimsBacked
    <3>3. Fresh(t) => Covered(t)'
      BY <1>1, <2>1, <2>3 DEF Covered, FreshClaimsBacked
    <3> QED BY <2>1, <3>1, <3>2, <3>3 DEF SlotFacts
  <2>4. CASE entry' # entry /\ ~ Fresh(t)
    BY <1>1, <1>3, <1>4, <2>4, OthersGone
  <2>5. CASE entry' # entry /\ Fresh(t)
    <3>1. Unrivalled(t) /\ Covered(t)
      BY <2>5 DEF FreshClaimsBacked, Alive, Fresh
    <3>2. ~(r.cond < Gen(t))
      BY <1>4, <2>5, <3>1, GenType DEF Accepts, Covered, TypeOK, Request, Entry
    <3>3. r.node = Home[t] /\ ~ r.del /\ r.gen = Gen(t)
      BY <3>1, <3>2 DEF Unrivalled, Harmless
    <3>4. /\ entry'.owner = Home[t] /\ entry'.gen = Gen(t)
          /\ entry'.rev = seq + 1 /\ entry'.at = now
      BY <1>4, <2>5, <3>3
    <3>5. Unrivalled(t)'
      BY <1>1, <2>1, <2>2, <3>1, <3>4 DEF Unrivalled
    <3>6. sent[t] <= now /\ seq + 1 >= Gen(t) /\ now >= Base(t)
      BY GenType DEF FreshClaimsBacked, Bounds, TypeOK
    <3>7. Covered(t)'
      BY <1>1, <2>1, <3>4, <3>6 DEF Covered, TypeOK
    <3> QED BY <3>5, <3>7 DEF SlotFacts
  <2> QED BY <2>3, <2>4, <2>5
<1> QED BY <1>2, <1>5, <1>6 DEF FreshClaimsBacked, SlotFacts

\* The entry of a fresh claim is younger than the server TTL.
LEMMA EntryYoung ==
    ASSUME TypeOK, FreshClaimsBacked, NEW s \in Slots, Fresh(s)
    PROVE  now < entry.at + TTL
<1>1. entry.at >= Base(s)
  BY DEF FreshClaimsBacked, Covered
<1> QED BY <1>1, MarginAssumption, GenType DEF Fresh, TypeOK, Entry

LEMMA ExpireStep ==
    ASSUME TypeOK, TypeOK', FreshClaimsBacked, Expire
    PROVE  FreshClaimsBacked'
<1> USE DEF fields, calls
<1>1. /\ now' = now /\ phase' = phase /\ generation' = generation
      /\ revision' = revision /\ confirmed' = confirmed /\ lost' = lost
      /\ held' = held /\ epoch' = epoch /\ call' = call /\ res' = res /\ sent' = sent
      /\ stray' = stray /\ seq' = seq /\ entry'.rev = 0 /\ entry'.at = 0
  BY DEF Expire, NoEntry
<1>2. HeldFacts' /\ PhaseFacts'
  BY <1>1 DEF FreshClaimsBacked, HeldFacts, PhaseFacts
<1>3. Bounds'
  BY <1>1 DEF FreshClaimsBacked, Bounds, TypeOK
<1>4. ASSUME NEW t \in Slots PROVE SlotFacts(t)'
  <2>1. ~ Fresh(t)
    BY EntryYoung DEF Expire, TypeOK, Entry
  <2> QED BY <1>1, <2>1, OthersGone DEF Same
<1> QED BY <1>2, <1>3, <1>4 DEF FreshClaimsBacked, SlotFacts

LEMMA TickStep ==
    ASSUME TypeOK, TypeOK', FreshClaimsBacked, Tick
    PROVE  FreshClaimsBacked'
<1> USE DEF fields, calls, server
<1>1. /\ now' = now + 1 /\ phase' = phase /\ generation' = generation
      /\ revision' = revision /\ confirmed' = confirmed /\ lost' = lost
      /\ held' = held /\ epoch' = epoch /\ call' = call /\ res' = res /\ sent' = sent
      /\ stray' = stray /\ seq' = seq /\ entry' = entry
  BY DEF Tick
<1>2. HeldFacts' /\ PhaseFacts'
  BY <1>1 DEF FreshClaimsBacked, HeldFacts, PhaseFacts
<1>3. Bounds'
  BY <1>1 DEF FreshClaimsBacked, Bounds, TypeOK, Entry
<1>4. ASSUME NEW t \in Slots PROVE SlotFacts(t)'
  <2>1. /\ Gen(t)' = Gen(t) /\ Base(t)' = Base(t) /\ (Standing(t)' <=> Standing(t))
    BY <1>1, SameClaim DEF Same
  <2>2. (Fresh(t)' => Fresh(t)) /\ (Alive(t)' => Alive(t))
    BY <1>1, <2>1, GenType DEF Fresh, Alive, TypeOK
  <2>3. Alive(t) => Unrivalled(t)'
    BY <1>1, <2>1 DEF FreshClaimsBacked, Unrivalled, Youngest, Harmless
  <2>4. Fresh(t) => Covered(t)'
    BY <1>1, <2>1 DEF FreshClaimsBacked, Covered
  <2> QED BY <2>2, <2>3, <2>4 DEF SlotFacts
<1> QED BY <1>2, <1>3, <1>4 DEF FreshClaimsBacked, SlotFacts

LEMMA CrashStep ==
    ASSUME TypeOK, TypeOK', FreshClaimsBacked, NEW n \in Nodes, Crash(n)
    PROVE  FreshClaimsBacked'
<1> USE DEF server
<1> DEFINE mine == {s \in Slots : Home[s] = n}
<1>1. /\ now' = now /\ seq' = seq /\ entry' = entry /\ epoch' = epoch
      /\ stray' \subseteq stray \cup {RequestOf(s) : s \in mine}
      /\ held' = [held EXCEPT ![n] = NoSlot]
  BY DEF Crash
<1>2. \A u \in Slots \ mine : Same(u)
  BY DEF Crash, Same
<1>3. \A u \in mine : /\ phase'[u] = "free" /\ generation'[u] = 0 /\ revision'[u] = 0
                      /\ confirmed'[u] = 0 /\ call'[u] = "idle" /\ res'[u] = 0
                      /\ sent'[u] = 0 /\ u \notin lost'
  BY DEF Crash
<1> HIDE DEF mine
<1>4. Bounds'
  <2>1. \A r \in stray' : r.cond <= seq
    BY <1>1, SMTT(30) DEF FreshClaimsBacked, Bounds, RequestOf, TypeOK, mine
  <2>2. \A u \in Slots : /\ revision'[u] <= seq /\ generation'[u] <= seq /\ res'[u] <= seq
                         /\ confirmed'[u] <= now /\ sent'[u] <= now
    <3>1. 0 <= seq /\ 0 <= now
      BY DEF TypeOK
    <3> QED BY <1>2, <1>3, <3>1 DEF FreshClaimsBacked, Bounds, Same
  <2> QED BY <1>1, <2>1, <2>2 DEF FreshClaimsBacked, Bounds
<1>5. PhaseFacts'
  <2> SUFFICES ASSUME NEW u \in Slots
               PROVE  /\ phase'[u] \in {"free", "create", "takeover"} => generation'[u] = 0
                      /\ phase'[u] \in {"publish", "held", "stop", "delete"} => generation'[u] > 0
                      /\ call'[u] = "ok" => res'[u] > 0
                      /\ phase'[u] = "publish" =>
                            confirmed'[u] <= sent'[u] /\ revision'[u] = generation'[u]
                      /\ u \in lost' => phase'[u] \in LoopRuns
    BY DEF PhaseFacts
  <2>1. CASE u \in mine
    BY <1>3, <2>1
  <2>2. CASE u \notin mine
    BY <1>2, <2>2 DEF FreshClaimsBacked, PhaseFacts, Same
  <2> QED BY <2>1, <2>2
<1>6. HeldFacts'
  <2>1. \A u \in Slots : phase'[u] \in Acquiring \cup {"held"} =>
                            u \notin mine /\ phase'[u] = phase[u]
    BY <1>2, <1>3 DEF Same, Acquiring
  <2>2. \A u \in Slots : u \notin mine => held'[Home[u]] = held[Home[u]]
    BY <1>1 DEF mine, TypeOK
  <2> QED BY <2>1, <2>2 DEF FreshClaimsBacked, HeldFacts, Acquiring
<1>7. ASSUME NEW t \in Slots PROVE SlotFacts(t)'
  <2>1. CASE t \in mine
    BY <1>3, <2>1, NoClaim DEF Standing
  <2>2. CASE t \notin mine
    <3>1. /\ Gen(t)' = Gen(t) /\ Base(t)' = Base(t) /\ (Standing(t)' <=> Standing(t))
          /\ phase'[t] = phase[t] /\ call'[t] = call[t] /\ sent'[t] = sent[t]
      BY <1>2, <2>2, SameClaim DEF Same
    <3>2. (Fresh(t)' <=> Fresh(t)) /\ (Alive(t)' <=> Alive(t))
      BY <1>1, <3>1 DEF Fresh, Alive
    <3>3. Fresh(t) => Covered(t)'
      BY <1>1, <3>1 DEF Covered, FreshClaimsBacked
    <3>4. ASSUME Alive(t) PROVE Unrivalled(t)'
      <4>1. Unrivalled(t)
        BY <3>4 DEF FreshClaimsBacked
      <4>2. \A s \in mine : RequestOf(s).cond < Gen(t)
        BY <2>2, <3>4, OthersHarmless DEF mine
      <4>3. \A r \in stray' : Harmless(r, t)'
        BY <1>1, <3>1, <4>1, <4>2 DEF Unrivalled, Harmless
      <4>4. Youngest(t)'
        <5> SUFFICES ASSUME NEW u \in Slots \ {t}
                     PROVE  revision'[u] < Gen(t) /\ generation'[u] < Gen(t) /\ res'[u] < Gen(t)
          BY <3>1 DEF Youngest
        <5>1. CASE u \in mine
          BY <1>3, <3>4, <5>1, ZeroIsOld
        <5>2. CASE u \notin mine
          BY <1>2, <4>1, <5>2 DEF Unrivalled, Youngest, Same
        <5> QED BY <5>1, <5>2
      <4> QED BY <1>1, <3>1, <4>1, <4>3, <4>4 DEF Unrivalled
    <3> QED BY <3>2, <3>3, <3>4 DEF SlotFacts
  <2> QED BY <2>1, <2>2
<1> QED BY <1>4, <1>5, <1>6, <1>7 DEF FreshClaimsBacked, SlotFacts

LEMMA BackedStep ==
    ASSUME SerialOpens, TypeOK, FreshClaimsBacked, [Next]_vars
    PROVE  FreshClaimsBacked'
<1>1. TypeOK'
  BY TypeStep
<1>2. CASE UNCHANGED vars
  BY <1>2 DEF vars, server, fields, calls, FreshClaimsBacked, Bounds, PhaseFacts, HeldFacts,
              Alive, Fresh, Standing, Gen, Base, Unrivalled, Covered, Youngest, Harmless
<1>3. CASE Tick
  BY <1>1, <1>3, TickStep
<1>4. CASE Expire
  BY <1>1, <1>4, ExpireStep
<1>5. ASSUME NEW s \in Slots, Serve(s) \/ Acquire(s) \/ Renew(s) \/ GiveBack(s)
      PROVE  FreshClaimsBacked'
  BY <1>1, <1>5, ServeStep, AcquireStep, RenewStep, GiveBackStep
<1>6. ASSUME NEW r \in stray, ServeStray(r) PROVE FreshClaimsBacked'
  BY <1>1, <1>6, ServeStrayStep
<1>7. ASSUME NEW n \in Nodes, Crash(n) PROVE FreshClaimsBacked'
  BY <1>1, <1>7, CrashStep
<1> QED BY <1>2, <1>3, <1>4, <1>5, <1>6, <1>7 DEF Next

LEMMA BackedInit ==
    ASSUME Init
    PROVE  FreshClaimsBacked
<1>1. Bounds /\ PhaseFacts /\ HeldFacts
  BY DEF Init, Zero, NoEntry, Bounds, PhaseFacts, HeldFacts, Acquiring
<1>2. \A s \in Slots : ~ Standing(s)
  BY DEF Init, Standing
<1> QED BY <1>1, <1>2 DEF FreshClaimsBacked, Alive, Fresh

\* The invariant is inductive when acquire calls of one node do not overlap: a
\* claim younger than volumeLeaseValidity owns the entry, and neither a request
\* in flight nor a stray one can take it away.
THEOREM Backing ==
    ASSUME SerialOpens
    PROVE  Spec => []FreshClaimsBacked
<1>1. Init => FreshClaimsBacked
  BY BackedInit
<1>2. TypeOK /\ FreshClaimsBacked /\ [Next]_vars => FreshClaimsBacked'
  BY BackedStep
<1> QED BY <1>1, <1>2, TypeCorrect, PTL DEF Spec

LEMMA ValidIsFresh ==
    ASSUME TypeOK, NEW s \in Slots, Valid(s)
    PROVE  Fresh(s) /\ Alive(s)
BY DEF TypeOK, Valid, Expired, Fresh, Alive, Standing, Base

\* At most one lease on the volume is valid at any time, for any number of nodes
\* and goroutines, any TTL above the validity, and any loss, delay or late
\* application of requests: what acquire and the renewLoop are there to ensure.
THEOREM Exclusion ==
    ASSUME SerialOpens
    PROVE  Spec => []LeaseExclusion
<1>1. TypeOK /\ FreshClaimsBacked => LeaseExclusion
  BY ValidIsFresh, OneAlive DEF LeaseExclusion
<1> QED BY <1>1, TypeCorrect, Backing, PTL

\* The entry of a valid lease names its node and is not due to expire: the create
\* of every other node is refused for as long as the lease authorises writes.
THEOREM OwnsEntry ==
    ASSUME SerialOpens
    PROVE  Spec => []ValidLeaseOwnsEntry
<1>1. TypeOK /\ FreshClaimsBacked => ValidLeaseOwnsEntry
  BY ValidIsFresh, EntryYoung DEF ValidLeaseOwnsEntry, FreshClaimsBacked, Unrivalled
<1> QED BY <1>1, TypeCorrect, Backing, PTL

-----------------------------------------------------------------------------
(* The protocol implements the abstract lease. *)

\* A step that only withdraws: what is valid after it was valid before.
Withdraws == epoch' = epoch /\ \A s \in Slots : Valid(s)' => Valid(s)

\* A step that puts the fresh claim of slot s into held.
Admits(s) ==
    /\ phase[s] = "publish" /\ Fresh(s)
    /\ Valid(s)' /\ epoch' = generation[s]

LEMMA OnlyAdmitsRevive ==
    ASSUME TypeOK, TypeOK', FreshClaimsBacked, [Next]_vars
    PROVE  Withdraws \/ \E s \in Slots : Admits(s)
<1> USE DEF server, fields, calls
<1>1. CASE UNCHANGED vars
  BY <1>1 DEF vars, Withdraws, Valid, Expired
<1>2. CASE Tick
  BY <1>2 DEF Tick, Withdraws, Valid, Expired, TypeOK
<1>3. CASE Expire
  BY <1>3 DEF Expire, Withdraws, Valid, Expired
<1>4. ASSUME NEW s \in Slots, Serve(s) PROVE Withdraws
  BY <1>4 DEF Serve, Withdraws, Valid, Expired
<1>5. ASSUME NEW s \in Slots, Renew(s) PROVE Withdraws
  <2>1. CASE RenewAcked(s)
    BY <2>1 DEF RenewAcked, Withdraws, Valid, Expired, TypeOK
  <2>2. CASE ~ RenewAcked(s)
    <3>1. /\ epoch' = epoch /\ now' = now /\ phase' = phase /\ confirmed' = confirmed
          /\ lost \subseteq lost'
      BY <1>5, <2>2 DEF Renew, BeginRenew, RenewTimesOut, ReadoptReads, ReadoptUnread,
                        ReadoptAdopts, LoseToPeer, Surrender
    <3> QED BY <3>1 DEF Withdraws, Valid, Expired
  <2> QED BY <2>1, <2>2
<1>6. ASSUME NEW s \in Slots, Reset(s), now' = now, epoch' = epoch PROVE Withdraws
  <2>1. phase'[s] = "free"
    BY <1>6 DEF Reset, TypeOK
  <2>2. \A t \in Slots \ {s} : /\ phase'[t] = phase[t] /\ confirmed'[t] = confirmed[t]
                               /\ (t \in lost' <=> t \in lost)
    BY <1>6 DEF Reset, TypeOK
  <2> QED BY <1>6, <2>1, <2>2 DEF Withdraws, Valid, Expired
<1>7. ASSUME NEW s \in Slots, GiveBack(s) PROVE Withdraws
  <2>1. CASE Release(s)
    BY <2>1 DEF Release, Withdraws, Valid, Expired, TypeOK
  <2>2. CASE StopLoop(s) /\ s \notin lost
    BY <2>2 DEF StopLoop, Withdraws, Valid, Expired, TypeOK
  <2>3. CASE StopLoop(s) /\ s \in lost
    BY <1>6, <2>3 DEF StopLoop
  <2>4. CASE DeleteDone(s)
    BY <1>6, <2>4 DEF DeleteDone
  <2> QED BY <1>7, <2>1, <2>2, <2>3, <2>4 DEF GiveBack
<1>8. ASSUME NEW s \in Slots, phase[s] = "publish", NEW rev, NEW at \in Nat,
             Admit(s, rev, at), at <= Base(s), now' = now
      PROVE  Withdraws \/ Admits(s)
  <2>1. CASE now - at >= Validity
    BY <1>6, <1>8, <2>1 DEF Admit
  <2>2. CASE ~(now - at >= Validity) /\ s \notin lost
    <3>1. phase'[s] = "held" /\ confirmed'[s] = at /\ epoch' = generation[s] /\ lost' = lost
      BY <1>8, <2>2 DEF Admit, TypeOK
    <3>2. Fresh(s)
      BY <1>8, <2>2, GenType DEF Fresh, Standing, TypeOK
    <3>3. Valid(s)'
      BY <1>8, <2>2, <3>1 DEF Valid, Expired
    <3> QED BY <1>8, <3>1, <3>2, <3>3 DEF Admits
  <2>3. s \notin lost
    BY <1>8 DEF FreshClaimsBacked, PhaseFacts, LoopRuns
  <2> QED BY <2>1, <2>2, <2>3
<1>9. ASSUME NEW s \in Slots, Acquire(s) PROVE Withdraws \/ Admits(s)
  <2>1. CASE BeginAcquire(s) \/ Share(s) \/ Won(s) \/ TakeOver(s)
    BY <2>1 DEF BeginAcquire, Share, Won, TakeOver, Withdraws, Valid, Expired, TypeOK
  <2>2. CASE AcquireRefused(s) \/ AcquireTimesOut(s)
    BY <1>6, <2>2 DEF AcquireRefused, AcquireTimesOut
  <2>3. CASE PublishAcked(s)
    <3>1. Base(s) = sent[s] /\ sent[s] \in Nat
      BY <2>3 DEF PublishAcked, Base, TypeOK
    <3> QED BY <1>8, <2>3, <3>1 DEF PublishAcked
  <2>4. CASE PublishFails(s)
    <3>1. confirmed[s] <= Base(s) /\ confirmed[s] \in Nat
      BY <2>4 DEF PublishFails, Base, TypeOK, FreshClaimsBacked, PhaseFacts
    <3> QED BY <1>8, <2>4, <3>1 DEF PublishFails
  <2> QED BY <1>9, <2>1, <2>2, <2>3, <2>4 DEF Acquire
<1>10. ASSUME NEW r \in stray, ServeStray(r) PROVE Withdraws
  BY <1>10 DEF ServeStray, Withdraws, Valid, Expired
<1>11. ASSUME NEW n \in Nodes, Crash(n) PROVE Withdraws
  BY <1>11 DEF Crash, Withdraws, Valid, Expired
<1> QED BY <1>1, <1>2, <1>3, <1>4, <1>5, <1>7, <1>9, <1>10, <1>11 DEF Next

LEMMA HolderIs ==
    ASSUME LeaseExclusion, NEW s \in Slots, Valid(s)
    PROVE  HolderNode = Home[s]
<1>1. (CHOOSE u \in Slots : Valid(u)) = s
  BY DEF LeaseExclusion
<1> QED BY <1>1 DEF HolderNode

LEMMA NobodyHolds ==
    ASSUME \A s \in Slots : ~ Valid(s)
    PROVE  HolderNode = NoNode
BY DEF HolderNode

LEMMA GrantStep ==
    ASSUME TypeOK, TypeOK', FreshClaimsBacked, LeaseExclusion, LeaseExclusion', [Next]_vars
    PROVE  [Grants!Next]_(Grants!vars)
<1>1. CASE Withdraws
  <2>1. CASE \E s \in Slots : Valid(s)'
    <3>1. PICK s \in Slots : Valid(s)'
      BY <2>1
    <3>2. Valid(s)
      BY <1>1, <3>1 DEF Withdraws
    <3>3. HolderNode' = Home[s] /\ HolderNode = Home[s]
      <4>1. HolderNode = Home[s]
        BY <3>2, HolderIs
      <4>2. (CHOOSE u \in Slots : Valid(u)') = s
        BY <3>1 DEF LeaseExclusion
      <4> QED BY <3>1, <4>1, <4>2 DEF HolderNode
    <3> QED BY <1>1, <3>3 DEF Withdraws, Grants!vars
  <2>2. CASE ~ \E s \in Slots : Valid(s)'
    <3>1. HolderNode' = NoNode
      BY <2>2 DEF HolderNode
    <3> QED BY <1>1, <3>1 DEF Withdraws, Grants!vars, Grants!Next, Grants!Withdraw
  <2> QED BY <2>1, <2>2
<1>2. ASSUME NEW s \in Slots, Admits(s) PROVE Grants!Grant(Home[s])
  <2>1. \A t \in Slots : ~ Valid(t)
    <3> SUFFICES ASSUME NEW t \in Slots, Valid(t) PROVE FALSE
      OBVIOUS
    <3>1. s = t
      BY <1>2, ValidIsFresh, OneAlive DEF Admits
    <3> QED BY <1>2, <3>1 DEF Admits, Valid
  <2>2. HolderNode = NoNode
    BY <2>1, NobodyHolds
  <2>3. (CHOOSE u \in Slots : Valid(u)') = s
    BY <1>2 DEF LeaseExclusion, Admits
  <2>4. HolderNode' = Home[s]
    BY <1>2, <2>3 DEF HolderNode, Admits
  <2>5. epoch' \in Nat /\ epoch' > epoch
    <3>1. Unrivalled(s)
      BY <1>2 DEF Admits, FreshClaimsBacked, Alive, Fresh
    <3>2. epoch < generation[s]
      BY <1>2, <3>1 DEF Admits, Unrivalled, Gen
    <3> QED BY <1>2, <3>2 DEF Admits, TypeOK
  <2> QED BY <2>2, <2>4, <2>5 DEF Grants!Grant
<1> QED BY <1>1, <1>2, OnlyAdmitsRevive DEF Grants!Next

\* The KV protocol implements the abstract lease: authorisations are granted one
\* at a time with growing generations, and one that ended is never resumed, even
\* by a renewal that is acknowledged after the lease lapsed.
THEOREM Refinement ==
    ASSUME SerialOpens
    PROVE  Spec => ImplementsGrant
<1>1. Init => Grants!Init
  <2> SUFFICES ASSUME Init PROVE Grants!Init
    OBVIOUS
  <2>1. \A s \in Slots : ~ Valid(s)
    BY DEF Init, Valid
  <2> QED BY <2>1, NobodyHolds DEF Init, Grants!Init
<1>2. (TypeOK /\ TypeOK' /\ FreshClaimsBacked /\ LeaseExclusion /\ LeaseExclusion'
         /\ [Next]_vars) => [Grants!Next]_(Grants!vars)
  BY GrantStep
<1> QED BY <1>1, <1>2, TypeCorrect, Backing, Exclusion, PTL DEF Spec, ImplementsGrant, Grants!Spec
=============================================================================
