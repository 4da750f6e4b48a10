---------------------------- MODULE VolumeLease ----------------------------
(***************************************************************************)
(* The cluster-wide volume lease of viperblockd (volume_lease.go): one     *)
(* JetStream KV entry per volume, taken by a conditional create, kept      *)
(* young by conditional rewrites, given back by a conditional delete, and  *)
(* expired by the server TTL.  One volume is modelled: entries of          *)
(* different volumes share nothing but the bucket's revision counter.      *)
(*                                                                         *)
(* A slot is one *volumeLease of one node, from the acquire call that      *)
(* creates it to the end of the release call that gives it up.  Two slots  *)
(* of one node are two handler goroutines (a publish and a snapshot of the *)
(* same volume run on different NATS subscriptions).                       *)
(*                                                                         *)
(* Every write to the KV server takes three steps: it is sent, the server  *)
(* applies or refuses it, the client hears the answer.  Time may pass      *)
(* between them.  A client that gives up on a request that is not applied  *)
(* leaves it lost, or stray: the server may still apply it later.          *)
(***************************************************************************)
EXTENDS Integers, FiniteSets

CONSTANTS
    Nodes, Slots,
    Home,            \* the node each slot belongs to
    NoNode, NoSlot,
    TTL,             \* volumeLeaseTTL
    Validity,        \* volumeLeaseValidity
    RenewInterval,   \* volumeLeaseRenewInterval
    SerialOpens,     \* acquire calls of one node never overlap
    MaxTime, MaxSeq, MaxRefs, MaxStray   \* bounds of the explored instance

ASSUME ConstantsAssumption ==
    /\ Home \in [Slots -> Nodes]
    /\ NoNode \notin Nodes
    /\ NoSlot \notin Slots
    /\ TTL \in Nat /\ Validity \in Nat /\ RenewInterval \in Nat
    /\ SerialOpens \in BOOLEAN
    /\ MaxTime \in Nat /\ MaxSeq \in Nat /\ MaxRefs \in Nat /\ MaxStray \in Nat

\* volume_lease_test.go pins it: a holder stops before the server may re-grant.
ASSUME MarginAssumption == Validity < TTL

VARIABLES
    now,          \* elapsed time, the clock() of every node
    seq,          \* the last revision the bucket handed out
    entry,        \* the volume's entry in the bucket
    phase,        \* how far each slot's acquire, hold or release has come
    generation, revision, confirmed, refs,   \* volumeLease fields of each slot
    lost,         \* the slots whose volumeLease.lost is set
    call,         \* each slot's request to the KV server
    res,          \* the revision it was answered with
    sent,         \* when it was sent, where the code measures from that
    held,         \* volumeLeases.held of each node
    stray,        \* requests whose sender stopped waiting, not applied yet
    epoch         \* history: the generation of the last lease put in held

server == <<seq, entry>>
fields == <<generation, revision, confirmed, refs, lost>>
calls == <<call, res, sent>>
vars == <<now, server, phase, fields, calls, held, stray, epoch>>

Phases == {"free", "create", "takeover", "publish", "held", "stop", "delete"}
Acquiring == {"create", "takeover", "publish"}
LoopRuns == {"held", "stop"}      \* the renewLoop goroutine exists

\* "mine" and "gone" are what readopt's re-read of a refused renewal found.
CallStates == {"idle", "sent", "ok", "refused", "mine", "gone"}

Entry == [owner : Nodes \cup {NoNode}, gen : Nat, rev : Nat, at : Nat]
NoEntry == [owner |-> NoNode, gen |-> 0, rev |-> 0, at |-> 0]

Request == [node : Nodes, del : BOOLEAN, cond : Nat, gen : Nat]

TypeOK ==
    /\ now \in Nat
    /\ seq \in Nat
    /\ entry \in Entry
    /\ phase \in [Slots -> Phases]
    /\ generation \in [Slots -> Nat]
    /\ revision \in [Slots -> Nat]
    /\ confirmed \in [Slots -> Nat]
    /\ refs \in [Slots -> Int]
    /\ lost \subseteq Slots
    /\ call \in [Slots -> CallStates]
    /\ res \in [Slots -> Nat]
    /\ sent \in [Slots -> Nat]
    /\ held \in [Nodes -> Slots \cup {NoSlot}]
    /\ stray \subseteq Request
    /\ epoch \in Nat

Zero == [s \in Slots |-> 0]

Init ==
    /\ now = 0
    /\ seq = 0
    /\ entry = NoEntry
    /\ phase = [s \in Slots |-> "free"]
    /\ generation = Zero /\ revision = Zero /\ confirmed = Zero /\ refs = Zero
    /\ lost = {}
    /\ call = [s \in Slots |-> "idle"]
    /\ res = Zero /\ sent = Zero
    /\ held = [n \in Nodes |-> NoSlot]
    /\ stray = {}
    /\ epoch = 0

-----------------------------------------------------------------------------
(* The KV server. *)

\* The request a slot has in flight.  Condition 0 is Create's "no entry yet";
\* every other write names the revision it replaces.  The first payload of an
\* acquisition carries no generation, so it is 0 until the write that won.
RequestOf(s) ==
    [node |-> Home[s], del |-> phase[s] = "delete",
     cond |-> IF phase[s] = "create" THEN 0 ELSE revision[s],
     gen |-> generation[s]]

\* Mutant of Accepts: the delete of a release names no revision.
AcceptsAnyDelete(r) == r.del \/ entry.rev = r.cond

Accepts(r) == entry.rev = r.cond

Written(r) ==
    IF r.del THEN NoEntry
    ELSE [owner |-> r.node, gen |-> r.gen, rev |-> seq + 1, at |-> now]

Store(r) ==
    /\ seq < MaxSeq
    /\ seq' = seq + 1
    /\ entry' = Written(r)

\* The slot's call is answered, or over ("idle").
Answer(s, st, rev) ==
    /\ call' = [call EXCEPT ![s] = st]
    /\ res' = [res EXCEPT ![s] = rev]
    /\ sent' = IF st = "idle" THEN [sent EXCEPT ![s] = 0] ELSE sent

\* A new request goes out.
Send(s, at) ==
    /\ call' = [call EXCEPT ![s] = "sent"]
    /\ res' = [res EXCEPT ![s] = 0]
    /\ sent' = [sent EXCEPT ![s] = at]

\* The server decides the request a client is waiting on.
Serve(s) ==
    /\ call[s] = "sent"
    /\ \/ Accepts(RequestOf(s)) /\ Store(RequestOf(s)) /\ Answer(s, "ok", seq + 1)
       \/ ~ Accepts(RequestOf(s)) /\ Answer(s, "refused", 0) /\ UNCHANGED server
    /\ UNCHANGED <<now, phase, fields, held, stray, epoch>>

\* It decides one nobody waits on any more.
ServeStray(r) ==
    /\ stray' = stray \ {r}
    /\ \/ Accepts(r) /\ Store(r)
       \/ ~ Accepts(r) /\ UNCHANGED server
    /\ UNCHANGED <<now, phase, fields, calls, held, epoch>>

\* The bucket TTL runs from the last write, and never ends early.
Expire ==
    /\ entry.rev # 0
    /\ now >= entry.at + TTL
    /\ entry' = NoEntry
    /\ UNCHANGED <<now, seq, phase, fields, calls, held, stray, epoch>>

Tick ==
    /\ now < MaxTime
    /\ now' = now + 1
    /\ UNCHANGED <<server, phase, fields, calls, held, stray, epoch>>

\* The client stops waiting; what was not applied yet is lost or stray.
GiveUp(s) ==
    \/ stray' = stray
    \/ /\ call[s] = "sent"
       /\ Cardinality(stray) < MaxStray
       /\ stray' = stray \cup {RequestOf(s)}

-----------------------------------------------------------------------------
(* acquire and takeOver *)

\* expiredLocally: lost aside, the part of validity that is only the clock.
Expired(s) == now - confirmed[s] >= Validity

\* The slot's lease object is dropped.
Reset(s) ==
    /\ phase' = [phase EXCEPT ![s] = "free"]
    /\ generation' = [generation EXCEPT ![s] = 0]
    /\ revision' = [revision EXCEPT ![s] = 0]
    /\ confirmed' = [confirmed EXCEPT ![s] = 0]
    /\ refs' = [refs EXCEPT ![s] = 0]
    /\ lost' = lost \ {s}
    /\ Answer(s, "idle", 0)

\* Mutant of BeginAcquire: the first renewal is made due by backdating.
BeginAcquireBackdated(s) ==
    /\ phase[s] = "free"
    /\ held[Home[s]] = NoSlot
    /\ phase' = [phase EXCEPT ![s] = "create"]
    /\ confirmed' = [confirmed EXCEPT ![s] = now - RenewInterval]
    /\ Send(s, 0)
    /\ UNCHANGED <<now, server, generation, revision, refs, lost, held, stray, epoch>>

\* acquire with nothing held: note the time, send the create.
BeginAcquire(s) ==
    /\ phase[s] = "free"
    /\ held[Home[s]] = NoSlot
    /\ SerialOpens =>
         \A t \in Slots : Home[t] = Home[s] => phase[t] \notin Acquiring
    /\ phase' = [phase EXCEPT ![s] = "create"]
    /\ confirmed' = [confirmed EXCEPT ![s] = now]
    /\ Send(s, 0)
    /\ UNCHANGED <<now, server, generation, revision, refs, lost, held, stray, epoch>>

\* acquire with a lease held: an open of this node shares a usable one.
Share(s) ==
    /\ phase[s] = "held"
    /\ held[Home[s]] = s
    /\ s \notin lost
    /\ ~ Expired(s)
    /\ refs[s] < MaxRefs
    /\ refs' = [refs EXCEPT ![s] = @ + 1]
    /\ UNCHANGED <<now, server, phase, generation, revision, confirmed, lost, calls,
                   held, stray, epoch>>

\* The create or the takeover won: its revision is the generation, which is
\* published by a second write.
Won(s) ==
    /\ phase[s] \in {"create", "takeover"}
    /\ call[s] = "ok"
    /\ phase' = [phase EXCEPT ![s] = "publish"]
    /\ generation' = [generation EXCEPT ![s] = res[s]]
    /\ revision' = [revision EXCEPT ![s] = res[s]]
    /\ Send(s, now)
    /\ UNCHANGED <<now, server, confirmed, refs, lost, held, stray, epoch>>

\* Mutant of TakeOver: the owner of the entry is not compared.
TakeOverAnyOwner(s) ==
    /\ phase[s] = "create"
    /\ call[s] = "refused"
    /\ entry.rev # 0
    /\ phase' = [phase EXCEPT ![s] = "takeover"]
    /\ revision' = [revision EXCEPT ![s] = entry.rev]
    /\ Send(s, 0)
    /\ UNCHANGED <<now, server, generation, confirmed, refs, lost, held, stray, epoch>>

\* The create found an entry: takeOver reads it and, if it names this node,
\* replaces the revision it read.
TakeOver(s) ==
    /\ phase[s] = "create"
    /\ call[s] = "refused"
    /\ entry.owner = Home[s]
    /\ phase' = [phase EXCEPT ![s] = "takeover"]
    /\ revision' = [revision EXCEPT ![s] = entry.rev]
    /\ Send(s, 0)
    /\ UNCHANGED <<now, server, generation, confirmed, refs, lost, held, stray, epoch>>

\* errVolumeLeaseHeld: the entry could not be read, is gone, or names another
\* node; or somebody replaced it before the takeover did.
AcquireRefused(s) ==
    /\ phase[s] \in {"create", "takeover"}
    /\ call[s] = "refused"
    /\ Reset(s)
    /\ UNCHANGED <<now, server, held, stray, epoch>>

\* ErrLeaseStoreUnavailable: no answer to the create or the takeover.
AcquireTimesOut(s) ==
    /\ phase[s] \in {"create", "takeover"}
    /\ call[s] \in {"sent", "ok"}
    /\ GiveUp(s)
    /\ Reset(s)
    /\ UNCHANGED <<now, server, held, epoch>>

\* The tail of acquire: a lease acknowledged too late is refused and its entry
\* left to expire, any other goes into held and its renewLoop starts.
Admit(s, rev, at) ==
    IF now - at >= Validity
    THEN Reset(s) /\ UNCHANGED <<held, epoch>>
    ELSE /\ phase' = [phase EXCEPT ![s] = "held"]
         /\ revision' = [revision EXCEPT ![s] = rev]
         /\ confirmed' = [confirmed EXCEPT ![s] = at]
         /\ refs' = [refs EXCEPT ![s] = 1]
         /\ held' = [held EXCEPT ![Home[s]] = s]
         /\ epoch' = generation[s]
         /\ Answer(s, "idle", 0)
         /\ UNCHANGED <<generation, lost>>

\* Mutant of PublishAcked: validity counts from the acknowledgement.
PublishAckedFromAck(s) ==
    /\ phase[s] = "publish"
    /\ call[s] = "ok"
    /\ Admit(s, res[s], now)
    /\ UNCHANGED <<now, server, stray>>

PublishAcked(s) ==
    /\ phase[s] = "publish"
    /\ call[s] = "ok"
    /\ Admit(s, res[s], sent[s])
    /\ UNCHANGED <<now, server, stray>>

\* A generation that could not be published costs observability only: the
\* lease keeps the revision and the send time of the write that won.
PublishFails(s) ==
    /\ phase[s] = "publish"
    /\ GiveUp(s)
    /\ Admit(s, revision[s], confirmed[s])
    /\ UNCHANGED <<now, server>>

-----------------------------------------------------------------------------
(* renewLoop, renew, readopt, surrender, loseToPeer *)

\* The ticker of the loop, which ends once the lease is lost.
BeginRenew(s) ==
    /\ phase[s] \in LoopRuns
    /\ call[s] = "idle"
    /\ s \notin lost
    /\ ~ Expired(s)
    /\ now - confirmed[s] >= RenewInterval
    /\ Send(s, now)
    /\ UNCHANGED <<now, server, phase, fields, held, stray, epoch>>

\* Mutant of RenewAcked: a renewal acknowledged after the lapse revives it.
RenewAckedAfterLapse(s) ==
    /\ phase[s] \in LoopRuns
    /\ call[s] = "ok"
    /\ Answer(s, "idle", 0)
    /\ revision' = [revision EXCEPT ![s] = res[s]]
    /\ confirmed' = [confirmed EXCEPT ![s] = sent[s]]
    /\ UNCHANGED <<now, server, phase, generation, refs, lost, held, stray, epoch>>

\* An acknowledged renewal extends a lease that is still valid, gives up one
\* that lapsed while it was in flight, and is ignored by one already lost.
RenewAcked(s) ==
    /\ phase[s] \in LoopRuns
    /\ call[s] = "ok"
    /\ Answer(s, "idle", 0)
    /\ IF s \in lost \/ Expired(s)
       THEN lost' = lost \cup {s} /\ UNCHANGED <<revision, confirmed>>
       ELSE /\ revision' = [revision EXCEPT ![s] = res[s]]
            /\ confirmed' = [confirmed EXCEPT ![s] = sent[s]]
            /\ UNCHANGED lost
    /\ UNCHANGED <<now, server, phase, generation, refs, held, stray, epoch>>

\* A transient failure: the server may or may not have applied the renewal.
RenewTimesOut(s) ==
    /\ phase[s] \in LoopRuns
    /\ call[s] \in {"sent", "ok"}
    /\ GiveUp(s)
    /\ Answer(s, "idle", 0)
    /\ UNCHANGED <<now, server, phase, fields, held, epoch>>

\* readopt reads the entry after a refused renewal ...
ReadoptReads(s) ==
    /\ phase[s] \in LoopRuns
    /\ call[s] = "refused"
    /\ IF entry.owner = Home[s] /\ entry.gen = generation[s]
       THEN Answer(s, "mine", entry.rev)
       ELSE Answer(s, "gone", 0)
    /\ UNCHANGED <<now, server, phase, fields, held, stray, epoch>>

\* ... keeps the lease when the read failed, ...
ReadoptUnread(s) ==
    /\ phase[s] \in LoopRuns
    /\ call[s] = "refused"
    /\ Answer(s, "idle", 0)
    /\ UNCHANGED <<now, server, phase, fields, held, stray, epoch>>

\* ... adopts the revision of a write of its own, without confirming it, ...
ReadoptAdopts(s) ==
    /\ phase[s] \in LoopRuns
    /\ call[s] = "mine"
    /\ revision' = [revision EXCEPT ![s] = res[s]]
    /\ Answer(s, "idle", 0)
    /\ UNCHANGED <<now, server, phase, generation, confirmed, refs, lost, held, stray, epoch>>

\* ... and otherwise has lost the lease to a peer.
LoseToPeer(s) ==
    /\ phase[s] \in LoopRuns
    /\ call[s] = "gone"
    /\ lost' = lost \cup {s}
    /\ Answer(s, "idle", 0)
    /\ UNCHANGED <<now, server, phase, generation, revision, confirmed, refs, held, stray, epoch>>

\* The deadline timer: unconfirmed for volumeLeaseValidity.
Surrender(s) ==
    /\ phase[s] \in LoopRuns
    /\ s \notin lost
    /\ Expired(s)
    /\ lost' = lost \cup {s}
    /\ UNCHANGED <<now, server, phase, generation, revision, confirmed, refs, calls,
                   held, stray, epoch>>

-----------------------------------------------------------------------------
(* release, and the end of the process *)

\* One reference goes; the last one takes the lease out of held.
Release(s) ==
    /\ phase[s] = "held"
    /\ refs' = [refs EXCEPT ![s] = @ - 1]
    /\ IF refs[s] > 1
       THEN UNCHANGED <<phase, held>>
       ELSE /\ phase' = [phase EXCEPT ![s] = "stop"]
            /\ held' = [held EXCEPT ![Home[s]] = NoSlot]
    /\ UNCHANGED <<now, server, generation, revision, confirmed, lost, calls, stray, epoch>>

\* The loop is cancelled and waited for, then the entry is deleted at the
\* revision last written, unless the lease is lost.
StopLoop(s) ==
    /\ phase[s] = "stop"
    /\ GiveUp(s)
    /\ IF s \in lost
       THEN Reset(s)
       ELSE /\ phase' = [phase EXCEPT ![s] = "delete"]
            /\ Send(s, 0)
            /\ UNCHANGED fields
    /\ UNCHANGED <<now, server, held, epoch>>

DeleteDone(s) ==
    /\ phase[s] = "delete"
    /\ GiveUp(s)
    /\ Reset(s)
    /\ UNCHANGED <<now, server, held, epoch>>

\* viperblockd dies: its leases are forgotten, their entries stay.
Crash(n) ==
    LET mine == {s \in Slots : Home[s] = n}
        Wipe(f, v) == [s \in Slots |-> IF s \in mine THEN v ELSE f[s]]
    IN
    /\ \E s \in mine : phase[s] # "free"
    /\ \E kept \in SUBSET {RequestOf(s) : s \in {t \in mine : call[t] = "sent"}} :
         /\ Cardinality(stray \cup kept) <= MaxStray
         /\ stray' = stray \cup kept
    /\ phase' = Wipe(phase, "free") /\ call' = Wipe(call, "idle")
    /\ generation' = Wipe(generation, 0) /\ revision' = Wipe(revision, 0)
    /\ confirmed' = Wipe(confirmed, 0) /\ refs' = Wipe(refs, 0)
    /\ res' = Wipe(res, 0) /\ sent' = Wipe(sent, 0)
    /\ lost' = lost \ mine
    /\ held' = [held EXCEPT ![n] = NoSlot]
    /\ UNCHANGED <<now, server, epoch>>

-----------------------------------------------------------------------------

Acquire(s) ==
    \/ BeginAcquire(s) \/ Share(s) \/ Won(s) \/ TakeOver(s) \/ AcquireRefused(s)
    \/ AcquireTimesOut(s) \/ PublishAcked(s) \/ PublishFails(s)

Renew(s) ==
    \/ BeginRenew(s) \/ RenewAcked(s) \/ RenewTimesOut(s) \/ ReadoptReads(s)
    \/ ReadoptUnread(s) \/ ReadoptAdopts(s) \/ LoseToPeer(s) \/ Surrender(s)

GiveBack(s) == Release(s) \/ StopLoop(s) \/ DeleteDone(s)

Next ==
    \/ Tick
    \/ Expire
    \/ \E s \in Slots : Serve(s) \/ Acquire(s) \/ Renew(s) \/ GiveBack(s)
    \/ \E r \in stray : ServeStray(r)
    \/ \E n \in Nodes : Crash(n)

Spec == Init /\ [][Next]_vars

-----------------------------------------------------------------------------
(* What the lease is for. *)

\* The lease authorises an engine to be open right now.
Valid(s) == phase[s] = "held" /\ s \notin lost /\ ~ Expired(s)

\* Never are two leases on the volume valid at once, on two nodes or on one.
LeaseExclusion == \A s, t \in Slots : Valid(s) /\ Valid(t) => s = t

\* "cross-node exclusion is what the lease is for" (acquire): never are two
\* nodes authorised at once, whatever opens of one node do to each other.
NodeExclusion == \A s, t \in Slots : Valid(s) /\ Valid(t) => Home[s] = Home[t]

\* While a lease is valid the bucket holds an entry of its node that is not due
\* to expire, so the server refuses every other node's create.
ValidLeaseOwnsEntry ==
    \A s \in Slots : Valid(s) => entry.owner = Home[s] /\ now < entry.at + TTL

-----------------------------------------------------------------------------
(* The inductive invariant behind both, for acquire calls that do not overlap.
   The claim of a slot starts when its create or takeover is applied, long
   before acquire returns: what protects a valid lease has to hold from then. *)

\* The slot's claim is applied and neither given up nor lost.
Standing(s) ==
    \/ phase[s] \in {"create", "takeover"} /\ call[s] = "ok"
    \/ phase[s] = "publish"
    \/ phase[s] = "held" /\ s \notin lost

\* The revision the claim was applied at.
Gen(s) == IF phase[s] \in {"create", "takeover"} THEN res[s] ELSE generation[s]

\* The send time its validity would count from if acquire returned now.
Base(s) == IF phase[s] = "publish" /\ call[s] = "ok" THEN sent[s] ELSE confirmed[s]

Fresh(s) == Standing(s) /\ now - Base(s) < Validity

\* A claim nobody can have replaced: it is fresh, or its first write is still
\* what the bucket holds (the generation can yet be published, however late).
Alive(s) == Standing(s) /\ (Fresh(s) \/ entry.rev = Gen(s))

\* A request that cannot take the entry from the claim: it is conditioned on a
\* revision older than the claim, or it is a rewrite of the claim itself.
Harmless(r, s) ==
    \/ r.cond < Gen(s)
    \/ r.node = Home[s] /\ ~ r.del /\ r.gen = Gen(s)

\* No revision anybody remembers is ahead of the bucket's.
Bounds ==
    /\ entry.rev <= seq
    /\ entry.at <= now
    /\ epoch <= seq
    /\ \A r \in stray : r.cond <= seq
    /\ \A s \in Slots :
         /\ revision[s] <= seq /\ generation[s] <= seq /\ res[s] <= seq
         /\ confirmed[s] <= now /\ sent[s] <= now

\* What each phase has established.
PhaseFacts ==
    \A s \in Slots :
        /\ phase[s] \in {"free", "create", "takeover"} => generation[s] = 0
        /\ phase[s] \in {"publish", "held", "stop", "delete"} => generation[s] > 0
        /\ call[s] = "ok" => res[s] > 0
        /\ phase[s] = "publish" => confirmed[s] <= sent[s] /\ revision[s] = generation[s]
        /\ s \in lost => phase[s] \in LoopRuns

\* Acquire calls of a node are serial and the lease they produce is in held.
HeldFacts ==
    \A s, t \in Slots : Home[s] = Home[t] =>
        /\ phase[s] \in Acquiring /\ phase[t] \in Acquiring => s = t
        /\ phase[s] = "held" => held[Home[s]] = s /\ phase[t] \notin Acquiring

\* No other slot knows a revision as young as the claim.
Youngest(s) ==
    \A t \in Slots \ {s} :
        revision[t] < Gen(s) /\ generation[t] < Gen(s) /\ res[t] < Gen(s)

\* The entry is of the claim's node and no request, in flight or yet to be sent
\* by another slot, can take it away.
Unrivalled(s) ==
    /\ entry.owner = Home[s]
    /\ entry.gen \in {0, Gen(s)}
    /\ IF phase[s] = "held" THEN epoch = Gen(s) ELSE epoch < Gen(s)
    /\ \A r \in stray : Harmless(r, s)
    /\ Youngest(s)

\* The entry is as young as the claim, so the server does not expire it.
Covered(s) ==
    /\ entry.rev >= Gen(s)
    /\ entry.at >= Base(s)
    /\ phase[s] = "held" /\ call[s] = "ok" => entry.at >= sent[s]

\* The inductive invariant: a claim younger than volumeLeaseValidity still owns
\* the bucket's entry and no request in flight can take it away.
FreshClaimsBacked ==
    /\ Bounds
    /\ PhaseFacts
    /\ HeldFacts
    /\ \A s \in Slots : (Alive(s) => Unrivalled(s)) /\ (Fresh(s) => Covered(s))

-----------------------------------------------------------------------------
(* The abstract lease. *)

HolderNode ==
    IF \E s \in Slots : Valid(s) THEN Home[CHOOSE s \in Slots : Valid(s)] ELSE NoNode

Grants == INSTANCE LeaseGrant WITH holder <- HolderNode

\* The KV protocol implements the abstract lease.
ImplementsGrant == Grants!Spec
=============================================================================
