------------------------------- MODULE KvLease -------------------------------
(***************************************************************************)
(* kvlease.Lease: the election that gives one node at a time the work of a *)
(* reconciler (ECS scheduler, EKS, RDS and network reconcilers).  A key    *)
(* with a TTL in a JetStream bucket, created by the winner, refreshed by a *)
(* goroutine of its own and deleted on release.                            *)
(*                                                                         *)
(* A holder has no deadline of its own: it learns of a loss only when a    *)
(* refresh fails, so that two nodes never both believe they hold the lease *)
(* is a matter of timing.  Time is counted in ticks.                       *)
(*                                                                         *)
(* A revision is only ever compared with the last revision of the key, and *)
(* revisions only grow.  So the model keeps, instead of numbers, the set   *)
(* of places whose stored revision is still the last one.                  *)
(***************************************************************************)
EXTENDS Naturals, FiniteSets

CONSTANTS
    Nodes,      \* the candidates; each has a holder name of its own
    TTL,        \* ticks after which an unrefreshed key expires
    Renew,      \* ticks between two refreshes
    Rpc,        \* ticks after which a store request has failed
    Slots,      \* bound: renew goroutines of one lease alive at a time
    MaxFaults,  \* bound: lost replies, crashes and refused set-ups
    NoNode

(* The first conjunct on TTL is checked by New; the second is what the     *)
(* shipped settings (60 s, 20 s, 5 s) satisfy.                             *)
ASSUME TimingAssumption ==
    /\ TTL \in Nat /\ Renew \in Nat \ {0} /\ Rpc \in Nat \ {0}
    /\ 2 * Renew <= TTL
    /\ Rpc <= Renew /\ Renew + 2 * Rpc < TTL
ASSUME LeaseBounds == MaxFaults \in Nat /\ IsFiniteSet(Slots) /\ NoNode \notin Nodes

VARIABLES
    key,      \* the holder named by the key, or NoNode: absent
    age,      \* ticks since the key was last written
    current,  \* the places whose revision is the key's last
    held,     \* nodes with Lease.held
    kv,       \* nodes with Lease.kv # nil
    pc,       \* [Nodes -> where the caller's goroutine is]
    due,      \* [Nodes -> ticks left for the reply of a claim]
    renewer,  \* [Nodes -> [Slots -> renew goroutine]]
    bus,      \* nodes whose scheduler keeps the leader's subscriptions
    faults    \* faults left

vars == <<key, age, current, held, kv, pc, due, renewer, bus, faults>>

Steps == {"idle", "created", "get", "update", "adopted", "gained", "mark", "onlost", "delete"}
Won == {"created", "adopted"}
Renewers == [st : {"none", "wait", "sent", "applied", "refused", "lost"},
             t : 0..Renew, live : BOOLEAN]
Places == ({"lease", "claim", "release"} \X Nodes)
              \cup ({"renew"} \X Nodes \X Slots)

NoRenewer == [st |-> "none", t |-> 0, live |-> FALSE]

Lease(n) == <<"lease", n>>
Claim(n) == <<"claim", n>>
Captured(n) == <<"release", n>>
Refresh(n, i) == <<"renew", n, i>>

(* to takes the revision stored at from; Moved also forgets it there. *)
Copied(from, to) == IF from \in current THEN current \cup {to} ELSE current \ {to}
Moved(from, to) == Copied(from, to) \ {from}

-----------------------------------------------------------------------------
(* The store.  A write makes every revision stored elsewhere stale. *)

Put(n, place) ==
    /\ key' = n
    /\ age' = 0
    /\ current' = {place}

Expire ==
    /\ key # NoNode /\ age = TTL
    /\ key' = NoNode
    /\ age' = 0
    /\ current' = {}
    /\ UNCHANGED <<held, kv, pc, due, renewer, bus, faults>>

Fault ==
    /\ faults > 0
    /\ faults' = faults - 1

-----------------------------------------------------------------------------
(* TryAcquire: claim creates the key, or adopts one this holder left       *)
(* behind.  A failed Create, a lost reply included, goes on to the Get.    *)

Create(n) ==
    /\ pc[n] = "idle" /\ n \notin held
    /\ \E i \in Slots : renewer[n][i].st = "none"
    /\ IF key = NoNode
       THEN /\ Put(n, Claim(n))
            /\ pc' = [pc EXCEPT ![n] = "created"]
            /\ due' = [due EXCEPT ![n] = Rpc]
       ELSE /\ pc' = [pc EXCEPT ![n] = "get"]
            /\ UNCHANGED <<key, age, current, due>>
    /\ UNCHANGED <<held, kv, renewer, bus, faults>>

ClaimReplyLost(n) ==
    /\ pc[n] \in Won
    /\ Fault
    /\ pc' = [pc EXCEPT ![n] = IF @ = "created" THEN "get" ELSE "idle"]
    /\ due' = [due EXCEPT ![n] = 0]
    /\ current' = current \ {Claim(n)}
    /\ UNCHANGED <<key, age, held, kv, renewer, bus>>

Get(n) ==
    /\ pc[n] = "get"
    /\ IF key = n
       THEN /\ pc' = [pc EXCEPT ![n] = "update"]
            /\ current' = current \cup {Claim(n)}
       ELSE /\ pc' = [pc EXCEPT ![n] = "idle"]
            /\ UNCHANGED current
    /\ UNCHANGED <<key, age, held, kv, due, renewer, bus, faults>>

Update(n) ==
    /\ pc[n] = "update"
    /\ IF Claim(n) \in current
       THEN /\ Put(n, Claim(n))
            /\ pc' = [pc EXCEPT ![n] = "adopted"]
            /\ due' = [due EXCEPT ![n] = Rpc]
       ELSE /\ pc' = [pc EXCEPT ![n] = "idle"]
            /\ UNCHANGED <<key, age, current, due>>
    /\ UNCHANGED <<held, kv, renewer, bus, faults>>

UpdateFails(n) ==
    /\ pc[n] \in {"get", "update"}
    /\ Fault
    /\ pc' = [pc EXCEPT ![n] = "idle"]
    /\ current' = current \ {Claim(n)}
    /\ UNCHANGED <<key, age, held, kv, due, renewer, bus>>

(* The claim returned: a renewer left by the last acquisition is           *)
(* cancelled, a new one started.                                           *)
Elected(n) ==
    /\ pc[n] \in Won
    /\ \E i \in Slots :
          /\ renewer[n][i].st = "none"
          /\ renewer' = [renewer EXCEPT ![n] =
                           [j \in Slots |->
                              IF j = i THEN [st |-> "wait", t |-> Renew, live |-> TRUE]
                              ELSE [renewer[n][j] EXCEPT !.live = FALSE]]]
    /\ held' = held \cup {n}
    /\ kv' = kv \cup {n}
    /\ current' = Moved(Claim(n), Lease(n))
    /\ pc' = [pc EXCEPT ![n] = "gained"]
    /\ due' = [due EXCEPT ![n] = 0]
    /\ UNCHANGED <<key, age, bus, faults>>

(* OnGained runs after held is set and outside the lock.  The scheduler's  *)
(* subscribes the leader to the bus, over whatever it had kept before.     *)
OnGained(n) ==
    /\ pc[n] = "gained"
    /\ bus' = bus \cup {n}
    /\ pc' = [pc EXCEPT ![n] = "idle"]
    /\ UNCHANGED <<key, age, current, held, kv, due, renewer, faults>>

-----------------------------------------------------------------------------
(* Release, by a pass that is done, a shutdown, or a leader that could not *)
(* set up its work.                                                        *)

Stopped(n) == [i \in Slots |-> [renewer[n][i] EXCEPT !.live = FALSE]]

Release(n) ==
    /\ n \in kv
    /\ \/ pc[n] = "idle" /\ UNCHANGED faults
       \/ pc[n] = "gained" /\ Fault
    /\ kv' = kv \ {n}
    /\ renewer' = [renewer EXCEPT ![n] = Stopped(n)]
    /\ current' = Copied(Lease(n), Captured(n))
    /\ pc' = [pc EXCEPT ![n] = "mark"]
    /\ UNCHANGED <<key, age, held, due, bus>>

(* markLost: whoever clears held owns the edge. *)
ReleaseMark(n) ==
    /\ pc[n] = "mark"
    /\ held' = held \ {n}
    /\ pc' = [pc EXCEPT ![n] = IF n \in held THEN "onlost" ELSE "idle"]
    /\ current' = IF n \in held THEN current ELSE current \ {Captured(n)}
    /\ UNCHANGED <<key, age, kv, due, renewer, bus, faults>>

\* Mutant: OnLost runs under the lock and the release waits for itself.
ReleaseOnLostBlocks(n) ==
    /\ pc[n] = "onlost"
    /\ bus' = bus \ {n}
    /\ UNCHANGED <<key, age, current, held, kv, pc, due, renewer, faults>>

ReleaseOnLost(n) ==
    /\ pc[n] = "onlost"
    /\ bus' = bus \ {n}
    /\ pc' = [pc EXCEPT ![n] = "delete"]
    /\ UNCHANGED <<key, age, current, held, kv, due, renewer, faults>>

\* Mutant: the delete carries no revision.
ReleaseDeleteAny(n) ==
    /\ pc[n] = "delete"
    /\ key' = NoNode /\ age' = 0 /\ current' = {}
    /\ pc' = [pc EXCEPT ![n] = "idle"]
    /\ UNCHANGED <<held, kv, due, renewer, bus, faults>>

(* The delete carries the captured revision; when it fails the TTL reaps. *)
ReleaseDelete(n) ==
    /\ pc[n] = "delete"
    /\ IF Captured(n) \in current
       THEN key' = NoNode /\ age' = 0 /\ current' = {}
       ELSE UNCHANGED <<key, age, current>>
    /\ pc' = [pc EXCEPT ![n] = "idle"]
    /\ UNCHANGED <<held, kv, due, renewer, bus, faults>>

DeleteFails(n) ==
    /\ pc[n] = "delete"
    /\ Fault
    /\ pc' = [pc EXCEPT ![n] = "idle"]
    /\ current' = current \ {Captured(n)}
    /\ UNCHANGED <<key, age, held, kv, due, renewer, bus>>

-----------------------------------------------------------------------------
(* A renew goroutine. *)

\* Mutant: the next refresh is armed a whole TTL too late.
RenewSendUnarmed(n, i) ==
    /\ renewer[n][i].st = "wait" /\ renewer[n][i].t = 0
    /\ n \in held
    /\ renewer' = [renewer EXCEPT ![n][i] = [@ EXCEPT !.st = "sent", !.t = Renew + TTL]]
    /\ current' = Copied(Lease(n), Refresh(n, i))
    /\ UNCHANGED <<key, age, held, kv, pc, due, bus, faults>>

(* The ticker may win over a context that was cancelled meanwhile. *)
RenewSend(n, i) ==
    /\ renewer[n][i].st = "wait" /\ renewer[n][i].t = 0
    /\ n \in held
    /\ renewer' = [renewer EXCEPT ![n][i] = [@ EXCEPT !.st = "sent", !.t = Renew]]
    /\ current' = Copied(Lease(n), Refresh(n, i))
    /\ UNCHANGED <<key, age, held, kv, pc, due, bus, faults>>

RenewExit(n, i) ==
    /\ renewer[n][i].st = "wait"
    /\ ~renewer[n][i].live \/ (renewer[n][i].t = 0 /\ n \notin held)
    /\ renewer' = [renewer EXCEPT ![n][i] = NoRenewer]
    /\ UNCHANGED <<key, age, current, held, kv, pc, due, bus, faults>>

RenewApplied(n, i) ==
    /\ renewer[n][i].st = "sent"
    /\ IF Refresh(n, i) \in current
       THEN /\ Put(n, Refresh(n, i))
            /\ renewer' = [renewer EXCEPT ![n][i].st = "applied"]
       ELSE /\ renewer' = [renewer EXCEPT ![n][i].st = "refused"]
            /\ UNCHANGED <<key, age, current>>
    /\ UNCHANGED <<held, kv, pc, due, bus, faults>>

RenewReply(n, i) ==
    /\ renewer[n][i].st = "applied"
    /\ renewer' = [renewer EXCEPT ![n][i].st = "wait"]
    /\ current' = Moved(Refresh(n, i), Lease(n))
    /\ UNCHANGED <<key, age, held, kv, pc, due, bus, faults>>

\* Mutant: a request that got no answer is left for the next tick.
RenewFailsRetries(n, i) ==
    /\ \/ renewer[n][i].st = "refused" /\ UNCHANGED faults
       \/ renewer[n][i].st \in {"sent", "applied"} /\ renewer[n][i].live /\ Fault
    /\ renewer' = [renewer EXCEPT ![n][i].st = "wait"]
    /\ current' = current \ {Refresh(n, i)}
    /\ UNCHANGED <<key, age, held, kv, pc, due, bus>>

(* Any error, a cancelled or lost request too, marks the lease lost,       *)
(* whichever acquisition it belongs to by now.                             *)
RenewFails(n, i) ==
    /\ \/ renewer[n][i].st = "refused" /\ UNCHANGED faults
       \/ renewer[n][i].st \in {"sent", "applied"} /\ ~renewer[n][i].live /\ UNCHANGED faults
       \/ renewer[n][i].st \in {"sent", "applied"} /\ renewer[n][i].live /\ Fault
    /\ held' = held \ {n}
    /\ renewer' = [renewer EXCEPT ![n][i] =
                     IF n \in held THEN [NoRenewer EXCEPT !.st = "lost"] ELSE NoRenewer]
    /\ current' = current \ {Refresh(n, i)}
    /\ UNCHANGED <<key, age, kv, pc, due, bus>>

(* OnLost, outside the lock too. *)
RenewOnLost(n, i) ==
    /\ renewer[n][i].st = "lost"
    /\ bus' = bus \ {n}
    /\ renewer' = [renewer EXCEPT ![n][i] = NoRenewer]
    /\ UNCHANGED <<key, age, current, held, kv, pc, due, faults>>

-----------------------------------------------------------------------------
(* The process dies and starts again under the same holder name. *)
Crash(n) ==
    /\ Fault
    /\ held' = held \ {n}
    /\ kv' = kv \ {n}
    /\ bus' = bus \ {n}
    /\ pc' = [pc EXCEPT ![n] = "idle"]
    /\ due' = [due EXCEPT ![n] = 0]
    /\ renewer' = [renewer EXCEPT ![n] = [i \in Slots |-> NoRenewer]]
    /\ current' = {p \in current : p[2] # n}
    /\ UNCHANGED <<key, age>>

(* Timers fire on time, a request is answered or has failed after Rpc      *)
(* ticks, and a cancelled goroutine notices; callbacks may take for ever.  *)
Prompt(n, i) ==
    LET r == renewer[n][i] IN
    CASE r.st = "wait" -> r.live /\ r.t > 0
      [] r.st \in {"sent", "applied"} -> r.live /\ r.t > Renew - Rpc
      [] OTHER -> r.st # "refused"

Tick ==
    /\ key # NoNode => age < TTL
    /\ \A n \in Nodes :
          /\ pc[n] # "mark"
          /\ pc[n] \in Won => due[n] > 0
          /\ \A i \in Slots : Prompt(n, i)
    /\ age' = IF key # NoNode THEN age + 1 ELSE age
    /\ due' = [n \in Nodes |-> IF pc[n] \in Won THEN due[n] - 1 ELSE due[n]]
    /\ renewer' = [n \in Nodes |-> [i \in Slots |->
                     IF renewer[n][i].st \in {"wait", "sent", "applied"}
                     THEN [renewer[n][i] EXCEPT !.t = @ - 1] ELSE renewer[n][i]]]
    /\ UNCHANGED <<key, current, held, kv, pc, bus, faults>>

-----------------------------------------------------------------------------
Init ==
    /\ key = NoNode
    /\ age = 0
    /\ current = {}
    /\ held = {}
    /\ kv = {}
    /\ pc = [n \in Nodes |-> "idle"]
    /\ due = [n \in Nodes |-> 0]
    /\ renewer = [n \in Nodes |-> [i \in Slots |-> NoRenewer]]
    /\ bus = {}
    /\ faults = MaxFaults

TryAcquire(n) == Create(n) \/ Get(n) \/ Update(n) \/ Elected(n) \/ OnGained(n)

Releasing(n) == ReleaseMark(n) \/ ReleaseOnLost(n) \/ ReleaseDelete(n)

Renewing(n, i) ==
    \/ RenewSend(n, i) \/ RenewExit(n, i) \/ RenewApplied(n, i)
    \/ RenewReply(n, i) \/ RenewFails(n, i) \/ RenewOnLost(n, i)

Next ==
    \/ Tick \/ Expire
    \/ \E n \in Nodes :
          \/ TryAcquire(n) \/ ClaimReplyLost(n) \/ UpdateFails(n)
          \/ Release(n) \/ Releasing(n) \/ DeleteFails(n) \/ Crash(n)
          \/ \E i \in Slots : Renewing(n, i)

(* Run re-attempts on a ticker, the goroutines are scheduled and time      *)
(* passes; nothing has to be released.                                     *)
Fairness ==
    /\ WF_vars(Tick) /\ WF_vars(Expire)
    /\ \A n \in Nodes :
          /\ WF_vars(TryAcquire(n))
          /\ WF_vars(Releasing(n))
          /\ \A i \in Slots : WF_vars(Renewing(n, i))

Spec == Init /\ [][Next]_vars /\ Fairness

-----------------------------------------------------------------------------
(* Properties. *)

TypeOK ==
    /\ key \in Nodes \cup {NoNode}
    /\ age \in 0..TTL
    /\ current \subseteq Places
    /\ held \subseteq Nodes /\ kv \subseteq Nodes /\ bus \subseteq Nodes
    /\ pc \in [Nodes -> Steps]
    /\ due \in [Nodes -> 0..Rpc]
    /\ renewer \in [Nodes -> [Slots -> Renewers]]
    /\ faults \in 0..MaxFaults

(* Two nodes never both believe they hold the lease, although a holder     *)
(* keeps no deadline: a refresh that cannot get through fails before the   *)
(* key it failed to refresh can expire.                                    *)
OneHolder == Cardinality(held) <= 1

(* A release deletes nobody else's key, however late it runs and whatever  *)
(* was refreshed, expired and claimed since it captured its revision.      *)
ReleaseSparesSuccessor ==
    [][\A n \in Nodes : ReleaseDelete(n) /\ key # key' => key = n]_vars

(* A lease nobody holds is held again: a key left by a crash, a lost reply *)
(* or a failed delete is adopted by its holder or expires, and a goroutine *)
(* of an earlier acquisition cannot keep the lease from everyone.          *)
LeaseIsTaken == (held = {}) ~> (held # {})

(* The leader owns the bus subscriptions: a node without the lease, with   *)
(* no edge still running, is not subscribed.                               *)
FollowerIsSilent ==
    \A n \in Nodes \ held :
        pc[n] = "idle" /\ (\A i \in Slots : renewer[n][i].st # "lost")
            => n \notin bus
=============================================================================
