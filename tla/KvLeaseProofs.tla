----------------------------- MODULE KvLeaseProofs -----------------------------
(***************************************************************************)
(* The proofs about KvLease: its type invariant, that two nodes never both *)
(* hold the lease (OneHolder), and that a release deletes only its own key *)
(* (ReleaseSparesSuccessor), for any set of nodes, any number of faults    *)
(* and any TTL, renew interval and request timeout with                    *)
(* Renew + 2 * Rpc < TTL.                                                  *)
(***************************************************************************)
EXTENDS KvLease, FiniteSetTheorems, TLAPS

USE TimingAssumption, LeaseBounds

-----------------------------------------------------------------------------
(* The inductive invariant. *)

\* A revision that is still the key's last is stored by the node the key names.
PlaceInv == \A p \in current : key # NoNode /\ p[2] = key

\* The renewer r notices that its refresh fails before the key can expire.
Sustains(r) ==
    /\ r.live
    /\ \/ r.st = "wait" /\ age + r.t <= Renew + Rpc
       \/ /\ r.st \in {"sent", "refused"}
          /\ r.t >= Renew - Rpc /\ age + r.t <= 2 * Renew + Rpc
       \/ r.st = "applied" /\ r.t >= Renew - Rpc /\ age + r.t <= Renew

\* A claim whose reply is still awaited was written at most that long ago.
ClaimInv(n) == pc[n] \in Won => key = n /\ age + due[n] <= Rpc

\* A holder's key stands, and a renewer sustains it until the release begins.
HeldInv(n) ==
    n \in held =>
        /\ pc[n] \in {"idle", "gained", "mark"}
        /\ key = n /\ age < TTL
        /\ pc[n] # "mark" => \E i \in Slots : Sustains(renewer[n][i])

IInv ==
    /\ TypeOK /\ PlaceInv
    /\ \A n \in Nodes : ClaimInv(n) /\ HeldInv(n)

-----------------------------------------------------------------------------
(* The places of revisions. *)

LEMMA PlaceFacts ==
    ASSUME NEW n \in Nodes
    PROVE  /\ Lease(n) \in Places /\ Lease(n)[2] = n
           /\ Claim(n) \in Places /\ Claim(n)[2] = n
           /\ Captured(n) \in Places /\ Captured(n)[2] = n
           /\ \A i \in Slots : Refresh(n, i) \in Places /\ Refresh(n, i)[2] = n
    BY DEF Lease, Claim, Captured, Refresh, Places

\* Revisions handed from one place of a node to another stay the node's.
LEMMA CopyKeeps ==
    ASSUME current \subseteq Places, PlaceInv,
           NEW from \in Places, NEW to \in Places, from[2] = to[2]
    PROVE  /\ Copied(from, to) \subseteq Places /\ Moved(from, to) \subseteq Places
           /\ \A p \in Copied(from, to) : key # NoNode /\ p[2] = key
           /\ \A p \in Moved(from, to) : key # NoNode /\ p[2] = key
    BY DEF Copied, Moved, PlaceInv

-----------------------------------------------------------------------------
(* Type correctness. *)

LEMMA NoRenewerType ==
    /\ NoRenewer \in Renewers
    /\ [NoRenewer EXCEPT !.st = "lost"] \in Renewers
    /\ [st |-> "wait", t |-> Renew, live |-> TRUE] \in Renewers
    <1>1. 0 \in 0..Renew /\ Renew \in 0..Renew
        OBVIOUS
    <1> QED
        BY <1>1 DEF NoRenewer, Renewers

LEMMA RenewerMoves ==
    ASSUME NEW r \in Renewers
    PROVE  /\ [r EXCEPT !.live = FALSE] \in Renewers
           /\ [r EXCEPT !.st = "sent", !.t = Renew] \in Renewers
           /\ [r EXCEPT !.st = "applied"] \in Renewers
           /\ [r EXCEPT !.st = "refused"] \in Renewers
           /\ [r EXCEPT !.st = "wait"] \in Renewers
           /\ r.t > 0 => [r EXCEPT !.t = r.t - 1] \in Renewers
    <1>1. Renew \in 0..Renew /\ (r.t > 0 => r.t - 1 \in 0..Renew)
        BY DEF Renewers
    <1>2. r.t > 0 => [r EXCEPT !.t = r.t - 1] \in Renewers
        BY <1>1 DEF Renewers
    <1>3. [r EXCEPT !.st = "sent", !.t = Renew] \in Renewers
        BY <1>1 DEF Renewers
    <1> QED
        BY <1>2, <1>3 DEF Renewers

LEMMA FaultType ==
    ASSUME TypeOK, Fault
    PROVE  faults' \in 0..MaxFaults
    BY DEF TypeOK, Fault

\* The caller's goroutine.
LEMMA CallerType ==
    ASSUME TypeOK, PlaceInv, NEW n \in Nodes,
           \/ TryAcquire(n) \/ ClaimReplyLost(n) \/ UpdateFails(n)
           \/ Release(n) \/ Releasing(n) \/ DeleteFails(n) \/ Crash(n)
    PROVE  TypeOK'
    <1> USE PlaceFacts, FaultType
    <1>1. CASE Create(n)
        <2>1. 0 \in 0..TTL /\ Rpc \in 0..Rpc
            OBVIOUS
        <2> QED
            <3>1. /\ key' \in Nodes \cup {NoNode} /\ age' \in 0..TTL
                  /\ current' \subseteq Places
                BY <1>1, <2>1 DEF Create, Put, TypeOK
            <3>2. pc' \in [Nodes -> Steps] /\ due' \in [Nodes -> 0..Rpc]
                BY <1>1, <2>1, ZenonT(30) DEF Create, TypeOK, Steps
            <3> QED
                BY <1>1, <3>1, <3>2 DEF Create, TypeOK
    <1>2. CASE Get(n)
        BY <1>2 DEF Get, TypeOK, Steps
    <1>3. CASE Update(n)
        <2>1. 0 \in 0..TTL /\ Rpc \in 0..Rpc
            OBVIOUS
        <2> QED
            <3>1. /\ key' \in Nodes \cup {NoNode} /\ age' \in 0..TTL
                  /\ current' \subseteq Places
                BY <1>3, <2>1 DEF Update, Put, TypeOK
            <3>2. pc' \in [Nodes -> Steps] /\ due' \in [Nodes -> 0..Rpc]
                BY <1>3, <2>1, ZenonT(30) DEF Update, TypeOK, Steps
            <3> QED
                BY <1>3, <3>1, <3>2 DEF Update, TypeOK
    <1>4. CASE Elected(n)
        <2>1. current' \subseteq Places
            BY <1>4, CopyKeeps DEF Elected, TypeOK
        <2>2. renewer' \in [Nodes -> [Slots -> Renewers]]
            <3>1. PICK i \in Slots :
                    renewer' = [renewer EXCEPT ![n] = [j \in Slots |->
                        IF j = i THEN [st |-> "wait", t |-> Renew, live |-> TRUE]
                        ELSE [renewer[n][j] EXCEPT !.live = FALSE]]]
                BY <1>4 DEF Elected
            <3>2. renewer \in [Nodes -> [Slots -> Renewers]]
                BY DEF TypeOK
            <3>3. [j \in Slots |->
                        IF j = i THEN [st |-> "wait", t |-> Renew, live |-> TRUE]
                        ELSE [renewer[n][j] EXCEPT !.live = FALSE]]
                    \in [Slots -> Renewers]
                <4>1. ASSUME NEW j \in Slots
                      PROVE  [renewer[n][j] EXCEPT !.live = FALSE] \in Renewers
                    <5>1. renewer[n][j] \in Renewers
                        BY <3>2
                    <5> QED
                        BY <5>1, RenewerMoves
                <4> QED
                    BY <4>1, NoRenewerType
            <3> QED
                BY <3>1, <3>2, <3>3
        <2>3. 0 \in 0..Rpc
            OBVIOUS
        <2> QED
            BY <1>4, <2>1, <2>2, <2>3 DEF Elected, TypeOK, Steps
    <1>5. CASE OnGained(n)
        BY <1>5 DEF OnGained, TypeOK, Steps
    <1>6. CASE ClaimReplyLost(n)
        BY <1>6 DEF ClaimReplyLost, TypeOK, Steps
    <1>7. CASE UpdateFails(n)
        BY <1>7 DEF UpdateFails, TypeOK, Steps
    <1>8. CASE Release(n)
        <2>1. current' \subseteq Places
            BY <1>8, CopyKeeps DEF Release, TypeOK
        <2>2. renewer' \in [Nodes -> [Slots -> Renewers]]
            BY <1>8, RenewerMoves, ZenonT(30) DEF Release, Stopped, TypeOK
        <2> QED
            BY <1>8, <2>1, <2>2 DEF Release, TypeOK, Steps
    <1>9. CASE ReleaseMark(n)
        BY <1>9 DEF ReleaseMark, TypeOK, Steps
    <1>10. CASE ReleaseOnLost(n)
        BY <1>10 DEF ReleaseOnLost, TypeOK, Steps
    <1>11. CASE ReleaseDelete(n)
        BY <1>11 DEF ReleaseDelete, TypeOK, Steps
    <1>12. CASE DeleteFails(n)
        BY <1>12 DEF DeleteFails, TypeOK, Steps
    <1>13. CASE Crash(n)
        <2>1. renewer' \in [Nodes -> [Slots -> Renewers]]
            BY <1>13, NoRenewerType DEF Crash, TypeOK
        <2> QED
            BY <1>13, <2>1 DEF Crash, TypeOK, Steps
    <1> QED
        BY <1>1, <1>2, <1>3, <1>4, <1>5, <1>6, <1>7, <1>8, <1>9, <1>10, <1>11,
           <1>12, <1>13 DEF TryAcquire, Releasing

\* What a renew goroutine may do to its own entry.
LEMMA RenewerUpdate ==
    ASSUME TypeOK, NEW n \in Nodes, NEW i \in Slots, NEW r \in Renewers,
           renewer' = [renewer EXCEPT ![n][i] = r]
    PROVE  /\ renewer' \in [Nodes -> [Slots -> Renewers]]
           /\ renewer'[n][i] = r
           /\ \A m \in Nodes, j \in Slots :
                 m # n \/ j # i => renewer'[m][j] = renewer[m][j]
    BY DEF TypeOK

LEMMA RenewingType ==
    ASSUME TypeOK, PlaceInv, NEW n \in Nodes, NEW i \in Slots, Renewing(n, i)
    PROVE  TypeOK'
    <1> USE PlaceFacts, FaultType
    <1>0. renewer[n][i] \in Renewers
        BY DEF TypeOK
    <1>1. CASE RenewSend(n, i)
        <2>1. renewer' = [renewer EXCEPT ![n][i] =
                             [renewer[n][i] EXCEPT !.st = "sent", !.t = Renew]]
            BY <1>1 DEF RenewSend, TypeOK
        <2>2. current' \subseteq Places
            BY <1>1, CopyKeeps DEF RenewSend, TypeOK
        <2>3. renewer' \in [Nodes -> [Slots -> Renewers]]
            <3>1. [renewer[n][i] EXCEPT !.st = "sent", !.t = Renew] \in Renewers
                BY <1>0, RenewerMoves
            <3> QED
                BY <2>1, <3>1, RenewerUpdate
        <2> QED
            BY <1>1, <2>2, <2>3 DEF RenewSend, TypeOK
    <1>2. CASE RenewExit(n, i)
        BY <1>2, NoRenewerType, RenewerUpdate DEF RenewExit, TypeOK
    <1>3. CASE RenewApplied(n, i)
        <2>1. PICK st \in {"applied", "refused"} :
                renewer' = [renewer EXCEPT ![n][i] = [renewer[n][i] EXCEPT !.st = st]]
            BY <1>3 DEF RenewApplied
        <2>2. renewer' \in [Nodes -> [Slots -> Renewers]]
            BY <1>0, <2>1, RenewerMoves, RenewerUpdate
        <2> QED
            BY <1>3, <2>2 DEF RenewApplied, Put, TypeOK
    <1>4. CASE RenewReply(n, i)
        <2>1. renewer' \in [Nodes -> [Slots -> Renewers]]
            BY <1>0, <1>4, RenewerMoves, RenewerUpdate DEF RenewReply, TypeOK
        <2>2. current' \subseteq Places
            BY <1>4, CopyKeeps DEF RenewReply, TypeOK
        <2> QED
            BY <1>4, <2>1, <2>2 DEF RenewReply, TypeOK
    <1>5. CASE RenewFails(n, i)
        <2>1. renewer' \in [Nodes -> [Slots -> Renewers]]
            BY <1>5, NoRenewerType, RenewerUpdate DEF RenewFails, TypeOK
        <2>2. faults' \in 0..MaxFaults
            BY <1>5 DEF RenewFails, TypeOK
        <2> QED
            BY <1>5, <2>1, <2>2 DEF RenewFails, TypeOK
    <1>6. CASE RenewOnLost(n, i)
        BY <1>6, NoRenewerType, RenewerUpdate DEF RenewOnLost, TypeOK
    <1> QED
        BY <1>1, <1>2, <1>3, <1>4, <1>5, <1>6 DEF Renewing

\* What a tick finds: no timer of a running request or wait is at zero.
LEMMA TickTimers ==
    ASSUME TypeOK, Tick, NEW n \in Nodes, NEW i \in Slots,
           renewer[n][i].st \in {"wait", "sent", "applied"}
    PROVE  /\ renewer[n][i].t > 0 /\ renewer[n][i].live
           /\ renewer[n][i].st # "wait" => renewer[n][i].t > Renew - Rpc
    <1>1. renewer[n][i] \in Renewers /\ renewer[n][i].t \in 0..Renew
        BY DEF TypeOK, Renewers
    <1>2. Prompt(n, i)
        BY DEF Tick
    <1> QED
        BY <1>1, <1>2 DEF Prompt

LEMMA TickType ==
    ASSUME TypeOK, Tick
    PROVE  TypeOK'
    <1>1. age' \in 0..TTL
        BY DEF Tick, TypeOK
    <1>2. due' \in [Nodes -> 0..Rpc]
        BY DEF Tick, TypeOK
    <1>3. renewer' \in [Nodes -> [Slots -> Renewers]]
        <2>1. ASSUME NEW n \in Nodes, NEW i \in Slots
              PROVE  (IF renewer[n][i].st \in {"wait", "sent", "applied"}
                      THEN [renewer[n][i] EXCEPT !.t = @ - 1] ELSE renewer[n][i])
                        \in Renewers
            <3>1. renewer[n][i] \in Renewers
                BY DEF TypeOK
            <3> QED
                BY <3>1, TickTimers, RenewerMoves
        <2> QED
            BY <2>1 DEF Tick
    <1> QED
        BY <1>1, <1>2, <1>3 DEF Tick, TypeOK

LEMMA TypeStep ==
    ASSUME TypeOK, PlaceInv, [Next]_vars
    PROVE  TypeOK'
    <1>1. CASE Expire
        BY <1>1 DEF Expire, TypeOK
    <1>2. CASE UNCHANGED vars
        BY <1>2 DEF vars, TypeOK
    <1> QED
        BY <1>1, <1>2, TickType, CallerType, RenewingType DEF Next

-----------------------------------------------------------------------------
(* Revisions. *)

LEMMA PlaceStep ==
    ASSUME TypeOK, PlaceInv, [Next]_vars
    PROVE  PlaceInv'
    <1> USE PlaceFacts DEF PlaceInv
    <1>0. current \subseteq Places /\ NoNode \notin Nodes
        BY DEF TypeOK
    <1>1. ASSUME NEW n \in Nodes, Create(n) \/ Update(n) PROVE PlaceInv'
        BY <1>0, <1>1 DEF Create, Update, Put
    <1>2. ASSUME NEW n \in Nodes, Get(n) PROVE PlaceInv'
        BY <1>0, <1>2 DEF Get
    <1>3. ASSUME NEW n \in Nodes, Elected(n) PROVE PlaceInv'
        <2>1. \A p \in Moved(Claim(n), Lease(n)) : key # NoNode /\ p[2] = key
            BY <1>0, CopyKeeps
        <2> QED
            BY <1>3, <2>1 DEF Elected
    <1>4. ASSUME NEW n \in Nodes, Release(n) PROVE PlaceInv'
        <2>1. \A p \in Copied(Lease(n), Captured(n)) : key # NoNode /\ p[2] = key
            BY <1>0, CopyKeeps
        <2> QED
            BY <1>4, <2>1 DEF Release
    <1>5. ASSUME NEW n \in Nodes,
                 \/ OnGained(n) \/ ClaimReplyLost(n) \/ UpdateFails(n)
                 \/ Releasing(n) \/ DeleteFails(n) \/ Crash(n)
          PROVE  PlaceInv'
        BY <1>0, <1>5 DEF OnGained, ClaimReplyLost, UpdateFails, Releasing,
             ReleaseMark, ReleaseOnLost, ReleaseDelete, DeleteFails, Crash
    <1>6. ASSUME NEW n \in Nodes, NEW i \in Slots, RenewSend(n, i) PROVE PlaceInv'
        <2>1. \A p \in Copied(Lease(n), Refresh(n, i)) : key # NoNode /\ p[2] = key
            BY <1>0, CopyKeeps
        <2> QED
            BY <1>6, <2>1 DEF RenewSend
    <1>7. ASSUME NEW n \in Nodes, NEW i \in Slots, RenewReply(n, i) PROVE PlaceInv'
        <2>1. \A p \in Moved(Refresh(n, i), Lease(n)) : key # NoNode /\ p[2] = key
            BY <1>0, CopyKeeps
        <2> QED
            BY <1>7, <2>1 DEF RenewReply
    <1>8. ASSUME NEW n \in Nodes, NEW i \in Slots,
                 \/ RenewExit(n, i) \/ RenewApplied(n, i) \/ RenewFails(n, i)
                 \/ RenewOnLost(n, i)
          PROVE  PlaceInv'
        BY <1>0, <1>8 DEF RenewExit, RenewApplied, RenewFails, RenewOnLost, Put
    <1>9. CASE Tick \/ Expire \/ UNCHANGED vars
        BY <1>9 DEF Tick, Expire, vars
    <1> QED
        BY <1>1, <1>2, <1>3, <1>4, <1>5, <1>6, <1>7, <1>8, <1>9
           DEF Next, TryAcquire, Renewing

\* Only its own node writes or deletes a key that stands.
LEMMA OwnKey ==
    ASSUME TypeOK, PlaceInv, NEW n \in Nodes,
           \/ TryAcquire(n) \/ ClaimReplyLost(n) \/ UpdateFails(n)
           \/ Release(n) \/ Releasing(n) \/ DeleteFails(n) \/ Crash(n)
           \/ \E i \in Slots : Renewing(n, i)
    PROVE  /\ key # NoNode /\ ~(key = n /\ ReleaseDelete(n)) => key' = key /\ age' <= age
           /\ age' \in Nat /\ age \in Nat
    <1> USE PlaceFacts DEF PlaceInv
    <1>0. age \in Nat
        BY DEF TypeOK
    <1>1. CASE \/ Create(n) \/ Update(n) \/ ReleaseDelete(n)
               \/ \E i \in Slots : RenewApplied(n, i)
        BY <1>0, <1>1 DEF Create, Update, ReleaseDelete, RenewApplied, Put
    <1>2. CASE UNCHANGED <<key, age>>
        BY <1>0, <1>2
    <1> QED
        BY <1>1, <1>2 DEF TryAcquire, Get, Elected, OnGained, ClaimReplyLost,
             UpdateFails, Release, Releasing, ReleaseMark, ReleaseOnLost, DeleteFails,
             Crash, Renewing, RenewSend, RenewExit, RenewReply, RenewFails, RenewOnLost

\* A renewer that sustains a key goes on to as the key is refreshed.
LEMMA SustainsKept ==
    ASSUME NEW r \in Renewers, Sustains(r), age \in Nat, age' \in Nat, age' <= age
    PROVE  Sustains(r)'
    <1>1. r.t \in Nat
        BY DEF Renewers
    <1> QED
        BY <1>1 DEF Sustains

-----------------------------------------------------------------------------
(* A node that another node's step leaves alone. *)
LEMMA Bystander ==
    ASSUME IInv, NEW n \in Nodes, NEW m \in Nodes, m # n,
           \/ TryAcquire(n) \/ ClaimReplyLost(n) \/ UpdateFails(n)
           \/ Release(n) \/ Releasing(n) \/ DeleteFails(n) \/ Crash(n)
           \/ \E i \in Slots : Renewing(n, i)
    PROVE  ClaimInv(m)' /\ HeldInv(m)'
    <1>1. /\ pc'[m] = pc[m] /\ due'[m] = due[m] /\ renewer'[m] = renewer[m]
          /\ m \in held' => m \in held
        <2>1. /\ pc \in [Nodes -> Steps] /\ due \in [Nodes -> 0..Rpc]
              /\ renewer \in [Nodes -> [Slots -> Renewers]]
            BY DEF IInv, TypeOK
        <2>2. CASE TryAcquire(n)
            BY <2>1, <2>2 DEF TryAcquire, Create, Get, Update, Elected, OnGained
        <2>3. CASE \E i \in Slots : Renewing(n, i)
            BY <2>1, <2>3 DEF Renewing, RenewSend, RenewExit, RenewApplied,
                 RenewReply, RenewFails, RenewOnLost
        <2>4. CASE \/ ClaimReplyLost(n) \/ UpdateFails(n) \/ Release(n)
                   \/ Releasing(n) \/ DeleteFails(n) \/ Crash(n)
            BY <2>1, <2>4 DEF ClaimReplyLost, UpdateFails, Release, Releasing,
                 ReleaseMark, ReleaseOnLost, ReleaseDelete, DeleteFails, Crash
        <2> QED
            BY <2>2, <2>3, <2>4
    <1>2. key = m => key' = m /\ age' <= age /\ age' \in Nat /\ age \in Nat
        BY OwnKey DEF IInv
    <1>3. ClaimInv(m) /\ HeldInv(m) /\ due[m] \in Nat
        BY DEF IInv, TypeOK
    <1>4. ClaimInv(m)'
        BY <1>1, <1>2, <1>3 DEF ClaimInv
    <1>5. ASSUME m \in held, NEW i \in Slots, Sustains(renewer[m][i])
          PROVE  Sustains(renewer[m][i])'
        <2>1. PICK r \in Renewers : r = renewer[m][i]
            BY DEF IInv, TypeOK
        <2>2. Sustains(r)'
            BY <1>2, <1>3, <1>5, <2>1, SustainsKept DEF HeldInv
        <2> QED
            BY <1>1, <2>1, <2>2
    <1>6. HeldInv(m)'
        BY <1>1, <1>2, <1>3, <1>5 DEF HeldInv
    <1> QED
        BY <1>4, <1>6

(* The node whose caller takes the step. *)
LEMMA CallerStep ==
    ASSUME IInv, NEW n \in Nodes,
           \/ TryAcquire(n) \/ ClaimReplyLost(n) \/ UpdateFails(n)
           \/ Release(n) \/ Releasing(n) \/ DeleteFails(n) \/ Crash(n)
    PROVE  ClaimInv(n)' /\ HeldInv(n)'
    <1>1. /\ ClaimInv(n) /\ HeldInv(n) /\ age \in Nat /\ TypeOK /\ PlaceInv
          /\ pc \in [Nodes -> Steps] /\ due \in [Nodes -> 0..Rpc]
          /\ renewer \in [Nodes -> [Slots -> Renewers]]
        BY DEF IInv, TypeOK
    <1>2. CASE Create(n) \/ Update(n)
        BY <1>1, <1>2 DEF Create, Update, Put, ClaimInv, HeldInv, Won
    <1>3. CASE Elected(n)
        <2>1. key = n /\ age <= Rpc /\ age' = age /\ key' = key /\ pc'[n] = "gained"
            BY <1>1, <1>3 DEF Elected, ClaimInv
        <2>2. PICK i \in Slots :
                renewer'[n][i] = [st |-> "wait", t |-> Renew, live |-> TRUE]
            BY <1>1, <1>3 DEF Elected
        <2>3. Sustains(renewer[n][i])'
            BY <1>1, <2>1, <2>2 DEF Sustains
        <2>4. age < TTL
            BY <1>1, <2>1
        <2> QED
            BY <2>1, <2>3, <2>4 DEF ClaimInv, HeldInv, Won
    <1>4. CASE Get(n) \/ ClaimReplyLost(n) \/ UpdateFails(n)
        BY <1>1, <1>4 DEF Get, ClaimReplyLost, UpdateFails, ClaimInv, HeldInv, Won
    <1>5. CASE OnGained(n)
        BY <1>1, <1>5 DEF OnGained, ClaimInv, HeldInv, Won, Sustains
    <1>6. CASE Release(n) \/ ReleaseMark(n) \/ Crash(n)
        BY <1>1, <1>6 DEF Release, ReleaseMark, Crash, ClaimInv, HeldInv, Won
    <1>7. CASE ReleaseOnLost(n) \/ ReleaseDelete(n) \/ DeleteFails(n)
        BY <1>1, <1>7 DEF ReleaseOnLost, ReleaseDelete, DeleteFails, ClaimInv,
             HeldInv, Won
    <1> QED
        BY <1>2, <1>3, <1>4, <1>5, <1>6, <1>7 DEF TryAcquire, Releasing

\* The entries of the other goroutines, and of the one that takes the step.
LEMMA OtherEntries ==
    ASSUME TypeOK, NEW n \in Nodes, NEW i \in Slots, Renewing(n, i),
           NEW j \in Slots, j # i
    PROVE  renewer'[n][j] = renewer[n][j]
    <1>1. renewer \in [Nodes -> [Slots -> Renewers]]
        BY DEF TypeOK
    <1>2. PICK r : renewer' = [renewer EXCEPT ![n][i] = r]
        BY DEF Renewing, RenewSend, RenewExit, RenewApplied, RenewReply, RenewFails,
               RenewOnLost
    <1> QED
        BY <1>1, <1>2

LEMMA RenewingEntry ==
    ASSUME TypeOK, NEW n \in Nodes, NEW i \in Slots, Renewing(n, i)
    PROVE  /\ RenewSend(n, i) =>
                renewer'[n][i] = [renewer[n][i] EXCEPT !.st = "sent", !.t = Renew]
           /\ RenewApplied(n, i) =>
                \/ /\ renewer'[n][i] = [renewer[n][i] EXCEPT !.st = "applied"]
                   /\ age' = 0
                \/ /\ renewer'[n][i] = [renewer[n][i] EXCEPT !.st = "refused"]
                   /\ age' = age
           /\ RenewReply(n, i) =>
                renewer'[n][i] = [renewer[n][i] EXCEPT !.st = "wait"]
    <1>1. renewer \in [Nodes -> [Slots -> Renewers]]
        BY DEF TypeOK
    <1>2. RenewSend(n, i) =>
            renewer'[n][i] = [renewer[n][i] EXCEPT !.st = "sent", !.t = Renew]
        BY <1>1 DEF RenewSend
    <1>3. RenewApplied(n, i) =>
            \/ renewer'[n][i] = [renewer[n][i] EXCEPT !.st = "applied"] /\ age' = 0
            \/ renewer'[n][i] = [renewer[n][i] EXCEPT !.st = "refused"] /\ age' = age
        BY <1>1 DEF RenewApplied, Put
    <1>4. RenewReply(n, i) => renewer'[n][i] = [renewer[n][i] EXCEPT !.st = "wait"]
        BY <1>1 DEF RenewReply
    <1> QED
        BY <1>2, <1>3, <1>4

(* The node one of whose renew goroutines takes the step. *)
LEMMA RenewingStep ==
    ASSUME IInv, NEW n \in Nodes, NEW i \in Slots, Renewing(n, i)
    PROVE  ClaimInv(n)' /\ HeldInv(n)'
    <1>1. /\ ClaimInv(n) /\ HeldInv(n) /\ age \in Nat /\ TypeOK /\ PlaceInv
          /\ due[n] \in Nat /\ NoNode # n
          /\ renewer \in [Nodes -> [Slots -> Renewers]]
        BY DEF IInv, TypeOK
    <1>2. /\ pc' = pc /\ due' = due /\ held' \subseteq held
          /\ RenewFails(n, i) => n \notin held'
          /\ ~RenewFails(n, i) => held' = held
        BY DEF Renewing, RenewSend, RenewExit, RenewApplied, RenewReply, RenewFails,
               RenewOnLost
    <1>3. key = n => key' = n /\ age' <= age /\ age' \in Nat
        <2>1. ~ReleaseDelete(n)
            BY <1>2 DEF ReleaseDelete, IInv, TypeOK
        <2> QED
            BY <1>1, <2>1, OwnKey
    <1>4. ClaimInv(n)'
        BY <1>1, <1>2, <1>3 DEF ClaimInv
    <1>5. ASSUME n \in held', NEW j \in Slots, Sustains(renewer[n][j])
          PROVE  Sustains(renewer[n][j])'
        <2>1. PICK r \in Renewers : r = renewer[n][j]
            BY <1>1
        <2>2. r.t \in 0..Renew /\ age' <= age /\ age' \in Nat /\ ~RenewFails(n, i)
            BY <1>1, <1>2, <1>3, <1>5 DEF Renewers, HeldInv
        <2>3. CASE j # i
            <3>1. Sustains(r)'
                BY <1>1, <1>5, <2>1, <2>2, SustainsKept
            <3>2. renewer'[n][j] = renewer[n][j]
                BY <1>1, <2>3, OtherEntries
            <3> QED
                BY <2>1, <3>1, <3>2
        <2>4. CASE j = i /\ RenewSend(n, i)
            <3>1. PICK q : q = [r EXCEPT !.st = "sent", !.t = Renew]
                OBVIOUS
            <3>2. q.st = "sent" /\ q.t = Renew /\ q.live = r.live
                BY <3>1 DEF Renewers
            <3>3. r.st = "wait" /\ r.t = 0 /\ age' = age
                BY <2>1, <2>4 DEF RenewSend
            <3>4. Sustains(q)'
                BY <1>1, <1>5, <2>1, <2>4, <3>2, <3>3 DEF Sustains
            <3> QED
                BY <1>1, <2>1, <2>4, <3>1, <3>4, RenewingEntry
        <2>5. CASE j = i /\ RenewApplied(n, i)
            <3>1. PICK q : q = renewer'[n][i]
                OBVIOUS
            <3>2. /\ q.t = r.t /\ q.live = r.live /\ r.st = "sent"
                  /\ \/ q.st = "applied" /\ age' = 0
                     \/ q.st = "refused" /\ age' = age
                <4>1. \/ q = [r EXCEPT !.st = "applied"] /\ age' = 0
                      \/ q = [r EXCEPT !.st = "refused"] /\ age' = age
                    BY <1>1, <2>1, <2>5, <3>1, RenewingEntry
                <4>2. r.st = "sent"
                    BY <2>1, <2>5 DEF RenewApplied
                <4> QED
                    BY <4>1, <4>2 DEF Renewers
            <3>3. Sustains(q)'
                BY <1>1, <1>5, <2>1, <2>2, <2>5, <3>2 DEF Sustains
            <3> QED
                BY <2>5, <3>1, <3>3
        <2>6. CASE j = i /\ RenewReply(n, i)
            <3>1. PICK q : q = [r EXCEPT !.st = "wait"]
                OBVIOUS
            <3>2. q.st = "wait" /\ q.t = r.t /\ q.live = r.live
                BY <3>1 DEF Renewers
            <3>3. r.st = "applied" /\ age' = age
                BY <2>1, <2>6 DEF RenewReply
            <3>4. Sustains(q)'
                BY <1>1, <1>5, <2>1, <2>2, <2>6, <3>2, <3>3 DEF Sustains
            <3> QED
                BY <1>1, <2>1, <2>6, <3>1, <3>4, RenewingEntry
        <2>7. CASE j = i /\ (RenewExit(n, i) \/ RenewOnLost(n, i))
            BY <1>2, <1>5, <2>1, <2>7 DEF RenewExit, RenewOnLost, Sustains
        <2> QED
            BY <2>2, <2>3, <2>4, <2>5, <2>6, <2>7 DEF Renewing
    <1>6. HeldInv(n)'
        BY <1>1, <1>2, <1>3, <1>5 DEF HeldInv
    <1> QED
        BY <1>4, <1>6

(* Time: a claim or a holder is reached before its key expires. *)
LEMMA TickStep ==
    ASSUME IInv, Tick, NEW n \in Nodes
    PROVE  ClaimInv(n)' /\ HeldInv(n)'
    <1>1. /\ ClaimInv(n) /\ HeldInv(n) /\ age \in Nat /\ TypeOK
          /\ due \in [Nodes -> 0..Rpc] /\ NoNode # n
          /\ renewer \in [Nodes -> [Slots -> Renewers]]
        BY DEF IInv, TypeOK
    <1>2. /\ pc' = pc /\ held' = held /\ key' = key /\ pc[n] # "mark"
          /\ key = n => age' = age + 1
          /\ pc[n] \in Won => due'[n] = due[n] - 1 /\ due[n] > 0
        BY <1>1 DEF Tick
    <1>3. ClaimInv(n)'
        BY <1>1, <1>2 DEF ClaimInv
    <1>4. ASSUME n \in held, NEW i \in Slots, Sustains(renewer[n][i])
          PROVE  Sustains(renewer[n][i])' /\ age' < TTL
        <2>0. PICK r \in Renewers : r = renewer[n][i]
            BY <1>1
        <2>1. PICK q : r = renewer[n][i] /\ q = renewer'[n][i]
            BY <2>0
        <2>2. r.t \in 0..Renew /\ age' = age + 1
            BY <1>1, <1>2, <1>4 DEF Renewers, HeldInv
        <2>3. r.st \in {"wait", "sent", "applied"}
            <3>1. Prompt(n, i)
                BY DEF Tick
            <3> QED
                BY <1>4, <2>1, <3>1 DEF Prompt, Sustains
        <2>4. r.t > 0 /\ (r.st # "wait" => r.t > Renew - Rpc)
            BY <1>1, <2>1, <2>3, TickTimers
        <2>5. q = [r EXCEPT !.t = r.t - 1]
            BY <1>1, <2>1, <2>3 DEF Tick
        <2>6. q.t = r.t - 1 /\ q.st = r.st /\ q.live = r.live
            BY <2>5 DEF Renewers
        <2>7. Sustains(q)' /\ age' < TTL
            BY <1>1, <1>4, <2>1, <2>2, <2>3, <2>4, <2>6 DEF Sustains
        <2> QED
            BY <2>1, <2>7
    <1>5. HeldInv(n)'
        BY <1>1, <1>2, <1>4 DEF HeldInv
    <1> QED
        BY <1>3, <1>5

-----------------------------------------------------------------------------
(* The theorems. *)

LEMMA InitInv == Init => IInv
    <1> SUFFICES ASSUME Init PROVE IInv
        OBVIOUS
    <1>1. TypeOK
        <2>1. renewer \in [Nodes -> [Slots -> Renewers]]
            BY NoRenewerType DEF Init
        <2>2. age \in 0..TTL /\ due \in [Nodes -> 0..Rpc] /\ faults \in 0..MaxFaults
            BY DEF Init
        <2> QED
            BY <2>1, <2>2 DEF Init, TypeOK, Steps
    <1> QED
        BY <1>1 DEF Init, IInv, PlaceInv, ClaimInv, HeldInv, Won

LEMMA NextInv ==
    ASSUME IInv, [Next]_vars
    PROVE  IInv'
    <1>1. TypeOK' /\ PlaceInv'
        BY TypeStep, PlaceStep DEF IInv
    <1>2. ASSUME NEW m \in Nodes PROVE ClaimInv(m)' /\ HeldInv(m)'
        <2>1. CASE Tick
            BY <2>1, TickStep
        <2>2. CASE Expire
            <3>1. pc[m] \notin Won /\ m \notin held
                <4>1. age = TTL /\ ClaimInv(m) /\ HeldInv(m) /\ due[m] \in Nat
                    BY <2>2 DEF Expire, IInv, TypeOK
                <4> QED
                    BY <4>1 DEF ClaimInv, HeldInv
            <3> QED
                BY <2>2, <3>1 DEF Expire, ClaimInv, HeldInv
        <2>3. CASE UNCHANGED vars
            BY <2>3 DEF vars, IInv, ClaimInv, HeldInv, Sustains
        <2>4. ASSUME NEW n \in Nodes,
                     \/ TryAcquire(n) \/ ClaimReplyLost(n) \/ UpdateFails(n)
                     \/ Release(n) \/ Releasing(n) \/ DeleteFails(n) \/ Crash(n)
                     \/ \E i \in Slots : Renewing(n, i)
              PROVE  ClaimInv(m)' /\ HeldInv(m)'
            BY <2>4, Bystander, CallerStep, RenewingStep
        <2> QED
            BY <2>1, <2>2, <2>3, <2>4 DEF Next
    <1> QED
        BY <1>1, <1>2 DEF IInv

LEMMA Invariance == Spec => []IInv
    BY InitInv, NextInv, PTL DEF Spec

(* Every variable keeps its type; no timer of a renewer runs past its      *)
(* interval and no key outlives its TTL.                                   *)
THEOREM TypeCorrect == Spec => []TypeOK
    <1>1. IInv => TypeOK
        BY DEF IInv
    <1> QED
        BY <1>1, Invariance, PTL

(* Two nodes never both believe they hold the lease, whatever is lost,     *)
(* crashes or runs late, as long as Renew + 2 * Rpc < TTL.                 *)
THEOREM Exclusion == Spec => []OneHolder
    <1>1. IInv => OneHolder
        <2> SUFFICES ASSUME IInv PROVE Cardinality(held) <= 1
            BY DEF OneHolder
        <2>1. held \subseteq {key}
            BY DEF IInv, HeldInv, TypeOK
        <2>2. IsFiniteSet({key}) /\ Cardinality({key}) = 1
            BY FS_Singleton
        <2> QED
            BY <2>1, <2>2, FS_Subset
    <1> QED
        BY <1>1, Invariance, PTL

LEMMA OnlyOwnDeleted ==
    ASSUME IInv, NEW n \in Nodes, ReleaseDelete(n), key # key'
    PROVE  key = n
    BY PlaceFacts DEF IInv, PlaceInv, ReleaseDelete

(* A release deletes nobody else's key, however late it runs. *)
THEOREM ReleaseIsSafe == Spec => ReleaseSparesSuccessor
    <1>1. IInv /\ [Next]_vars =>
            [\A n \in Nodes : ReleaseDelete(n) /\ key # key' => key = n]_vars
        BY OnlyOwnDeleted
    <1> QED
        BY <1>1, Invariance, PTL DEF Spec, ReleaseSparesSuccessor
=============================================================================
