------------------------- MODULE InstanceOwnership -------------------------
(***************************************************************************)
(* Who runs an instance: the one cluster record an instance has for life,  *)
(* the nodes' own copies of it, and the recovery loop that moves it off a  *)
(* node that stopped heartbeating.                                         *)
(*                                                                         *)
(* One instance, several nodes.  The record is written by four parties     *)
(* that never talk to each other: the running-set writer of every node     *)
(* that has a copy (an unconditional Replace that stamps its own node),    *)
(* a recovery claim and a start claim (compare-and-set), and the undo of   *)
(* a claim whose launch failed.  The volume lease (VolumeLease.tla) is     *)
(* the only thing that decides who may open the disk; it appears here as   *)
(* its holder.                                                             *)
(***************************************************************************)
EXTENDS Naturals, FiniteSets

CONSTANTS
    Nodes,          \* cluster nodes (the code needs at least three)
    First,          \* the node that runs the instance at the start
    MaxAttempts,    \* recoveryMaxAttempts, 12 in the code
    MaxEvents,      \* bound: crashes, cuts, returns, stop and start calls
    CutCost,        \* bound: how many events a lost link counts for
    NoNode,         \* no holder
    NoRecord,       \* the key is absent
    NoVM,           \* no entry in a map
    Unseeded        \* the digest has not been read from the store yet

ASSUME NodesAssumption == First \in Nodes /\ IsFiniteSet(Nodes)
ASSUME BoundsAssumption ==
    /\ MaxAttempts \in Nat \ {0}
    /\ MaxEvents \in Nat
    /\ CutCost \in Nat \ {0}

VARIABLES
    rec,        \* the instance record in the KV bucket, or NoRecord
    vms,        \* [Nodes -> copy]: the entry in the node's vm.Manager
    file,       \* [Nodes -> copy]: the entry in the node's local state file
    digest,     \* [Nodes -> copy]: what the node last published (running.digest)
    daemon,     \* [Nodes -> phase]: the daemon process and its boot
    cut,        \* nodes that cannot reach the KV store
    fresh,      \* nodes whose heartbeat is not stale
    qemu,       \* nodes with a live guest process
    lease,      \* holder of the volume lease, or NoNode
    notice,     \* nodes whose provider has a fence notice outstanding
    stop,       \* [Nodes -> how far a StopInstances on the node has got]
    task,       \* [Nodes -> launch in flight on the node]
    staleOnce,  \* nodes whose last pass saw this instance's owner stale
    tries,      \* [Nodes -> attempts counted against the budget]
    budget,     \* events left to the environment
    seen        \* which disturbances have happened, for the properties

clusterVars == <<rec, lease, fresh>>
nodeVars == <<vms, file, digest>>
hostVars == <<daemon, cut, qemu, notice>>
recoveryVars == <<stop, task, staleOnce, tries>>
vars == <<rec, vms, file, digest, daemon, cut, fresh, qemu, lease, notice,
          stop, task, staleOnce, tries, budget, seen>>

Statuses == {"pending", "running", "stopping", "stopped", "error"}
Copies == [status : Statuses, desired : {"running", "stopped"}, fenced : BOOLEAN]
Records == [node : Nodes, vm : Copies]

ASSUME NullsAssumption ==
    /\ NoNode \notin Nodes
    /\ NoRecord \notin Records
    /\ NoVM \notin Copies /\ Unseeded \notin Copies /\ NoVM # Unseeded

Phases == {"up", "loaded", "forgot", "restored", "down", "dead"}
Steps == {"idle", "selected", "claimed", "inserted", "mounted", "undo", "giveup"}
Stops == [step : {"no", "cleanup", "migrate"}, owns : BOOLEAN]
NoStop == [step |-> "no", owns |-> FALSE]
Kinds == {"recover", "start", "restore"}
Tasks == [step : Steps, kind : Kinds, from : Nodes \cup {NoNode}]
Disturbances == {"cut", "return", "start", "retired"}

Idle == [step |-> "idle", kind |-> "recover", from |-> NoNode]

Copy(status, desired) == [status |-> status, desired |-> desired, fenced |-> FALSE]

-----------------------------------------------------------------------------
(* Which set a record belongs to is a predicate over it. *)

operatorStopped(r) ==
    r # NoRecord /\ r.vm.status = "stopped" /\ r.vm.desired = "stopped"

runsOn(r, n) == r # NoRecord /\ r.node = n /\ ~operatorStopped(r)

recoverable(r) ==
    r # NoRecord /\ r.vm.desired = "running" /\ ~r.vm.fenced

Linked(n) == n \notin cut
Up(n) == daemon[n] = "up"

-----------------------------------------------------------------------------
(* The running-set writer.  It sees only its own digest: a copy it has     *)
(* published is not published again, whatever the record says by now, and  *)
(* an entry that left its map is retired unless the record says it was     *)
(* stopped or moved.  With no KV a changed copy forgets its digest and a   *)
(* retirement is left for later.                                           *)

seedRunningSet(n, r) == IF runsOn(r, n) THEN r.vm ELSE NoVM

retireRecord(n, r) ==
    IF r = NoRecord \/ operatorStopped(r) \/ r.node # n THEN r ELSE NoRecord

WriteRunningSet(n, r, copy) ==
    LET known == IF digest[n] = Unseeded THEN seedRunningSet(n, r) ELSE digest[n]
    IN CASE ~Linked(n) /\ (digest[n] = Unseeded \/ copy \in {NoVM, digest[n]})
              -> [rec |-> r, digest |-> digest[n]]
         [] ~Linked(n) /\ digest[n] # Unseeded /\ copy \notin {NoVM, digest[n]}
              -> [rec |-> r, digest |-> NoVM]
         [] Linked(n) /\ copy # NoVM /\ copy = known
              -> [rec |-> r, digest |-> known]
         [] Linked(n) /\ copy # NoVM /\ copy # known
              -> [rec |-> [node |-> n, vm |-> copy], digest |-> copy]
         [] Linked(n) /\ copy = NoVM /\ known = NoVM
              -> [rec |-> r, digest |-> NoVM]
         [] OTHER -> [rec |-> retireRecord(n, r), digest |-> NoVM]

(* persistState: the local file, then the records.  r is the record the    *)
(* step has already written, copy the entry the node's map now holds.      *)
Persist(n, r, copy) ==
    LET out == WriteRunningSet(n, r, copy) IN
    /\ vms' = [vms EXCEPT ![n] = copy]
    /\ file' = [file EXCEPT ![n] = copy]
    /\ digest' = [digest EXCEPT ![n] = out.digest]
    /\ rec' = out.rec
    /\ seen' = seen \cup IF r # NoRecord /\ out.rec = NoRecord THEN {"retired"} ELSE {}

(* A state write for some other instance of the node, or the 60 s repair   *)
(* sweep.                                                                  *)
StateWrite(n) ==
    /\ daemon[n] \in {"up", "restored"}
    /\ Persist(n, rec, vms[n])
    /\ UNCHANGED <<hostVars, fresh, lease, recoveryVars, budget>>

-----------------------------------------------------------------------------
(* Liveness of the nodes, as the heartbeat bucket shows it. *)

Heartbeat(n) ==
    /\ Up(n) /\ Linked(n) /\ n \notin fresh
    /\ fresh' = fresh \cup {n}
    /\ UNCHANGED <<rec, lease, nodeVars, hostVars, recoveryVars, budget, seen>>

HeartbeatLapses(n) ==
    /\ n \in fresh /\ ~(Up(n) /\ Linked(n))
    /\ fresh' = fresh \ {n}
    /\ UNCHANGED <<rec, lease, nodeVars, hostVars, recoveryVars, budget, seen>>

-----------------------------------------------------------------------------
(* The recovery loop. *)

\* Mutant: the owner's heartbeat is not asked for.
CandidateFresh(n) ==
    /\ recoverable(rec)
    /\ rec.node # n

Candidate(n) ==
    /\ recoverable(rec)
    /\ rec.node # n
    /\ rec.node \notin fresh

(* One pass: the owner must be stale on two passes in a row. *)
Pass(n) ==
    /\ Up(n) /\ Linked(n) /\ task[n].step = "idle"
    /\ staleOnce' = IF Candidate(n) THEN staleOnce \cup {n} ELSE staleOnce \ {n}
    /\ task' = IF Candidate(n) /\ n \in staleOnce
               THEN [task EXCEPT ![n] = [step |-> "selected", kind |-> "recover",
                                         from |-> rec.node]]
               ELSE task
    /\ UNCHANGED <<clusterVars, nodeVars, hostVars, stop, tries, budget, seen>>

\* Mutant: the claim takes the record whoever owns it by now.
ClaimRecoverableAnyOwner(n) ==
    /\ Up(n) /\ task[n].step = "selected"
    /\ IF Linked(n) /\ recoverable(rec)
       THEN /\ rec' = [rec EXCEPT !.node = n]
            /\ task' = [task EXCEPT ![n].step = "claimed"]
       ELSE /\ task' = [task EXCEPT ![n] = Idle]
            /\ UNCHANGED rec
    /\ UNCHANGED <<lease, fresh, nodeVars, hostVars, stop, staleOnce, tries, budget, seen>>

(* The claim re-reads the record and moves LastNode under its revision. *)
ClaimRecoverableInstance(n) ==
    /\ Up(n) /\ task[n].step = "selected"
    /\ IF Linked(n) /\ recoverable(rec) /\ rec.node = task[n].from
       THEN /\ rec' = [rec EXCEPT !.node = n]
            /\ task' = [task EXCEPT ![n].step = "claimed"]
       ELSE /\ task' = [task EXCEPT ![n] = Idle]
            /\ UNCHANGED rec
    /\ UNCHANGED <<lease, fresh, nodeVars, hostVars, stop, staleOnce, tries, budget, seen>>

(* A claim of a stopped instance leaves LastNode alone. *)
ClaimStoppedInstance(n) ==
    /\ Up(n) /\ Linked(n) /\ task[n].step = "idle"
    /\ operatorStopped(rec)
    /\ budget > 0
    /\ budget' = budget - 1
    /\ task' = [task EXCEPT ![n] = [step |-> "claimed", kind |-> "start",
                                    from |-> rec.node]]
    /\ rec' = [rec EXCEPT !.vm.desired = "running"]
    /\ seen' = seen \cup {"start"}
    /\ UNCHANGED <<lease, fresh, nodeVars, hostVars, stop, staleOnce, tries>>

-----------------------------------------------------------------------------
(* launchClaimedInstance, shared by both claims. *)

(* Refused before the map is touched: volumes, instance type or capacity. *)
RefuseLaunch(n) ==
    /\ Up(n) /\ task[n].step = "claimed"
    /\ task' = [task EXCEPT ![n].step = "undo"]
    /\ UNCHANGED <<clusterVars, nodeVars, hostVars, stop, staleOnce, tries, budget, seen>>

(* Insert takes the slot whatever is in it: a copy that a stop has not     *)
(* removed yet is no longer the one in the map.                            *)
InsertClaimed(n) ==
    /\ Up(n) /\ task[n].step = "claimed"
    /\ vms' = [vms EXCEPT ![n] =
                 Copy(IF task[n].kind = "recover" THEN "pending" ELSE "stopped",
                      "running")]
    /\ task' = [task EXCEPT ![n].step = "inserted"]
    /\ stop' = [stop EXCEPT ![n].owns = FALSE]
    /\ UNCHANGED <<clusterVars, file, digest, hostVars, staleOnce, tries, budget, seen>>

launchStillValid(n) == vms[n].status \in {"pending", "stopped"}

MountVolumes(n) ==
    /\ task[n].step = "inserted"
    /\ launchStillValid(n) /\ n \notin qemu
    /\ Linked(n) /\ lease \in {NoNode, n}
    /\ lease' = n
    /\ task' = [task EXCEPT ![n].step = "mounted"]
    /\ UNCHANGED <<rec, fresh, nodeVars, hostVars, stop, staleOnce, tries, budget, seen>>

(* The guest process starts, and the running state is persisted. *)
LaunchSucceeds(n) ==
    /\ task[n].step = "mounted"
    /\ launchStillValid(n)
    /\ lease = n
    /\ qemu' = qemu \cup {n}
    /\ Persist(n, rec, [vms[n] EXCEPT !.status = "running"])
    /\ task' = [task EXCEPT ![n] = Idle]
    /\ staleOnce' = IF task[n].kind = "recover" THEN staleOnce \ {n} ELSE staleOnce
    /\ tries' = IF task[n].kind = "recover" THEN [tries EXCEPT ![n] = 0] ELSE tries
    /\ UNCHANGED <<lease, fresh, daemon, cut, notice, stop, budget>>

(* A fence took the copy while the launch ran: the launch returns success. *)
LaunchOvertaken(n) ==
    /\ task[n].step \in {"inserted", "mounted"}
    /\ ~launchStillValid(n)
    /\ task' = [task EXCEPT ![n] = Idle]
    /\ UNCHANGED <<clusterVars, nodeVars, hostVars, stop, staleOnce, tries, budget, seen>>

(* Mount refused, QEMU or its monitor failed.  Nothing unmounts what was   *)
(* mounted; the copy is dropped from the map, the record is handed back in *)
(* the next step.                                                          *)
LaunchFails(n) ==
    /\ task[n].step \in {"inserted", "mounted"}
    /\ task[n].kind # "restore"
    /\ launchStillValid(n)
    /\ vms' = [vms EXCEPT ![n] = NoVM]
    /\ task' = [task EXCEPT ![n].step = "undo"]
    /\ UNCHANGED <<clusterVars, file, digest, hostVars, stop, staleOnce, tries, budget, seen>>

\* Mutant: a failed launch keeps the claim.
ReleaseNothing(n) == rec

ReleaseRecoveredInstance(n) ==
    IF rec # NoRecord /\ rec.node = n
    THEN [rec EXCEPT !.node = task[n].from] ELSE rec

\* Mutant: the stopped record is put back without its node.
restoreUnowned(n) == [node |-> NoNode, vm |-> Copy("stopped", "stopped")]

restoreClaimedStoppedInstance(n) ==
    [node |-> task[n].from, vm |-> Copy("stopped", "stopped")]

(* undo, and for a recovery the attempt is counted against the budget. *)
Undo(n) ==
    /\ Up(n) /\ task[n].step = "undo"
    /\ rec' = CASE ~Linked(n) -> rec
                [] Linked(n) /\ task[n].kind = "recover" -> ReleaseRecoveredInstance(n)
                [] OTHER -> restoreClaimedStoppedInstance(n)
    /\ IF task[n].kind = "recover"
       THEN /\ tries' = [tries EXCEPT ![n] = IF @ < MaxAttempts THEN @ + 1 ELSE @]
            /\ task' = [task EXCEPT ![n] =
                          IF tries[n] + 1 >= MaxAttempts
                          THEN [@ EXCEPT !.step = "giveup"] ELSE Idle]
       ELSE /\ task' = [task EXCEPT ![n] = Idle]
            /\ UNCHANGED tries
    /\ UNCHANGED <<lease, fresh, nodeVars, hostVars, stop, staleOnce, budget, seen>>

\* Mutant: the give-up does not look whether the record moved on.
AbandonAnyOwner(n) ==
    /\ Up(n) /\ task[n].step = "giveup"
    /\ rec' = IF Linked(n) /\ recoverable(rec)
              THEN [rec EXCEPT !.vm = Copy("stopped", "stopped")] ELSE rec
    /\ tries' = IF Linked(n) THEN [tries EXCEPT ![n] = 0] ELSE tries
    /\ staleOnce' = IF Linked(n) THEN staleOnce \ {n} ELSE staleOnce
    /\ task' = [task EXCEPT ![n] = Idle]
    /\ UNCHANGED <<lease, fresh, nodeVars, hostVars, stop, budget, seen>>

(* abandon: the record is left stopped unless it moved on. *)
AbandonRecovery(n) ==
    /\ Up(n) /\ task[n].step = "giveup"
    /\ rec' = IF Linked(n) /\ recoverable(rec) /\ rec.node = task[n].from
              THEN [rec EXCEPT !.vm = Copy("stopped", "stopped")] ELSE rec
    /\ tries' = IF Linked(n) THEN [tries EXCEPT ![n] = 0] ELSE tries
    /\ staleOnce' = IF Linked(n) THEN staleOnce \ {n} ELSE staleOnce
    /\ task' = [task EXCEPT ![n] = Idle]
    /\ UNCHANGED <<lease, fresh, nodeVars, hostVars, stop, budget, seen>>

-----------------------------------------------------------------------------
(* StopInstances on the node that runs the guest. *)

StopBegin(n) ==
    /\ Up(n) /\ vms[n] # NoVM /\ vms[n].status = "running"
    /\ stop[n].step = "no"
    /\ budget > 0
    /\ budget' = budget - 1
    /\ stop' = [stop EXCEPT ![n] = [step |-> "cleanup", owns |-> TRUE]]
    /\ Persist(n, rec, [vms[n] EXCEPT !.status = "stopping", !.desired = "stopped"])
    /\ UNCHANGED <<hostVars, fresh, lease, task, staleOnce, tries>>

(* Guest down, volumes sealed and released, stopped state published; a     *)
(* copy fenced meanwhile keeps its error state.                            *)
StopCleanup(n) ==
    /\ stop[n].step = "cleanup"
    /\ stop' = [stop EXCEPT ![n].step = "migrate"]
    /\ qemu' = qemu \ {n}
    /\ lease' = IF lease = n THEN NoNode ELSE lease
    /\ Persist(n, rec, IF stop[n].owns /\ vms[n] # NoVM /\ vms[n].status = "stopping"
                       THEN [vms[n] EXCEPT !.status = "stopped"] ELSE vms[n])
    /\ UNCHANGED <<daemon, cut, notice, fresh, task, staleOnce, tries, budget>>

(* MigrateStoppedToSharedKV: write the stopped record, leave the map       *)
(* unless a start has taken the slot.  The state write that ends the stop  *)
(* is StateWrite.  A write that fails leaves the copy for the next boot.   *)
MigrateStopped(n) ==
    /\ stop[n].step = "migrate"
    /\ stop' = [stop EXCEPT ![n] = NoStop]
    /\ IF Linked(n)
       THEN /\ rec' = [node |-> n, vm |-> Copy("stopped", "stopped")]
            /\ vms' = IF stop[n].owns THEN [vms EXCEPT ![n] = NoVM] ELSE vms
       ELSE UNCHANGED <<rec, vms>>
    /\ UNCHANGED <<file, digest, hostVars, fresh, lease, task, staleOnce, tries, budget, seen>>

-----------------------------------------------------------------------------
(* The volume lease and the fence. *)

\* Mutant: the provider revokes the export and tells nobody.
LeaseExpiresSilently ==
    /\ lease # NoNode
    /\ daemon[lease] = "dead" \/ ~Linked(lease)
    /\ lease' = NoNode
    /\ UNCHANGED <<rec, fresh, nodeVars, hostVars, recoveryVars, budget, seen>>

(* A holder that cannot renew loses the lease after its provider has       *)
(* revoked the export; a provider that is still running sends the notice.  *)
LeaseExpires ==
    /\ lease # NoNode
    /\ daemon[lease] = "dead" \/ ~Linked(lease)
    /\ notice' = IF daemon[lease] = "dead" THEN notice ELSE notice \cup {lease}
    /\ lease' = NoNode
    /\ UNCHANGED <<rec, fresh, nodeVars, daemon, cut, qemu, recoveryVars, budget, seen>>

(* FenceVolume: error state with the fence reason, guest killed, published. *)
FenceVolume(n) ==
    /\ n \in notice /\ Up(n)
    /\ notice' = notice \ {n}
    /\ IF vms[n] = NoVM \/ (vms[n] # NoVM /\ vms[n].status = "error")
       THEN UNCHANGED <<rec, nodeVars, qemu, seen>>
       ELSE /\ qemu' = qemu \ {n}
            /\ Persist(n, rec, [vms[n] EXCEPT !.status = "error", !.fenced = TRUE])
    /\ UNCHANGED <<daemon, cut, fresh, lease, recoveryVars, budget>>

(* The notice repeats until it is answered, and is dropped once the volume *)
(* is exported here again.                                                 *)
DropNotice(n) ==
    /\ n \in notice /\ lease = n
    /\ notice' = notice \ {n}
    /\ UNCHANGED <<clusterVars, nodeVars, daemon, cut, qemu, recoveryVars, budget, seen>>

-----------------------------------------------------------------------------
(* Faults. *)

Forgets(n) ==
    /\ task' = [task EXCEPT ![n] = Idle]
    /\ stop' = [stop EXCEPT ![n] = NoStop]
    /\ staleOnce' = staleOnce \ {n}
    /\ tries' = [tries EXCEPT ![n] = 0]
    /\ vms' = [vms EXCEPT ![n] = NoVM]
    /\ digest' = [digest EXCEPT ![n] = Unseeded]

(* The daemon dies; guests and their storage keep running. *)
DaemonCrash(n) ==
    /\ budget > 0 /\ daemon[n] \notin {"down", "dead"}
    /\ budget' = budget - 1
    /\ daemon' = [daemon EXCEPT ![n] = "down"]
    /\ Forgets(n)
    /\ UNCHANGED <<clusterVars, file, cut, qemu, notice, seen>>

(* The whole host dies. *)
HostCrash(n) ==
    /\ budget > 0 /\ daemon[n] # "dead"
    /\ budget' = budget - 1
    /\ daemon' = [daemon EXCEPT ![n] = "dead"]
    /\ qemu' = qemu \ {n}
    /\ notice' = notice \ {n}
    /\ Forgets(n)
    /\ UNCHANGED <<clusterVars, file, cut, seen>>

CutOff(n) ==
    /\ budget >= CutCost /\ Up(n) /\ Linked(n)
    /\ budget' = budget - CutCost
    /\ cut' = cut \cup {n}
    /\ seen' = seen \cup {"cut"}
    /\ UNCHANGED <<clusterVars, nodeVars, daemon, qemu, notice, recoveryVars>>

Heal(n) ==
    /\ n \in cut
    /\ cut' = cut \ {n}
    /\ UNCHANGED <<clusterVars, nodeVars, daemon, qemu, notice, recoveryVars, budget, seen>>

-----------------------------------------------------------------------------
(* A daemon that comes back.  It has no heartbeat until it is restored. *)

LoadState(n) ==
    /\ daemon[n] \in {"down", "dead"} /\ Linked(n)
    /\ budget > 0
    /\ budget' = budget - 1
    /\ daemon' = [daemon EXCEPT ![n] = "loaded"]
    /\ vms' = [vms EXCEPT ![n] = file[n]]
    /\ seen' = seen \cup {"return"}
    /\ UNCHANGED <<clusterVars, file, digest, cut, qemu, notice, recoveryVars>>

\* Mutant: the volumes are abandoned and the guest is left running.
ForgetSparesGuest(n) ==
    /\ daemon[n] = "loaded"
    /\ daemon' = [daemon EXCEPT ![n] = "forgot"]
    /\ IF vms[n] # NoVM /\ Linked(n) /\ rec # NoRecord /\ rec.node # n
       THEN /\ lease' = IF lease = n THEN NoNode ELSE lease
            /\ vms' = [vms EXCEPT ![n] = NoVM]
       ELSE UNCHANGED <<lease, vms>>
    /\ UNCHANGED <<rec, fresh, file, digest, cut, qemu, notice, recoveryVars,
                   budget, seen>>

(* forgetSupersededInstances: a copy the record gives to another node is   *)
(* dropped: guest killed, then the volumes abandoned.                      *)
ForgetSuperseded(n) ==
    /\ daemon[n] = "loaded"
    /\ daemon' = [daemon EXCEPT ![n] = "forgot"]
    /\ IF vms[n] # NoVM /\ Linked(n) /\ rec # NoRecord /\ rec.node # n
       THEN /\ qemu' = qemu \ {n}
            /\ lease' = IF lease = n THEN NoNode ELSE lease
            /\ vms' = [vms EXCEPT ![n] = NoVM]
       ELSE UNCHANGED <<qemu, lease, vms>>
    /\ UNCHANGED <<rec, fresh, file, digest, cut, notice, recoveryVars, budget, seen>>

(* Restore: the node's records are folded over the local map, then the     *)
(* copy is routed by its status and by whether its guest survived.         *)
Adopted(n) == IF runsOn(rec, n) THEN rec.vm ELSE vms[n]

(* Nothing to do, an error left to the operator, or a guest that would not *)
(* die.                                                                    *)
RestoreStays(n, copy) ==
    /\ copy # NoVM =>
          \/ copy.status = "error"
          \/ n \in qemu /\ (copy.status = "stopping" \/ lease # n)
    /\ vms' = [vms EXCEPT ![n] = copy]
    /\ UNCHANGED <<rec, file, digest, qemu, lease, task, seen>>

(* A finished or half-done stop, or a host that lost the room for it. *)
RestoreStops(n, copy) ==
    /\ copy # NoVM
    /\ copy.status = "error" => ~copy.fenced
    /\ rec' = [node |-> n, vm |-> Copy("stopped", "stopped")]
    /\ vms' = [vms EXCEPT ![n] = NoVM]
    /\ qemu' = IF copy.status = "stopping" THEN qemu \ {n} ELSE qemu
    /\ UNCHANGED <<file, digest, lease, task, seen>>

RestoreReconnects(n, copy) ==
    /\ copy # NoVM /\ copy.status \in {"running", "pending", "error"} /\ ~copy.fenced
    /\ n \in qemu /\ lease = n
    /\ \/ /\ Persist(n, rec, [copy EXCEPT !.status = "running"])
          /\ UNCHANGED <<qemu, lease>>
       \/ /\ Persist(n, rec, [copy EXCEPT !.status = "error"])
          /\ qemu' = qemu \ {n}
          /\ lease' = NoNode
    /\ UNCHANGED task

RestoreRelaunches(n, copy) ==
    /\ copy # NoVM
    /\ \/ copy.status \in {"running", "pending"}
       \/ copy.status = "stopped" /\ copy.desired = "running"
       \/ copy.status = "error" /\ ~copy.fenced
    /\ ~(n \in qemu /\ lease = n)
    /\ qemu' = qemu \ {n}
    /\ vms' = [vms EXCEPT ![n] = [copy EXCEPT !.status = "pending"]]
    /\ task' = [task EXCEPT ![n] = [step |-> "inserted", kind |-> "restore",
                                    from |-> NoNode]]
    /\ UNCHANGED <<rec, file, digest, lease, seen>>

Restore(n) ==
    /\ daemon[n] = "forgot" /\ Linked(n)
    /\ daemon' = [daemon EXCEPT ![n] = "restored"]
    /\ LET copy == Adopted(n) IN
          \/ RestoreStays(n, copy)
          \/ RestoreStops(n, copy)
          \/ RestoreReconnects(n, copy)
          \/ RestoreRelaunches(n, copy)
    /\ UNCHANGED <<fresh, cut, notice, stop, staleOnce, tries, budget>>

(* MarkRecoveryFailed: error state published, volumes released, copy kept. *)
RelaunchFails(n) ==
    /\ task[n].step \in {"inserted", "mounted"}
    /\ task[n].kind = "restore"
    /\ launchStillValid(n)
    /\ lease' = IF lease = n THEN NoNode ELSE lease
    /\ Persist(n, rec, [vms[n] EXCEPT !.status = "error"])
    /\ task' = [task EXCEPT ![n] = Idle]
    /\ UNCHANGED <<fresh, hostVars, stop, staleOnce, tries, budget>>

(* The state is written once more and the loops start. *)
BootDone(n) ==
    /\ daemon[n] = "restored" /\ task[n].step = "idle"
    /\ daemon' = [daemon EXCEPT ![n] = "up"]
    /\ Persist(n, rec, vms[n])
    /\ UNCHANGED <<fresh, lease, cut, qemu, notice, recoveryVars, budget>>

-----------------------------------------------------------------------------
Init ==
    LET running == Copy("running", "running") IN
    /\ rec = [node |-> First, vm |-> running]
    /\ vms = [n \in Nodes |-> IF n = First THEN running ELSE NoVM]
    /\ file = vms
    /\ digest = vms
    /\ daemon = [n \in Nodes |-> "up"]
    /\ cut = {}
    /\ fresh = Nodes
    /\ qemu = {First}
    /\ lease = First
    /\ notice = {}
    /\ stop = [n \in Nodes |-> NoStop]
    /\ task = [n \in Nodes |-> Idle]
    /\ staleOnce = {}
    /\ tries = [n \in Nodes |-> 0]
    /\ budget = MaxEvents
    /\ seen = {}

Launching(n) ==
    \/ RefuseLaunch(n) \/ InsertClaimed(n) \/ MountVolumes(n)
    \/ LaunchSucceeds(n) \/ LaunchOvertaken(n) \/ LaunchFails(n)

Recovering(n) ==
    \/ Pass(n) \/ ClaimRecoverableInstance(n)
    \/ Undo(n) \/ AbandonRecovery(n)

Booting(n) ==
    \/ ForgetSuperseded(n) \/ Restore(n) \/ RelaunchFails(n) \/ BootDone(n)

Next ==
    \/ LeaseExpires
    \/ \E n \in Nodes :
          \/ StateWrite(n) \/ Heartbeat(n) \/ HeartbeatLapses(n)
          \/ Recovering(n) \/ ClaimStoppedInstance(n) \/ Launching(n)
          \/ StopBegin(n) \/ StopCleanup(n) \/ MigrateStopped(n)
          \/ FenceVolume(n) \/ DropNotice(n)
          \/ DaemonCrash(n) \/ HostCrash(n) \/ CutOff(n) \/ Heal(n)
          \/ LoadState(n) \/ Booting(n)

(* Timers drive the passes and heartbeats, the KV server expires leases,   *)
(* and a launch either completes or fails: none of them waits on another   *)
(* node.  A give-up follows its hand-back in the same goroutine, so some   *)
(* give-up finds the record it handed back before another node's next pass *)
(* claims it.  Faults, operator calls and returns owe nothing.             *)
Fairness ==
    /\ WF_vars(LeaseExpires)
    /\ \A n \in Nodes :
          /\ WF_vars(HeartbeatLapses(n))
          /\ WF_vars(Recovering(n))
          /\ SF_vars(AbandonRecovery(n) /\ operatorStopped(rec'))
          /\ WF_vars(Launching(n))
          /\ WF_vars(StopCleanup(n) \/ MigrateStopped(n))
          /\ WF_vars(FenceVolume(n))
          /\ WF_vars(Booting(n))

Spec == Init /\ [][Next]_vars /\ Fairness

-----------------------------------------------------------------------------
(* Properties. *)

TypeOK ==
    /\ rec \in Records \cup {NoRecord}
    /\ vms \in [Nodes -> Copies \cup {NoVM}]
    /\ file \in [Nodes -> Copies \cup {NoVM}]
    /\ digest \in [Nodes -> Copies \cup {NoVM, Unseeded}]
    /\ daemon \in [Nodes -> Phases]
    /\ cut \subseteq Nodes /\ fresh \subseteq Nodes
    /\ qemu \subseteq Nodes /\ notice \subseteq Nodes
    /\ lease \in Nodes \cup {NoNode}
    /\ stop \in [Nodes -> Stops]
    /\ task \in [Nodes -> Tasks]
    /\ staleOnce \subseteq Nodes
    /\ tries \in [Nodes -> 0..MaxAttempts]
    /\ budget \in 0..MaxEvents
    /\ seen \subseteq Disturbances

(* Only a node that is up speaks for the guests on it. *)
Runs(n) == Up(n) /\ n \in qemu /\ vms[n] # NoVM /\ vms[n].status = "running"

(* A guest never runs twice.  However the record moves between a daemon    *)
(* that crashed with its guest alive, the survivors that claim it and the  *)
(* daemon that comes back, at most one node has a guest process as long as *)
(* no node was cut off from the store: a launch opens the disk first, and  *)
(* every teardown kills the guest before it lets the lease go.             *)
OneGuest == "cut" \notin seen => Cardinality(qemu) <= 1

(* While nodes only crash (nobody returns, is cut off or starts a stopped  *)
(* instance, and no record was retired), the compare-and-set claim and the *)
(* hand-back leave the instance to one live node at a time.                *)
Engaged(n) == Up(n) /\ (vms[n] # NoVM \/ task[n].step \in {"claimed", "undo"})

OneClaimant == seen = {} => Cardinality({n \in Nodes : Engaged(n)}) <= 1

(* Under the same conditions a live node that runs the guest is the node   *)
(* the record names, so no survivor ever takes a running guest for a       *)
(* candidate and a restart of the node does not drop it as superseded.     *)
RunningIsOwned ==
    seen = {} => \A n \in Nodes : Runs(n) => rec # NoRecord /\ rec.node = n

(* ... and a record that says stopped, by a stop or by a recovery that     *)
(* gave up, is not contradicted by a live node still launching or running. *)
StoppedIsDown ==
    seen = {} /\ operatorStopped(rec) =>
        \A n \in Nodes : ~Runs(n) /\ ~(Up(n) /\ task[n].step \in {"inserted", "mounted"})

(* An instance whose host crashed settles: as long as some node is left,   *)
(* it ends up running on a live node, or stopped with a reason.            *)
Settled == \/ \E n \in Nodes : Runs(n)
           \/ operatorStopped(rec)
           \/ \A n \in Nodes : ~Up(n)

Settles == [](seen = {}) => <>[](Settled \/ ~recoverable(rec))

(* A guest whose disk was revoked does not run on: the provider repeats    *)
(* its notice until the daemon has taken the guest down.                   *)
DisklessGuestStops ==
    \A n \in Nodes :
        (n \in qemu /\ lease # n /\ Up(n) /\ vms[n] # NoVM)
            ~> (n \notin qemu \/ lease = n \/ ~Up(n) \/ vms[n] = NoVM)

(* One key holds an instance for its whole life: nobody terminated this    *)
(* one, so its record is never deleted.                                    *)
RecordKept == rec # NoRecord

(* A node that gives up a recovery after another node has claimed and      *)
(* launched the instance does not stop the record of a guest that runs.    *)
AbandonSparesRunning ==
    [][\A m, n \in Nodes :
          AbandonRecovery(m) /\ rec' # rec => ~(Runs(n) /\ n # task[m].from)]_vars
=============================================================================
