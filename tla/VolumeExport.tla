---------------------------- MODULE VolumeExport ----------------------------
(***************************************************************************)
(* One volume's export across the nodes of a cluster: viperblockd mounts   *)
(* it (a lease, a dirty marker, an nbdkit process, a registry entry),      *)
(* unmounts it with a seal, abandons it, fences it when its lease is lost, *)
(* opens short-lived engines on it, and restarts while nbdkit survives.    *)
(* Sources: provider_handlers.go, viperblock.go, volume_dirty.go,          *)
(* volume_fence.go, nbdkit_recovery.go, node_liveness.go.                  *)
(*                                                                         *)
(* The lease is the one LeaseGrant promises: generations grow, at most one *)
(* is valid (holder).  An acquire may always be refused (the KV entry of a *)
(* lease that ended can outlive it), so refusals need no state.            *)
(*                                                                         *)
(* Each node runs at most one mount, one unmount or abandon and one short  *)
(* engine open at a time; they overlap unless SerialHandlers.  Each lost   *)
(* lease has a fence goroutine of its own.                                 *)
(***************************************************************************)
EXTENDS Integers, FiniteSets

CONSTANTS
    Nodes, NoNode,
    SerialHandlers,          \* the handlers of one node never overlap; the code lets them
    MaxGen, MaxPid, MaxStops \* bounds: leases, nbdkit processes, daemon exits

ASSUME ExportAssumption ==
    /\ NoNode \notin Nodes
    /\ SerialHandlers \in BOOLEAN
    /\ MaxGen \in Nat /\ MaxPid \in Nat /\ MaxStops \in Nat

Gens == 1 .. MaxGen
Pids == 1 .. MaxPid

VARIABLES
    holder, epoch,   \* the valid lease's generation or 0; the last one granted
    who, refs,       \* the node of each lease, and its open engines
    held,            \* volumeLeases.held of each node
    marker,          \* the volume's entry in the dirty bucket
    alive, at,       \* the nbdkit processes running, and where
    client,          \* those a guest is connected to, and so hold the volume lock
    entry,           \* each node's MountedVolumes entry
    mount, stop, open,  \* each node's handlers
    fence,           \* the fence goroutine of each lease
    daemon, stops,   \* each node's viperblockd; how often one ended
    local, receipt,  \* each node's BaseDir/<volume>, and its seal receipt
    opener,          \* history: the latest lease an engine was opened under
    unmarked,        \* history: the nodes whose writes no marker was written for
    discarded,       \* history: the nodes opened over though live and marked
    strays           \* history: nbdkit processes nothing on their node tracks

lease == <<holder, epoch, who, refs, held>>
procs == <<alive, at, client>>
handlers == <<mount, stop, open, fence>>
host == <<daemon, stops>>
data == <<local, receipt, opener>>
history == <<unmarked, discarded, strays>>
vars == <<lease, marker, procs, entry, handlers, host, data, history>>

NoMark == [owner |-> NoNode, gen |-> 0]
Mark == [owner : Nodes \cup {NoNode}, gen : 0 .. MaxGen]

\* A MountedVolume, as far as it matters: its nbdkit and its lease.
None == [pid |-> 0, gen |-> 0]
Export == [pid : 0 .. MaxPid, gen : 0 .. MaxGen]

Idle == [pc |-> "idle", pid |-> 0, gen |-> 0, seal |-> 0]
Quiet == [pc |-> "none", pid |-> 0, gen |-> 0]

\* The states of a mount, of an unmount or abandon, and of a fence goroutine.
Mount == [pc : {"idle", "leased", "built", "started"},
          pid : 0 .. MaxPid, gen : 0 .. MaxGen, seal : {0}]
Stop == [pc : {"idle", "stopping", "dead", "sealing", "sealed", "abandon"},
         pid : 0 .. MaxPid, gen : 0 .. MaxGen, seal : 0 .. MaxGen]
Fence == [pc : {"none", "due", "kill", "watch", "missed"},
          pid : 0 .. MaxPid, gen : 0 .. MaxGen]

TypeOK ==
    /\ holder \in 0 .. MaxGen /\ epoch \in 0 .. MaxGen
    /\ who \in [Gens -> Nodes \cup {NoNode}]
    /\ refs \in [Gens -> Int]
    /\ held \in [Nodes -> 0 .. MaxGen]
    /\ marker \in Mark
    /\ client \subseteq alive /\ alive \subseteq Pids
    /\ at \in [Pids -> Nodes \cup {NoNode}]
    /\ entry \in [Nodes -> Export]
    /\ mount \in [Nodes -> Mount] /\ stop \in [Nodes -> Stop]
    /\ open \in [Nodes -> 0 .. MaxGen]
    /\ fence \in [Gens -> Fence]
    /\ daemon \in [Nodes -> {"up", "down", "recover"}]
    /\ stops \in 0 .. MaxStops
    /\ local \in [Nodes -> {"none", "current", "superseded"}]
    /\ receipt \subseteq Nodes
    /\ opener \in 0 .. MaxGen
    /\ unmarked \subseteq Nodes /\ discarded \subseteq Nodes
    /\ strays \subseteq Pids

Init ==
    /\ holder = 0 /\ epoch = 0
    /\ who = [g \in Gens |-> NoNode] /\ refs = [g \in Gens |-> 0]
    /\ held = [n \in Nodes |-> 0]
    /\ marker = NoMark
    /\ alive = {} /\ client = {} /\ at = [k \in Pids |-> NoNode]
    /\ entry = [n \in Nodes |-> None]
    /\ mount = [n \in Nodes |-> Idle] /\ stop = [n \in Nodes |-> Idle]
    /\ open = [n \in Nodes |-> 0]
    /\ fence = [g \in Gens |-> Quiet]
    /\ daemon = [n \in Nodes |-> "up"] /\ stops = 0
    /\ local = [n \in Nodes |-> "none"] /\ receipt = {} /\ opener = 0
    /\ unmarked = {} /\ discarded = {} /\ strays = {}

-----------------------------------------------------------------------------
(* The lease, as volume_lease.go offers it. *)

\* The leases granted to node n.
Of(n) == {g \in Gens : who[g] = n}

\* acquire: an open shares the lease its node holds if that is still valid, and
\* otherwise wins the next generation when no other node holds the volume.  A
\* valid lease of this node that held no longer knows is taken over and lost.
Acquire(n, g) ==
    IF held[n] # 0
    THEN /\ g = held[n] /\ holder = g
         /\ refs' = [refs EXCEPT ![g] = @ + 1]
         /\ UNCHANGED <<holder, epoch, who, held, fence>>
    ELSE /\ holder \in {0} \cup Of(n)
         /\ epoch < MaxGen /\ g = epoch + 1
         /\ holder' = g /\ epoch' = g
         /\ who' = [who EXCEPT ![g] = n]
         /\ refs' = [refs EXCEPT ![g] = 1]
         /\ held' = [held EXCEPT ![n] = g]
         /\ fence' = IF holder = 0 THEN fence ELSE [fence EXCEPT ![holder].pc = "due"]

\* Mutant: held forgets the lease with the first release, not the last.
ReleaseForgetsEarly(g) ==
    IF g = 0 THEN UNCHANGED <<holder, refs, held>>
    ELSE /\ refs' = [refs EXCEPT ![g] = @ - 1]
         /\ held' = [held EXCEPT ![who[g]] = 0]
         /\ holder' = IF holder = g /\ refs[g] <= 1 THEN 0 ELSE holder

\* release: the last reference ends the lease and forgets whatever is held.
\* Handlers that hold no lease (generation 0) release nothing.
Release(g) ==
    IF g = 0 THEN UNCHANGED <<holder, refs, held>>
    ELSE /\ refs' = [refs EXCEPT ![g] = @ - 1]
         /\ IF refs[g] > 1 THEN UNCHANGED <<holder, held>>
            ELSE /\ held' = [held EXCEPT ![who[g]] = 0]
                 /\ holder' = IF holder = g THEN 0 ELSE holder

-----------------------------------------------------------------------------
(* The dirty marker, volume_dirty.go. *)

\* mark refuses a marker of a later generation.
CanMark(g) == marker.gen <= g

\* Mutant: the marker goes whoever wrote it.
ClearAnyOwner(n, g) == marker' \in {marker, NoMark}

\* clear drops the marker only if this node wrote it at this generation; the
\* store may fail it, which is logged.
Clear(n, g) ==
    marker' \in {marker, IF marker = [owner |-> n, gen |-> g] THEN NoMark ELSE marker}

\* markVolumeDirtyAfterFailedSeal: best effort.
MarkFailedSeal(n, g) ==
    marker' \in {marker, IF CanMark(g) THEN [owner |-> n, gen |-> g] ELSE marker}

\* Mutant: a takeover is reported and never refused.
PermittedOverLive(n, gone, readable) == TRUE

\* reportVolumeTakeover and refuseWhileOwnerLive let node n open the volume: no
\* other node is marked, or its heartbeat is older than nodeLivenessWindow (it is
\* gone).  A marker that cannot be read counts as absent.
Permitted(n, gone, readable) ==
    readable => marker.owner \in {NoNode, n} \cup gone

\* The copy opened under the latest lease counts; what others hold unsealed does
\* not.
Supersede(n, g) ==
    IF g < opener THEN UNCHANGED <<opener, local>>
    ELSE /\ opener' = g
         /\ local' = [m \in Nodes |->
                        IF m # n /\ local[m] = "current" THEN "superseded" ELSE local[m]]

\* acquireVolumeLease after the acquire: the marker is checked and taken over,
\* before a single write lands.
Vet(n, g) ==
    \E gone \in SUBSET (Nodes \ {n}), readable \in BOOLEAN :
        /\ Permitted(n, gone, readable)
        /\ CanMark(g)
        /\ marker' = [owner |-> n, gen |-> g]
        /\ unmarked' = unmarked \ {n}
        /\ Supersede(n, g)
        /\ discarded' = discarded \cup
             {m \in Nodes \ (unmarked \cup gone \cup {n}) : readable /\ local[m] = "current"}

-----------------------------------------------------------------------------
(* mountVolume *)

Serving(n) == daemon[n] = "up"

\* No other handler of the node is at work, where that is assumed.
Alone(n) ==
    SerialHandlers => mount[n] = Idle /\ stop[n] = Idle /\ open[n] = 0

\* A stale entry (its nbdkit is gone) is dropped with its lease.
MountDropsStale(n) ==
    /\ Serving(n) /\ Alone(n)
    /\ mount[n] = Idle
    /\ entry[n] # None /\ entry[n].pid \notin alive
    /\ entry' = [entry EXCEPT ![n] = None]
    /\ Release(entry[n].gen)
    /\ UNCHANGED <<epoch, who, marker, procs, handlers, host, data, history>>

\* The receipt of an earlier mount is cleared, the lease acquired.
MountBegins(n) ==
    /\ Serving(n) /\ Alone(n)
    /\ mount[n] = Idle
    /\ entry[n] = None
    /\ receipt' = receipt \ {n}
    /\ \E g \in Gens :
         /\ Acquire(n, g)
         /\ mount' = [mount EXCEPT ![n] = [Idle EXCEPT !.pc = "leased", !.gen = g]]
    /\ UNCHANGED <<marker, procs, entry, stop, open, host, local, opener, history>>

MountVets(n) ==
    /\ mount[n].pc = "leased"
    /\ UNCHANGED lease
    /\ Vet(n, mount[n].gen)
    /\ mount' = [mount EXCEPT ![n].pc = "built"]
    /\ UNCHANGED <<procs, entry, stop, open, fence, host, receipt, strays>>

\* Refused over a live owner, the marker not written, the state not loaded or
\* nbdkit not started: the lease goes back, the marker stays.
MountGivesUp(n) ==
    /\ mount[n].pc \in {"leased", "built"}
    /\ Serving(n)
    /\ mount' = [mount EXCEPT ![n] = Idle]
    /\ Release(mount[n].gen)
    /\ UNCHANGED <<epoch, who, marker, procs, entry, stop, open, fence, host, data, history>>

MountStarts(n) ==
    /\ mount[n].pc = "built"
    /\ \E k \in Pids :
         /\ at[k] = NoNode /\ \A j \in Pids : j < k => at[j] # NoNode
         /\ alive' = alive \cup {k}
         /\ at' = [at EXCEPT ![k] = n]
         /\ mount' = [mount EXCEPT ![n].pc = "started", ![n].pid = k]
    /\ UNCHANGED <<lease, marker, client, entry, stop, open, fence, host, data, history>>

\* nbdkit is not ready by the deadline, or exited: the lease goes back.  One
\* that is merely slow is left running.
MountFails(n) ==
    /\ Serving(n)
    /\ mount[n].pc = "started"
    /\ mount' = [mount EXCEPT ![n] = Idle]
    /\ strays' = strays \cup ({mount[n].pid} \cap alive)
    /\ Release(mount[n].gen)
    /\ UNCHANGED <<epoch, who, marker, procs, entry, stop, open, fence, host, data, unmarked, discarded>>

\* nbdkit answers; its export is registered.  Also the end of an adoption, after
\* which the daemon serves.
MountRegisters(n) ==
    /\ mount[n].pc = "started"
    /\ entry' = [entry EXCEPT ![n] = [pid |-> mount[n].pid, gen |-> mount[n].gen]]
    /\ mount' = [mount EXCEPT ![n] = Idle]
    /\ daemon' = [daemon EXCEPT ![n] = "up"]
    /\ UNCHANGED <<lease, marker, procs, stop, open, fence, stops, data, history>>

-----------------------------------------------------------------------------
(* unmountVolume, sealVolumeVB and abandonVolume *)

UnmountBegins(n) ==
    /\ Serving(n) /\ Alone(n)
    /\ stop[n] = Idle
    /\ entry[n] # None
    /\ stop' = [stop EXCEPT ![n] = [Idle EXCEPT !.pc = "stopping", !.pid = entry[n].pid,
                                                !.gen = entry[n].gen]]
    /\ UNCHANGED <<lease, marker, procs, entry, mount, open, fence, host, data, history>>

Survivors(n) == {k \in alive : at[k] = n}

\* What a viperblockd that serves knows nothing of: a late teardown of another
\* export dropped its entry.
Untracked(n) == {k \in Survivors(n) : Serving(n) /\ k \notin {entry[n].pid, mount[n].pid}}

\* Mutant: a killed process keeps its guest.
KillKeepsGuest(pids) == alive' = alive \ pids /\ UNCHANGED client

Kill(pids) == alive' = alive \ pids /\ client' = client \ pids

\* The guest of nbdkit k, if any, is gone: the plugin's close seals what the node
\* holds and leaves a receipt, unless it fails or is cut short.
PluginCloses(k) ==
    \/ UNCHANGED <<local, receipt>>
    \/ /\ k \in client /\ local[at[k]] # "none"
       /\ local' = [local EXCEPT ![at[k]] = "none"]
       /\ receipt' = receipt \cup {at[k]}

UnmountStops(n) ==
    /\ stop[n].pc = "stopping"
    /\ Kill({stop[n].pid}) /\ PluginCloses(stop[n].pid)
    /\ stop' = [stop EXCEPT ![n].pc = "dead"]
    /\ UNCHANGED <<lease, marker, at, entry, mount, open, fence, host, opener, history>>

\* The kill did not take: the entry stays for a retry.
UnmountKillFails(n) ==
    /\ stop[n].pc \in {"stopping", "abandon"}
    /\ stop[n].pid \in alive
    /\ stop' = [stop EXCEPT ![n] = Idle]
    /\ UNCHANGED <<lease, marker, procs, entry, mount, open, fence, host, data, history>>

\* Nothing left to seal: the marker is cleared if the plugin left its receipt.
UnmountSkipsSeal(n) ==
    /\ stop[n].pc = "dead"
    /\ local[n] = "none"
    /\ stop' = [stop EXCEPT ![n].pc = "sealed"]
    /\ IF n \in receipt THEN Clear(n, stop[n].gen) ELSE UNCHANGED marker
    /\ receipt' = receipt \ {n}
    /\ UNCHANGED <<lease, procs, entry, mount, open, fence, host, local, opener, history>>

\* The seal opens an engine of its own, under the shared lease or a new one.
SealOpens(n) ==
    /\ stop[n].pc = "dead"
    /\ local[n] # "none"
    /\ \E g \in Gens :
         /\ Acquire(n, g)
         /\ Vet(n, g)
         /\ stop' = [stop EXCEPT ![n].pc = "sealing", ![n].seal = g]
    /\ UNCHANGED <<procs, entry, mount, open, host, receipt, strays>>

\* The writes reach the backend, the local state goes, the marker is cleared.
SealCloses(n) ==
    /\ stop[n].pc = "sealing"
    /\ local' = [local EXCEPT ![n] = "none"]
    /\ Release(stop[n].seal)
    /\ Clear(n, stop[n].gen)
    /\ stop' = [stop EXCEPT ![n].pc = "sealed", ![n].seal = 0]
    /\ UNCHANGED <<epoch, who, procs, entry, mount, open, fence, host, receipt, opener, history>>

\* A seal that could not open or close: the entry and its lease stay for a retry.
SealFails(n) ==
    /\ \/ stop[n].pc = "dead" /\ local[n] # "none"
       \/ stop[n].pc = "sealing"
    /\ Release(stop[n].seal)
    /\ MarkFailedSeal(n, stop[n].gen)
    /\ stop' = [stop EXCEPT ![n] = Idle]
    /\ UNCHANGED <<epoch, who, procs, entry, mount, open, fence, host, data, history>>

\* Whatever is registered for the volume is removed, the lease released.
UnmountEnds(n) ==
    /\ stop[n].pc = "sealed"
    /\ entry' = [entry EXCEPT ![n] = None]
    /\ Release(stop[n].gen)
    /\ stop' = [stop EXCEPT ![n] = Idle]
    /\ UNCHANGED <<epoch, who, marker, procs, mount, open, fence, host, data, history>>

\* An unmount with no entry stops an nbdkit that nothing references.
UnmountReaps(n) ==
    /\ Serving(n) /\ Alone(n)
    /\ stop[n] = Idle
    /\ entry[n] = None
    /\ \E k \in Survivors(n) \ client : Kill({k})
    /\ UNCHANGED <<lease, marker, at, entry, handlers, host, data, history>>

AbandonBegins(n) ==
    /\ Serving(n) /\ Alone(n)
    /\ stop[n] = Idle
    /\ entry[n] # None
    /\ stop' = [stop EXCEPT ![n] = [Idle EXCEPT !.pc = "abandon", !.pid = entry[n].pid,
                                                !.gen = entry[n].gen]]
    /\ UNCHANGED <<lease, marker, procs, entry, mount, open, fence, host, data, history>>

\* The export is killed without a seal, and its lease released.
AbandonEnds(n) ==
    /\ stop[n].pc = "abandon"
    /\ Kill({stop[n].pid})
    /\ entry' = [entry EXCEPT ![n] = None]
    /\ Release(stop[n].gen)
    /\ stop' = [stop EXCEPT ![n] = Idle]
    /\ UNCHANGED <<epoch, who, marker, at, mount, open, fence, host, data, history>>

-----------------------------------------------------------------------------
(* Expand, snapshot and config updates of a volume not mounted here. *)

OpenBegins(n) ==
    /\ Serving(n) /\ Alone(n)
    /\ open[n] = 0
    /\ entry[n] = None
    /\ \E g \in Gens :
         /\ Acquire(n, g)
         /\ Vet(n, g)
         /\ open' = [open EXCEPT ![n] = g]
    /\ UNCHANGED <<procs, entry, mount, stop, host, receipt, strays>>

\* The engine is detached, or closed, which seals what the node held.
OpenEnds(n) ==
    /\ open[n] # 0
    /\ local' \in {local, [local EXCEPT ![n] = "none"]}
    /\ Release(open[n])
    /\ open' = [open EXCEPT ![n] = 0]
    /\ UNCHANGED <<epoch, who, marker, procs, entry, mount, stop, fence, host, receipt, opener,
                   history>>

-----------------------------------------------------------------------------
(* fenceVolume *)

\* The lease lapses or is found taken; its fence is spawned.
LeaseLost ==
    /\ holder # 0
    /\ holder' = 0
    /\ fence' = [fence EXCEPT ![holder].pc = "due"]
    /\ UNCHANGED <<epoch, who, refs, held, marker, procs, entry, mount, stop, open, host, data,
                   history>>

\* The fence looks the volume up.  An export that is not registered is taken for
\* one that went away, also if a mount is about to register it.
FenceLooksUp(g) ==
    /\ fence[g].pc = "due"
    /\ fence' = [fence EXCEPT ![g] =
                   IF entry[who[g]] # None
                   THEN [pc |-> "kill", pid |-> entry[who[g]].pid, gen |-> entry[who[g]].gen]
                   ELSE [Quiet EXCEPT !.pc = IF mount[who[g]].gen = g THEN "missed" ELSE "none"]]
    /\ UNCHANGED <<lease, marker, procs, entry, mount, stop, open, host, data, history>>

\* The writer is gone: the entry and the lease follow, nothing is sealed.
FenceEnds(g) ==
    /\ \/ fence[g].pc = "kill"
       \/ fence[g].pc = "watch" /\ fence[g].pid \notin alive
    /\ Kill({fence[g].pid})
    /\ entry' = [entry EXCEPT ![who[g]] = None]
    /\ Release(fence[g].gen)
    /\ fence' = [fence EXCEPT ![g] = Quiet]
    /\ UNCHANGED <<epoch, who, marker, at, mount, stop, open, host, data, history>>

\* Mutant: the entry and the lease go although the writer is still there.
FenceForgetsWriter(g) ==
    /\ fence[g].pc = "kill"
    /\ fence[g].pid \in alive
    /\ entry' = [entry EXCEPT ![who[g]] = None]
    /\ Release(fence[g].gen)
    /\ fence' = [fence EXCEPT ![g] = Quiet]
    /\ UNCHANGED <<epoch, who, marker, procs, mount, stop, open, host, data, history>>

\* SIGKILL did not take: the entry and the lease stay until the writer exits.
FenceKillFails(g) ==
    /\ fence[g].pc = "kill"
    /\ fence[g].pid \in alive
    /\ fence' = [fence EXCEPT ![g].pc = "watch"]
    /\ UNCHANGED <<lease, marker, procs, entry, mount, stop, open, host, data, history>>

-----------------------------------------------------------------------------
(* nbdkit, the daemon and the heartbeat. *)

\* The guest of a registered export connects, which takes the volume lock of the
\* node, and writes.
Write(k) ==
    /\ \/ k \in client
       \/ /\ k \in alive /\ entry[at[k]].pid = k
          /\ client \cap Survivors(at[k]) = {}
    /\ client' = client \cup {k}
    /\ local' = [local EXCEPT ![at[k]] = IF opener \in Of(at[k]) THEN "current" ELSE "superseded"]
    /\ receipt' = receipt \ {at[k]}
    /\ unmarked' = IF k \in strays \cup Untracked(at[k]) THEN unmarked \cup {at[k]} ELSE unmarked
    /\ UNCHANGED <<lease, marker, alive, at, entry, handlers, host, opener, discarded, strays>>

GuestLeaves(k) ==
    /\ k \in client
    /\ client' = client \ {k}
    /\ PluginCloses(k)
    /\ UNCHANGED <<lease, marker, alive, at, entry, handlers, host, opener, history>>

NbdkitDies(k) ==
    /\ k \in alive
    /\ Kill({k})
    /\ UNCHANGED <<lease, marker, at, entry, handlers, host, data, history>>

\* viperblockd ends, by Shutdown or a crash.  Its leases are no longer renewed;
\* Shutdown kills the nbdkits that serve no guest.
DaemonStops(n) ==
    /\ daemon[n] # "down"
    /\ stops < MaxStops
    /\ stops' = stops + 1
    /\ daemon' = [daemon EXCEPT ![n] = "down"]
    /\ entry' = [entry EXCEPT ![n] = None]
    /\ mount' = [mount EXCEPT ![n] = Idle]
    /\ stop' = [stop EXCEPT ![n] = Idle]
    /\ open' = [open EXCEPT ![n] = 0]
    /\ held' = [held EXCEPT ![n] = 0]
    /\ holder' = IF holder \in Of(n) THEN 0 ELSE holder
    /\ refs' = [g \in Gens |-> IF g \in Of(n) THEN 0 ELSE refs[g]]
    /\ fence' = [g \in Gens |-> IF g \in Of(n) THEN Quiet ELSE fence[g]]
    /\ \E idle \in SUBSET (({entry[n].pid} \cap alive) \ client) : Kill(idle)
    /\ strays' = strays \cup Untracked(n)
    /\ UNCHANGED <<epoch, who, marker, at, data, unmarked, discarded>>

DaemonStarts(n) ==
    /\ daemon[n] = "down"
    /\ daemon' = [daemon EXCEPT ![n] = "recover"]
    /\ UNCHANGED <<lease, marker, procs, entry, handlers, stops, data, history>>

\* rebuildMountedVolume: a survivor is adopted under a new lease.  The dirty
\* bucket is bound later, so no marker is read or written.
RecoverAdopts(n) ==
    /\ daemon[n] = "recover" /\ mount[n] = Idle
    /\ \E k \in Survivors(n), g \in Gens :
         /\ Acquire(n, g)
         /\ mount' = [mount EXCEPT ![n] = [Idle EXCEPT !.pc = "started", !.pid = k, !.gen = g]]
         /\ Supersede(n, g)
         /\ strays' = (strays \cup Survivors(n)) \ {k}
    /\ unmarked' = unmarked \cup {n}
    /\ UNCHANGED <<marker, procs, entry, stop, open, host, receipt, discarded>>

\* Nothing to adopt, or no claim after every attempt: what survives is reaped
\* when nothing references it and left running otherwise.
RecoverEnds(n) ==
    /\ daemon[n] = "recover" /\ mount[n] = Idle
    /\ daemon' = [daemon EXCEPT ![n] = "up"]
    /\ \E reaped \in SUBSET (Survivors(n) \ client) : Kill(reaped)
    /\ strays' = strays \cup (Survivors(n) \cap alive')
    /\ UNCHANGED <<lease, marker, at, entry, handlers, stops, data, unmarked, discarded>>

-----------------------------------------------------------------------------

Mounting(n) ==
    \/ MountDropsStale(n) \/ MountBegins(n) \/ MountVets(n) \/ MountGivesUp(n)
    \/ MountStarts(n) \/ MountFails(n) \/ MountRegisters(n)

Unmounting(n) ==
    \/ UnmountBegins(n) \/ UnmountStops(n) \/ UnmountKillFails(n) \/ UnmountSkipsSeal(n)
    \/ SealOpens(n) \/ SealCloses(n) \/ SealFails(n) \/ UnmountEnds(n) \/ UnmountReaps(n)
    \/ AbandonBegins(n) \/ AbandonEnds(n)

Restarting(n) ==
    \/ DaemonStops(n) \/ DaemonStarts(n) \/ RecoverAdopts(n) \/ RecoverEnds(n)

Next ==
    \/ \E n \in Nodes : Mounting(n) \/ Unmounting(n) \/ OpenBegins(n) \/ OpenEnds(n)
                        \/ Restarting(n)
    \/ LeaseLost
    \/ \E g \in Gens : FenceLooksUp(g) \/ FenceEnds(g) \/ FenceKillFails(g)
    \/ \E k \in Pids : Write(k) \/ GuestLeaves(k) \/ NbdkitDies(k)

Spec == Init /\ [][Next]_vars

-----------------------------------------------------------------------------
(* Properties. *)

\* Some fence goroutine is on its way to the export of lease g.
Fencing(g) == \E f \in Gens : fence[f].pc \in {"due", "kill", "watch"} /\ who[f] = who[g]

\* A lease of node n was released twice: a fence and an unmount, an abandon or a
\* remount that worked on one entry each tore it down.
ReleasedTwice(n) == \E g \in Of(n) : refs[g] < 0

\* A running nbdkit is being mounted, or registered under a valid lease, or about
\* to be fenced.  The exceptions are the strays of a mount that failed, the
\* survivors recovery could not adopt, the export whose fence came before it
\* registered, and the export that a late teardown of its predecessor dropped.
WriterIsLeasedOrFenced ==
    \A k \in alive \ strays : daemon[at[k]] = "up" =>
        \/ mount[at[k]].pid = k
        \/ /\ entry[at[k]].pid = k
           /\ \/ holder = entry[at[k]].gen
              \/ Fencing(entry[at[k]].gen)
              \/ fence[entry[at[k]].gen].pc = "missed"
        \/ ReleasedTwice(at[k])

\* A valid lease is the one its node has in held, so that no open of the node can
\* displace it, as long as no lease of the node was released twice.
ValidLeaseIsHeld ==
    holder # 0 /\ ~ReleasedTwice(who[holder])
    => held[who[holder]] = holder /\ refs[holder] > 0

\* Writes the backend lacks, on the node whose copy counts, are never unmarked:
\* the marker names that node from before its first write to its seal, whoever
\* fenced, abandoned, sealed or reopened the volume in between.  Adopted exports,
\* strays and exports that a late teardown dropped write without a marker.
UnsealedWritesMarked ==
    \A n \in Nodes : local[n] = "current" /\ n \notin unmarked => marker.owner = n

\* The unsealed writes of a node that still heartbeats are never opened over by an
\* open that could read the marker: the open would start from the backend's
\* checkpoint, which lacks them.
LiveWritesSurvive == discarded = {}

\* fenceVolume: "an export left up is a second writer".  A registered export has
\* a valid lease or a fence on its way.
LostExportIsFenced ==
    \A n \in Nodes :
        entry[n] # None => holder = entry[n].gen \/ Fencing(entry[n].gen)

\* finishTeardown: "every line of it assumes the process has exited".  A running
\* nbdkit that was registered stays registered: what a teardown removes is the
\* entry of the process it saw exit.
TeardownSparesTheRunning ==
    \A k \in alive \ strays :
        daemon[at[k]] = "up" => mount[at[k]].pid = k \/ entry[at[k]].pid = k

\* docs/COMMANDS.md on the markers: "the list of volumes where that would cost
\* something", that is, a start elsewhere.  A marker names a node that is using
\* the volume or holds writes of it; no open that came to nothing leaves one.
MarkerMeansUnsealed ==
    \A n \in Nodes : marker.owner = n /\ daemon[n] = "up" =>
        \/ local[n] # "none" \/ entry[n] # None
        \/ mount[n] # Idle \/ stop[n] # Idle \/ open[n] # 0 \/ Survivors(n) # {}
=============================================================================
