--------------------------- MODULE VolumeExportProofs ---------------------------
(***************************************************************************)
(* The proofs about VolumeExport, for any nodes and any number of leases,  *)
(* nbdkit processes and daemon exits: its type invariant and that a valid  *)
(* lease is the one its node holds (ValidLeaseIsHeld); and, where the      *)
(* handlers of one node do not overlap, that a running nbdkit is leased or *)
(* about to be fenced (WriterIsLeasedOrFenced), that unsealed writes are   *)
(* marked (UnsealedWritesMarked), and that no open discards those of a     *)
(* live node (LiveWritesSurvive).                                          *)
(***************************************************************************)
EXTENDS VolumeExport, TLAPS

USE ExportAssumption

-----------------------------------------------------------------------------
(* The inductive invariant. *)

\* The lease: generations are granted in order and only the last may be valid;
\* a node holds the lease it has references to, unless one was released twice.
LeaseInv ==
    /\ \A g \in Gens : who[g] \in Nodes <=> g <= epoch
    /\ holder \in {0, epoch} /\ opener <= epoch
    /\ holder # 0 => refs[holder] > 0
    /\ \A n \in Nodes : held[n] # 0 => who[held[n]] = n
    /\ \A n \in Nodes : ~ReleasedTwice(n) => \A g \in Of(n) : refs[g] > 0 <=> held[n] = g

\* The lease a handler works under belongs to its node.
Owned(n, g) == g = 0 \/ g \in Of(n)

OwnInv(n) ==
    /\ Owned(n, entry[n].gen) /\ Owned(n, mount[n].gen) /\ Owned(n, open[n])
    /\ Owned(n, stop[n].gen) /\ Owned(n, stop[n].seal)

FenceInv ==
    \A f \in Gens :
        /\ fence[f].pc # "none" => who[f] \in Nodes
        /\ fence[f].pc \in {"kill", "watch"} => fence[f].gen # 0 /\ Owned(who[f], fence[f].gen)

\* What a handler's stage says about its fields.
StageInv(n) ==
    /\ entry[n] # None => entry[n].gen # 0
    /\ mount[n].pc = "idle" => mount[n] = Idle
    /\ mount[n].pc # "idle" => mount[n].gen # 0 /\ entry[n] = None
    /\ mount[n].pc \in {"leased", "built"} => mount[n].pid = 0
    /\ stop[n].pc = "idle" => stop[n] = Idle
    /\ stop[n].pc # "idle" => stop[n].gen # 0
    /\ stop[n].seal # 0 <=> stop[n].pc = "sealing"
    /\ daemon[n] # "up" => /\ entry[n] = None /\ stop[n] = Idle /\ open[n] = 0
                           /\ mount[n].pc \in {"idle", "started"}
    /\ daemon[n] = "down" => mount[n] = Idle

\* A process has a place once it was started, and never runs again.
PlaceInv == \A k \in alive : at[k] \in Nodes

ProcInv(n) ==
    /\ mount[n].pc = "started" => mount[n].pid \in Pids /\ at[mount[n].pid] = n
    /\ entry[n] # None => entry[n].pid \in Pids /\ at[entry[n].pid] = n
    /\ stop[n].pc # "idle" => stop[n].pid \in Pids /\ at[stop[n].pid] = n
    /\ stop[n].pc \in {"dead", "sealing", "sealed"} => stop[n].pid \notin alive

\* Handlers that do not overlap: one at a time, and an unmount or abandon works
\* on the entry it began with or finds it gone.
SerialInv(n) ==
    /\ mount[n] # Idle => stop[n] = Idle /\ open[n] = 0
    /\ open[n] # 0 => stop[n] = Idle /\ entry[n] = None
    /\ stop[n] # Idle => entry[n] \in {None, [pid |-> stop[n].pid, gen |-> stop[n].gen]}
    /\ mount[n] # Idle => \A g \in Of(n) : g <= mount[n].gen

\* The references to lease g.
One(b) == IF b THEN 1 ELSE 0
Uses(n, g) ==
    One(entry[n].gen = g) + One(mount[n].gen = g) + One(stop[n].seal = g) + One(open[n] = g)

\* As long as no lease was released twice, a lease has no more references than
\* are in use, the entry and the mount have theirs, and a fence works on the
\* entry it looked up or on a lease that nothing uses but a seal.
CountInv(n) == \A g \in Of(n) : refs[g] <= Uses(n, g)
EntryRef(n) == entry[n] # None => refs[entry[n].gen] >= 1 + One(stop[n].seal # 0)
MountRef(n) == mount[n] # Idle => refs[mount[n].gen] >= 1
FenceRef(n) ==
    \A f \in Of(n) : fence[f].pc \in {"kill", "watch"} =>
        \/ entry[n] = [pid |-> fence[f].pid, gen |-> fence[f].gen]
        \/ fence[f].gen \notin {entry[n].gen, mount[n].gen, open[n]}

RefInv(n) == ~ReleasedTwice(n) => CountInv(n) /\ EntryRef(n) /\ MountRef(n) /\ FenceRef(n)

\* As long as no lease was released twice, every process is known or a stray.
KnownInv(n) ==
    /\ daemon[n] = "up" /\ ~ReleasedTwice(n) => Untracked(n) \subseteq strays
    /\ daemon[n] = "recover" /\ mount[n] # Idle => Survivors(n) \subseteq strays \cup {mount[n].pid}

\* A fence goroutine is on its way to the export of node n.
Fenced(n) == \E f \in Of(n) : fence[f].pc \in {"due", "kill", "watch"}

\* An export is leased, to be fenced, or the one whose fence came too early.
LeasedInv(n) ==
    ~ReleasedTwice(n) =>
        /\ entry[n] # None =>
             holder = entry[n].gen \/ Fenced(n) \/ fence[entry[n].gen].pc = "missed"
        /\ mount[n] # Idle =>
             holder = mount[n].gen \/ fence[mount[n].gen].pc \in {"due", "missed"}

\* Node n holds unsealed writes or may get some from a process it knows.
Engaged(n) ==
    \/ local[n] = "current"
    \/ mount[n].pc \in {"built", "started"}
    \/ ~(Survivors(n) \subseteq strays \cup Untracked(n))

\* Exports, and mounts past the marker, are opens.
OpenedInv(n) ==
    /\ entry[n].gen <= opener /\ stop[n].gen <= opener
    /\ mount[n].pc \in {"built", "started"} => mount[n].gen <= opener

\* Once the node whose copy counts is engaged, the marker names it, at the lease
\* of the latest open or above, so that no mark under an older one replaces it.
MarkInv(n) ==
    /\ local[n] = "current" => opener \in Of(n)
    /\ Engaged(n) /\ opener \in Of(n) /\ n \notin unmarked =>
         marker.owner = n /\ marker.gen >= opener

IInv ==
    /\ TypeOK /\ PlaceInv /\ LeaseInv /\ FenceInv /\ discarded = {}
    /\ \A n \in Nodes :
         /\ OwnInv(n) /\ StageInv(n) /\ ProcInv(n) /\ SerialInv(n)
         /\ RefInv(n) /\ KnownInv(n) /\ LeasedInv(n) /\ OpenedInv(n) /\ MarkInv(n)

-----------------------------------------------------------------------------
(* Every step keeps the type invariant. *)

LEMMA ReleaseType ==
    ASSUME TypeOK, NEW g \in 0 .. MaxGen, Release(g)
    PROVE  /\ holder' \in 0 .. MaxGen
           /\ refs' \in [Gens -> Int]
           /\ held' \in [Nodes -> 0 .. MaxGen]
    <1>1. CASE g = 0
        BY <1>1 DEF Release, TypeOK
    <1>2. CASE g # 0
        <2>1. g \in Gens
            BY <1>2 DEF Gens
        <2>2. refs' \in [Gens -> Int]
            BY <1>2, <2>1 DEF Release, TypeOK
        <2>3. holder' \in {holder, 0} /\ (held' = held \/ held' = [held EXCEPT ![who[g]] = 0])
            BY <1>2 DEF Release
        <2> QED BY <2>2, <2>3 DEF TypeOK
    <1> QED BY <1>1, <1>2

LEMMA AcquireType ==
    ASSUME TypeOK, NEW n \in Nodes, NEW g \in Gens, Acquire(n, g)
    PROVE  /\ holder' \in 0 .. MaxGen /\ epoch' \in 0 .. MaxGen
           /\ who' \in [Gens -> Nodes \cup {NoNode}]
           /\ refs' \in [Gens -> Int]
           /\ held' \in [Nodes -> 0 .. MaxGen]
           /\ fence' \in [Gens -> Fence]
    <1>1. CASE held[n] # 0
        BY <1>1 DEF Acquire, TypeOK
    <1>2. CASE held[n] = 0
        <2>1. /\ holder' = g /\ epoch' = g
              /\ who' = [who EXCEPT ![g] = n]
              /\ refs' = [refs EXCEPT ![g] = 1]
              /\ held' = [held EXCEPT ![n] = g]
            BY <1>2 DEF Acquire
        <2>2. \/ fence' = fence
              \/ holder \in Gens /\ fence' = [fence EXCEPT ![holder].pc = "due"]
            BY <1>2 DEF Acquire, TypeOK, Gens
        <2>3. g \in 0 .. MaxGen
            BY DEF Gens
        <2>4. fence' \in [Gens -> Fence]
            BY <2>2 DEF TypeOK, Fence
        <2>5. refs' \in [Gens -> Int]
            BY <2>1 DEF TypeOK
        <2> QED BY <2>1, <2>3, <2>4, <2>5 DEF TypeOK
    <1> QED BY <1>1, <1>2

LEMMA VetType ==
    ASSUME TypeOK, NEW n \in Nodes, NEW g \in 0 .. MaxGen, Vet(n, g)
    PROVE  /\ marker' \in Mark
           /\ unmarked' \subseteq Nodes /\ discarded' \subseteq Nodes
           /\ opener' \in 0 .. MaxGen
           /\ local' \in [Nodes -> {"none", "current", "superseded"}]
    <1>1. marker' = [owner |-> n, gen |-> g] /\ unmarked' = unmarked \ {n} /\ Supersede(n, g)
        BY DEF Vet
    <1>2. discarded' \subseteq Nodes
        BY DEF Vet, TypeOK
    <1>3. /\ opener' \in 0 .. MaxGen
          /\ local' \in [Nodes -> {"none", "current", "superseded"}]
        BY <1>1 DEF Supersede, TypeOK
    <1> QED BY <1>1, <1>2, <1>3 DEF TypeOK, Mark

LEMMA SupersedeType ==
    ASSUME TypeOK, NEW n \in Nodes, NEW g \in 0 .. MaxGen, Supersede(n, g)
    PROVE  /\ opener' \in 0 .. MaxGen
           /\ local' \in [Nodes -> {"none", "current", "superseded"}]
    BY DEF Supersede, TypeOK

LEMMA ClearType ==
    ASSUME TypeOK, NEW n \in Nodes, NEW g \in 0 .. MaxGen, Clear(n, g) \/ MarkFailedSeal(n, g)
    PROVE  marker' \in Mark
    <1>1. marker \in Mark /\ NoMark \in Mark /\ [owner |-> n, gen |-> g] \in Mark
        BY DEF TypeOK, Mark, NoMark
    <1> QED BY <1>1 DEF Clear, MarkFailedSeal

LEMMA MountType ==
    ASSUME TypeOK, NEW n \in Nodes, Mounting(n)
    PROVE  TypeOK'
    <1> USE DEF Idle, None
    <1>1. CASE MountDropsStale(n)
        <2>1. entry[n].gen \in 0 .. MaxGen /\ Release(entry[n].gen)
            BY <1>1 DEF MountDropsStale, TypeOK, Export
        <2>2. entry' \in [Nodes -> Export]
            BY <1>1 DEF MountDropsStale, TypeOK, Export
        <2> QED BY <1>1, <2>1, <2>2, ReleaseType
                DEF MountDropsStale, TypeOK, procs, handlers, host, data, history
    <1>2. CASE MountBegins(n)
        <2>1. PICK g \in Gens :
                  /\ Acquire(n, g)
                  /\ mount' = [mount EXCEPT ![n] = [pc |-> "leased", pid |-> 0, gen |-> g, seal |-> 0]]
            BY <1>2 DEF MountBegins
        <2>2. mount' \in [Nodes -> Mount]
            BY <2>1 DEF TypeOK, Gens, Mount
        <2> QED BY <1>2, <2>1, <2>2, AcquireType DEF MountBegins, TypeOK, procs, host, history
    <1>3. CASE MountVets(n)
        <2>1. mount[n].gen \in 0 .. MaxGen /\ Vet(n, mount[n].gen)
            BY <1>3 DEF MountVets, TypeOK, Mount
        <2>2. mount' \in [Nodes -> Mount]
            BY <1>3 DEF MountVets, TypeOK, Mount
        <2> QED BY <1>3, <2>1, <2>2, VetType DEF MountVets, TypeOK, lease, procs, host
    <1>4. CASE MountGivesUp(n) \/ MountFails(n)
        <2>1. mount[n].gen \in 0 .. MaxGen /\ Release(mount[n].gen)
            BY <1>4 DEF MountGivesUp, MountFails, TypeOK, Mount
        <2>2. mount' \in [Nodes -> Mount]
            <3>1. mount' = [mount EXCEPT ![n] = Idle] /\ Idle \in Mount
                BY <1>4 DEF MountGivesUp, MountFails, Mount
            <3> QED BY <3>1 DEF TypeOK
        <2>3. strays' \subseteq Pids
            BY <1>4 DEF MountGivesUp, MountFails, TypeOK, history
        <2> QED BY <1>4, <2>1, <2>2, <2>3, ReleaseType
                DEF MountGivesUp, MountFails, TypeOK, procs, host, data, history
    <1>5. CASE MountStarts(n)
        <2>1. PICK k \in Pids :
                  /\ alive' = alive \cup {k} /\ at' = [at EXCEPT ![k] = n]
                  /\ mount' = [mount EXCEPT ![n].pc = "started", ![n].pid = k]
            BY <1>5 DEF MountStarts
        <2>2. mount' \in [Nodes -> Mount]
            <3>0. k \in 0 .. MaxPid /\ mount[n] \in Mount
                BY DEF TypeOK, Pids
            <3>1. PICK m \in Mount : m = [mount[n] EXCEPT !.pc = "started", !.pid = k]
                BY <3>0 DEF Mount
            <3>2. mount' = [mount EXCEPT ![n] = m]
                BY <2>1, <3>1 DEF TypeOK
            <3> QED BY <3>2 DEF TypeOK
        <2> QED BY <1>5, <2>1, <2>2 DEF MountStarts, TypeOK, lease, host, data, history
    <1>6. CASE MountRegisters(n)
        BY <1>6 DEF MountRegisters, TypeOK, Mount, Export, lease, procs, data, history
    <1> QED BY <1>1, <1>2, <1>3, <1>4, <1>5, <1>6 DEF Mounting

LEMMA KillType ==
    ASSUME TypeOK, NEW pids, Kill(pids)
    PROVE  alive' \subseteq Pids /\ client' \subseteq alive'
    BY DEF Kill, TypeOK

LEMMA CloseType ==
    ASSUME TypeOK, PlaceInv, NEW k, PluginCloses(k)
    PROVE  local' \in [Nodes -> {"none", "current", "superseded"}] /\ receipt' \subseteq Nodes
    <1>1. CASE UNCHANGED <<local, receipt>>
        BY <1>1 DEF TypeOK
    <1>2. CASE ~UNCHANGED <<local, receipt>>
        <2>1. PICK m : /\ m = at[k] /\ k \in client
                       /\ local' = [local EXCEPT ![m] = "none"]
                       /\ receipt' = receipt \cup {m}
            BY <1>2 DEF PluginCloses
        <2>2. m \in Nodes
            BY <2>1 DEF TypeOK, PlaceInv
        <2> QED BY <2>1, <2>2 DEF TypeOK
    <1> QED BY <1>1, <1>2

LEMMA StopType ==
    ASSUME TypeOK, PlaceInv, NEW n \in Nodes, Unmounting(n)
    PROVE  TypeOK'
    <1>0. Idle \in Stop /\ None \in Export /\ stop[n] \in Stop /\ entry[n] \in Export
        BY DEF Stop, Export, TypeOK, Idle, None
    <1>1. CASE UnmountBegins(n) \/ AbandonBegins(n)
        <2>1. PICK pc \in {"stopping", "abandon"} :
                  stop' = [stop EXCEPT ![n] = [Idle EXCEPT !.pc = pc, !.pid = entry[n].pid,
                                                           !.gen = entry[n].gen]]
            BY <1>1 DEF UnmountBegins, AbandonBegins
        <2>2. PICK pid \in 0 .. MaxPid, gen \in 0 .. MaxGen : pid = entry[n].pid /\ gen = entry[n].gen
            BY <1>0 DEF Export
        <2>3. [Idle EXCEPT !.pc = pc, !.pid = pid, !.gen = gen] \in Stop
            BY <1>0 DEF Stop
        <2>4. stop' \in [Nodes -> Stop]
            BY <2>1, <2>2, <2>3 DEF TypeOK
        <2> QED BY <1>1, <2>4
                DEF UnmountBegins, AbandonBegins, TypeOK, lease, procs, host, data, history
    <1>2. CASE UnmountStops(n)
        <2>1. stop' \in [Nodes -> Stop]
            BY <1>2 DEF UnmountStops, TypeOK, Stop
        <2>2. alive' \subseteq Pids /\ client' \subseteq alive'
            BY <1>2, KillType DEF UnmountStops
        <2>3. local' \in [Nodes -> {"none", "current", "superseded"}] /\ receipt' \subseteq Nodes
            BY <1>2, CloseType DEF UnmountStops
        <2> QED BY <1>2, <2>1, <2>2, <2>3 DEF UnmountStops, TypeOK, lease, host, history
    <1>3. CASE UnmountKillFails(n)
        BY <1>0, <1>3 DEF UnmountKillFails, TypeOK, lease, procs, host, data, history
    <1>4. CASE UnmountSkipsSeal(n)
        <2>1. stop' \in [Nodes -> Stop]
            BY <1>4 DEF UnmountSkipsSeal, TypeOK, Stop
        <2>2. marker' \in Mark
            <3>1. stop[n].gen \in 0 .. MaxGen
                BY <1>0 DEF Stop
            <3> QED BY <1>4, <3>1, ClearType DEF UnmountSkipsSeal, TypeOK
        <2> QED BY <1>4, <2>1, <2>2 DEF UnmountSkipsSeal, TypeOK, lease, procs, host, history
    <1>5. CASE SealOpens(n)
        <2>1. PICK g \in Gens : /\ Acquire(n, g) /\ Vet(n, g)
                                /\ stop' = [stop EXCEPT ![n].pc = "sealing", ![n].seal = g]
            BY <1>5 DEF SealOpens
        <2>2. g \in 0 .. MaxGen
            BY DEF Gens
        <2>3. stop' \in [Nodes -> Stop]
            <3>1. PICK s \in Stop : s = [stop[n] EXCEPT !.pc = "sealing", !.seal = g]
                BY <1>0, <2>2 DEF Stop
            <3>2. stop' = [stop EXCEPT ![n] = s]
                BY <2>1, <3>1 DEF TypeOK
            <3> QED BY <3>2 DEF TypeOK
        <2>4. /\ marker' \in Mark
              /\ unmarked' \subseteq Nodes /\ discarded' \subseteq Nodes
              /\ opener' \in 0 .. MaxGen
              /\ local' \in [Nodes -> {"none", "current", "superseded"}]
            BY <2>1, <2>2, VetType
        <2> QED BY <1>5, <2>1, <2>3, <2>4, AcquireType
                DEF SealOpens, TypeOK, procs, host
    <1>6. CASE SealCloses(n)
        <2>1. stop[n].gen \in 0 .. MaxGen /\ stop[n].seal \in 0 .. MaxGen
            BY <1>0 DEF Stop
        <2>2. stop' \in [Nodes -> Stop]
            <3>0. 0 \in 0 .. MaxGen
                OBVIOUS
            <3>1. PICK s \in Stop : s = [stop[n] EXCEPT !.pc = "sealed", !.seal = 0]
                BY <1>0, <3>0 DEF Stop
            <3>2. stop' = [stop EXCEPT ![n] = s]
                BY <1>6, <3>1 DEF SealCloses, TypeOK
            <3> QED BY <3>2 DEF TypeOK
        <2>3. marker' \in Mark
            BY <1>6, <2>1, ClearType DEF SealCloses
        <2>4. /\ holder' \in 0 .. MaxGen
              /\ refs' \in [Gens -> Int]
              /\ held' \in [Nodes -> 0 .. MaxGen]
            BY <1>6, <2>1, ReleaseType DEF SealCloses
        <2> QED BY <1>6, <2>2, <2>3, <2>4 DEF SealCloses, TypeOK, procs, host, history
    <1>7. CASE SealFails(n)
        <2>1. stop[n].gen \in 0 .. MaxGen /\ stop[n].seal \in 0 .. MaxGen
            BY <1>0 DEF Stop
        <2>2. marker' \in Mark
            BY <1>7, <2>1, ClearType DEF SealFails
        <2>3. /\ holder' \in 0 .. MaxGen
              /\ refs' \in [Gens -> Int]
              /\ held' \in [Nodes -> 0 .. MaxGen]
            BY <1>7, <2>1, ReleaseType DEF SealFails
        <2> QED BY <1>0, <1>7, <2>2, <2>3 DEF SealFails, TypeOK, procs, host, data, history
    <1>8. CASE UnmountEnds(n) \/ AbandonEnds(n)
        <2>1. stop[n].gen \in 0 .. MaxGen
            BY <1>0 DEF Stop
        <2>2. /\ holder' \in 0 .. MaxGen
              /\ refs' \in [Gens -> Int]
              /\ held' \in [Nodes -> 0 .. MaxGen]
            BY <1>8, <2>1, ReleaseType DEF UnmountEnds, AbandonEnds
        <2>3. alive' \subseteq Pids /\ client' \subseteq alive' /\ at' = at
            BY <1>8, KillType DEF UnmountEnds, AbandonEnds, TypeOK, procs
        <2> QED BY <1>0, <1>8, <2>2, <2>3
                DEF UnmountEnds, AbandonEnds, TypeOK, host, data, history
    <1>9. CASE UnmountReaps(n)
        <2>1. alive' \subseteq Pids /\ client' \subseteq alive'
            BY <1>9, KillType DEF UnmountReaps
        <2> QED BY <1>9, <2>1 DEF UnmountReaps, TypeOK, lease, handlers, host, data, history
    <1> QED BY <1>1, <1>2, <1>3, <1>4, <1>5, <1>6, <1>7, <1>8, <1>9 DEF Unmounting

LEMMA OpenType ==
    ASSUME TypeOK, NEW n \in Nodes, OpenBegins(n) \/ OpenEnds(n)
    PROVE  TypeOK'
    <1>1. CASE OpenBegins(n)
        <2>1. PICK g \in Gens : /\ Acquire(n, g) /\ Vet(n, g)
                                /\ open' = [open EXCEPT ![n] = g]
            BY <1>1 DEF OpenBegins
        <2>2. g \in 0 .. MaxGen
            BY DEF Gens
        <2>3. /\ marker' \in Mark
              /\ unmarked' \subseteq Nodes /\ discarded' \subseteq Nodes
              /\ opener' \in 0 .. MaxGen
              /\ local' \in [Nodes -> {"none", "current", "superseded"}]
            BY <2>1, <2>2, VetType
        <2> QED BY <1>1, <2>1, <2>2, <2>3, AcquireType
                DEF OpenBegins, TypeOK, procs, host
    <1>2. CASE OpenEnds(n)
        <2>1. open[n] \in 0 .. MaxGen
            BY DEF TypeOK
        <2>2. /\ holder' \in 0 .. MaxGen
              /\ refs' \in [Gens -> Int]
              /\ held' \in [Nodes -> 0 .. MaxGen]
            BY <1>2, <2>1, ReleaseType DEF OpenEnds
        <2>3. local' \in [Nodes -> {"none", "current", "superseded"}]
            BY <1>2 DEF OpenEnds, TypeOK
        <2>4. open' \in [Nodes -> 0 .. MaxGen]
            BY <1>2 DEF OpenEnds, TypeOK
        <2> QED BY <1>2, <2>2, <2>3, <2>4 DEF OpenEnds, TypeOK, procs, host, history
    <1> QED BY <1>1, <1>2

LEMMA FenceType ==
    ASSUME TypeOK, FenceInv,
           \/ LeaseLost
           \/ \E g \in Gens : FenceLooksUp(g) \/ FenceEnds(g) \/ FenceKillFails(g)
    PROVE  TypeOK'
    <1>1. CASE LeaseLost
        <2>1. holder \in Gens
            BY <1>1 DEF LeaseLost, TypeOK, Gens
        <2>2. fence' \in [Gens -> Fence]
            BY <1>1, <2>1 DEF LeaseLost, TypeOK, Fence
        <2> QED BY <1>1, <2>2 DEF LeaseLost, TypeOK, procs, host, data, history
    <1>2. ASSUME NEW g \in Gens, FenceLooksUp(g)
          PROVE  TypeOK'
        <2>1. PICK w \in Fence : fence' = [fence EXCEPT ![g] = w]
            <3>1. CASE entry[who[g]] = None
                <4>1. PICK pc \in {"none", "missed"} :
                          fence' = [fence EXCEPT ![g] = [Quiet EXCEPT !.pc = pc]]
                    BY <1>2, <3>1 DEF FenceLooksUp
                <4>2. [Quiet EXCEPT !.pc = pc] \in Fence
                    BY DEF Quiet, Fence
                <4> QED BY <4>1, <4>2
            <3>2. CASE entry[who[g]] # None
                <4>0. who[g] \in Nodes
                    BY <1>2 DEF FenceLooksUp, FenceInv
                <4>1. PICK e \in Export : e = entry[who[g]]
                    BY <4>0 DEF TypeOK
                <4>2. [pc |-> "kill", pid |-> e.pid, gen |-> e.gen] \in Fence
                    BY DEF Export, Fence
                <4> QED BY <1>2, <3>2, <4>1, <4>2 DEF FenceLooksUp
            <3> QED BY <3>1, <3>2
        <2> QED BY <1>2, <2>1 DEF FenceLooksUp, TypeOK, lease, procs, host, data, history
    <1>3. ASSUME NEW g \in Gens, FenceEnds(g)
          PROVE  TypeOK'
        <2>1. fence[g].gen \in 0 .. MaxGen /\ Quiet \in Fence /\ None \in Export
            BY DEF TypeOK, Fence, Quiet, Export, None
        <2>2. /\ holder' \in 0 .. MaxGen
              /\ refs' \in [Gens -> Int]
              /\ held' \in [Nodes -> 0 .. MaxGen]
            BY <1>3, <2>1, ReleaseType DEF FenceEnds
        <2>3. alive' \subseteq Pids /\ client' \subseteq alive'
            BY <1>3, KillType DEF FenceEnds
        <2> QED BY <1>3, <2>1, <2>2, <2>3 DEF FenceEnds, TypeOK, host, data, history
    <1>4. ASSUME NEW g \in Gens, FenceKillFails(g)
          PROVE  TypeOK'
        <2>1. fence' \in [Gens -> Fence]
            BY <1>4 DEF FenceKillFails, TypeOK, Fence
        <2> QED BY <1>4, <2>1 DEF FenceKillFails, TypeOK, lease, procs, host, data, history
    <1> QED BY <1>1, <1>2, <1>3, <1>4

LEMMA ProcType ==
    ASSUME TypeOK, PlaceInv, NEW k \in Pids, Write(k) \/ GuestLeaves(k) \/ NbdkitDies(k)
    PROVE  TypeOK'
    <1>1. CASE Write(k)
        <2>1. k \in alive /\ at[k] \in Nodes
            BY <1>1 DEF Write, TypeOK, PlaceInv
        <2>2. local' \in [Nodes -> {"none", "current", "superseded"}]
            BY <1>1, <2>1 DEF Write, TypeOK
        <2>3. client' \subseteq alive /\ receipt' \subseteq Nodes /\ unmarked' \subseteq Nodes
            BY <1>1, <2>1 DEF Write, TypeOK
        <2> QED BY <1>1, <2>2, <2>3 DEF Write, TypeOK, lease, handlers, host
    <1>2. CASE GuestLeaves(k)
        <2>1. local' \in [Nodes -> {"none", "current", "superseded"}] /\ receipt' \subseteq Nodes
            BY <1>2, CloseType DEF GuestLeaves
        <2> QED BY <1>2, <2>1 DEF GuestLeaves, TypeOK, lease, handlers, host, history
    <1>3. CASE NbdkitDies(k)
        <2>1. alive' \subseteq Pids /\ client' \subseteq alive'
            BY <1>3, KillType DEF NbdkitDies
        <2> QED BY <1>3, <2>1 DEF NbdkitDies, TypeOK, lease, handlers, host, data, history
    <1> QED BY <1>1, <1>2, <1>3

LEMMA RestartType ==
    ASSUME TypeOK, NEW n \in Nodes, Restarting(n)
    PROVE  TypeOK'
    <1>0. /\ Idle \in Stop /\ Idle \in Mount /\ None \in Export /\ Quiet \in Fence
          /\ 0 \in 0 .. MaxGen
        BY DEF Stop, Mount, Export, Fence, Idle, None, Quiet
    <1>1. CASE DaemonStops(n)
        <2>1. alive' \subseteq Pids /\ client' \subseteq alive'
            BY <1>1, KillType DEF DaemonStops
        <2>2. entry' \in [Nodes -> Export] /\ mount' \in [Nodes -> Mount] /\ stop' \in [Nodes -> Stop]
            BY <1>0, <1>1 DEF DaemonStops, TypeOK
        <2>3. open' \in [Nodes -> 0 .. MaxGen] /\ held' \in [Nodes -> 0 .. MaxGen]
            BY <1>0, <1>1 DEF DaemonStops, TypeOK
        <2>4. holder' \in 0 .. MaxGen
            BY <1>0, <1>1 DEF DaemonStops, TypeOK
        <2>5. refs' \in [Gens -> Int]
            BY <1>1 DEF DaemonStops, TypeOK
        <2>6. fence' \in [Gens -> Fence]
            BY <1>0, <1>1 DEF DaemonStops, TypeOK
        <2>7. strays' \subseteq Pids
            BY <1>1 DEF DaemonStops, TypeOK, Untracked, Survivors
        <2>8. stops' \in 0 .. MaxStops
            BY <1>1 DEF DaemonStops, TypeOK
        <2>9. daemon' \in [Nodes -> {"up", "down", "recover"}]
            BY <1>1 DEF DaemonStops, TypeOK
        <2> QED BY <1>1, <2>1, <2>2, <2>3, <2>4, <2>5, <2>6, <2>7, <2>8, <2>9
                DEF DaemonStops, TypeOK, data
    <1>2. CASE DaemonStarts(n)
        BY <1>2 DEF DaemonStarts, TypeOK, lease, procs, handlers, data, history
    <1>3. CASE RecoverAdopts(n)
        <2>1. PICK k \in Survivors(n), g \in Gens :
                  /\ Acquire(n, g)
                  /\ mount' = [mount EXCEPT ![n] = [Idle EXCEPT !.pc = "started", !.pid = k, !.gen = g]]
                  /\ Supersede(n, g)
                  /\ strays' = (strays \cup Survivors(n)) \ {k}
            BY <1>3 DEF RecoverAdopts
        <2>2. g \in 0 .. MaxGen /\ k \in 0 .. MaxPid
            BY DEF Gens, Survivors, TypeOK, Pids
        <2>3. [Idle EXCEPT !.pc = "started", !.pid = k, !.gen = g] \in Mount
            BY <2>2 DEF Mount, Idle
        <2>4. mount' \in [Nodes -> Mount]
            BY <2>1, <2>3 DEF TypeOK
        <2>5. strays' \subseteq Pids /\ unmarked' \subseteq Nodes
            BY <1>3, <2>1 DEF RecoverAdopts, Survivors, TypeOK
        <2>6. opener' \in 0 .. MaxGen /\ local' \in [Nodes -> {"none", "current", "superseded"}]
            BY <2>1, <2>2, SupersedeType
        <2> QED BY <1>3, <2>1, <2>4, <2>5, <2>6, AcquireType
                DEF RecoverAdopts, TypeOK, procs, host
    <1>4. CASE RecoverEnds(n)
        <2>1. alive' \subseteq Pids /\ client' \subseteq alive'
            BY <1>4, KillType DEF RecoverEnds
        <2>2. strays' \subseteq Pids
            BY <1>4 DEF RecoverEnds, Survivors, TypeOK
        <2> QED BY <1>4, <2>1, <2>2 DEF RecoverEnds, TypeOK, lease, handlers, data
    <1> QED BY <1>1, <1>2, <1>3, <1>4 DEF Restarting

LEMMA TypeStep ==
    ASSUME TypeOK, PlaceInv, FenceInv, Next
    PROVE  TypeOK'
    BY MountType, StopType, OpenType, FenceType, ProcType, RestartType DEF Next

-----------------------------------------------------------------------------
(* What acquiring and releasing a lease does. *)

\* A release that leaves no lease of the node released twice is one of the lease
\* the node holds, and the node has references to no other.
LEMMA ReleaseFacts ==
    ASSUME TypeOK, LeaseInv, NEW n \in Nodes, NEW g \in Of(n), Release(g), UNCHANGED <<epoch, who>>
    PROVE  /\ refs'[g] = refs[g] - 1
           /\ \A h \in Gens : h # g => refs'[h] = refs[h]
           /\ \A m \in Nodes : m # n => held'[m] = held[m]
           /\ holder' = holder \/ (holder' = 0 /\ holder = g /\ refs[g] <= 1)
           /\ \A m \in Nodes : m # n => (ReleasedTwice(m)' <=> ReleasedTwice(m))
           /\ ~ReleasedTwice(n)' =>
                /\ ~ReleasedTwice(n) /\ refs[g] >= 1 /\ held[n] = g
                /\ \A h \in Of(n) : h # g => refs[h] = 0
    <1>1. g \in Gens /\ who[g] = n /\ g # 0
        BY DEF Of, Gens
    <1>2. /\ refs' = [refs EXCEPT ![g] = @ - 1]
          /\ IF refs[g] > 1 THEN UNCHANGED <<holder, held>>
             ELSE /\ held' = [held EXCEPT ![who[g]] = 0]
                  /\ holder' = IF holder = g THEN 0 ELSE holder
        BY <1>1 DEF Release
    <1>3. refs'[g] = refs[g] - 1 /\ \A h \in Gens : h # g => refs'[h] = refs[h]
        BY <1>1, <1>2 DEF TypeOK
    <1>4. \A m \in Nodes : m # n => held'[m] = held[m]
        BY <1>1, <1>2 DEF TypeOK
    <1>5. refs[g] \in Int /\ \A h \in Gens : refs[h] \in Int
        BY <1>1 DEF TypeOK
    <1>6. holder' = holder \/ (holder' = 0 /\ holder = g /\ refs[g] <= 1)
        BY <1>2, <1>5
    <1>7. ASSUME NEW m \in Nodes, m # n PROVE ReleasedTwice(m)' <=> ReleasedTwice(m)
        BY <1>1, <1>3, <1>7 DEF ReleasedTwice, Of
    <1>8. ASSUME ~ReleasedTwice(n)'
          PROVE  /\ ~ReleasedTwice(n) /\ refs[g] >= 1 /\ held[n] = g
                 /\ \A h \in Of(n) : h # g => refs[h] = 0
        <2>1. \A h \in Of(n) : ~(refs'[h] < 0)
            BY <1>8 DEF ReleasedTwice, Of
        <2>2. refs[g] >= 1
            BY <1>3, <1>5, <2>1
        <2>3. \A h \in Of(n) : h # g => ~(refs[h] < 0)
            BY <1>3, <2>1 DEF Of
        <2>4. ~ReleasedTwice(n)
            BY <1>5, <2>2, <2>3 DEF ReleasedTwice
        <2>5. held[n] = g
            BY <1>5, <2>2, <2>4 DEF LeaseInv
        <2>6. ASSUME NEW h \in Of(n), h # g PROVE refs[h] = 0
            <3>1. ~(refs[h] > 0)
                BY <2>4, <2>5, <2>6 DEF LeaseInv
            <3> QED BY <1>5, <2>3, <2>6, <3>1 DEF Of
        <2> QED BY <2>2, <2>4, <2>5, <2>6
    <1> QED BY <1>3, <1>4, <1>6, <1>7, <1>8

LEMMA ReleaseLease ==
    ASSUME TypeOK, LeaseInv, NEW n \in Nodes, NEW g \in Of(n), Release(g),
           UNCHANGED <<epoch, who, opener>>
    PROVE  LeaseInv'
    <1>1. g \in Gens /\ who[g] = n /\ g # 0 /\ refs[g] \in Int
        BY DEF Of, Gens, TypeOK
    <1>2. /\ refs' = [refs EXCEPT ![g] = @ - 1]
          /\ IF refs[g] > 1 THEN UNCHANGED <<holder, held>>
             ELSE /\ held' = [held EXCEPT ![who[g]] = 0]
                  /\ holder' = IF holder = g THEN 0 ELSE holder
        BY <1>1 DEF Release
    <1>3. refs'[g] = refs[g] - 1 /\ \A h \in Gens : h # g => refs'[h] = refs[h]
        BY <1>1, <1>2 DEF TypeOK
    <1>4. (\A h \in Gens : who[h] \in Nodes <=> h <= epoch)' /\ (holder \in {0, epoch} /\ opener <= epoch)'
        BY <1>2 DEF LeaseInv
    <1>5. (holder # 0 => refs[holder] > 0)'
        <2>1. CASE holder = g
            BY <1>1, <1>2, <1>3, <2>1
        <2>2. CASE holder # g
            <3>1. holder' = holder /\ (holder # 0 => holder \in Gens)
                BY <1>2, <2>2 DEF TypeOK, Gens
            <3> QED BY <1>3, <2>2, <3>1 DEF LeaseInv
        <2> QED BY <2>1, <2>2
    <1>6. (\A m \in Nodes : held[m] # 0 => who[held[m]] = m)'
        BY <1>2 DEF LeaseInv, TypeOK
    <1>7. ASSUME NEW m \in Nodes, ~ReleasedTwice(m)', NEW h \in Of(m)
          PROVE  refs'[h] > 0 <=> held'[m] = h
        <2>1. CASE m # n
            <3>1. ~ReleasedTwice(m) /\ held'[m] = held[m] /\ h # g
                BY <1>1, <1>7, <2>1, ReleaseFacts DEF Of
            <3> QED BY <1>3, <3>1 DEF LeaseInv, Of
        <2>2. CASE m = n
            <3>1. refs[g] >= 1 /\ held[n] = g /\ (h # g => refs[h] = 0)
                BY <1>7, <2>2, ReleaseFacts
            <3>2. CASE h = g
                BY <1>1, <1>2, <1>3, <2>2, <3>1, <3>2 DEF TypeOK
            <3>3. CASE h # g
                <4>1. refs'[h] = 0 /\ h # 0
                    BY <1>3, <3>1, <3>3 DEF Of, Gens
                <4>2. held'[n] \in {0, g}
                    BY <1>1, <1>2, <3>1 DEF TypeOK
                <4> QED BY <2>2, <3>3, <4>1, <4>2
            <3> QED BY <3>2, <3>3
        <2> QED BY <2>1, <2>2
    <1>8. (\A m \in Nodes : ~ReleasedTwice(m) => \A h \in Of(m) : refs[h] > 0 <=> held[m] = h)'
        BY <1>7 DEF Of
    <1> QED BY <1>4, <1>5, <1>6, <1>8 DEF LeaseInv

\* An open shares the valid lease its node holds or is granted the next one.
LEMMA AcquireFacts ==
    ASSUME TypeOK, LeaseInv, NEW n \in Nodes, NEW g \in Gens, Acquire(n, g)
    PROVE  /\ who'[g] = n /\ \A h \in Gens : h # g => who'[h] = who[h]
           /\ \A h \in Gens : h # g => refs'[h] = refs[h]
           /\ holder' = g /\ epoch' = g /\ held'[n] = g /\ opener <= g /\ epoch <= g
           /\ \A m \in Nodes : m # n => held'[m] = held[m]
           /\ \/ who[g] = n /\ held[n] = g /\ holder = g /\ refs[g] > 0 /\ refs'[g] = refs[g] + 1
              \/ who[g] = NoNode /\ g = epoch + 1 /\ held[n] = 0 /\ refs'[g] = 1
           /\ \A f \in Gens : \/ fence'[f] = fence[f]
                              \/ /\ f = holder /\ f # g /\ who[f] = n
                                 /\ fence'[f] = [fence[f] EXCEPT !.pc = "due"]
           /\ \A m \in Nodes : ReleasedTwice(m)' <=> ReleasedTwice(m)
    <1>0. epoch \in Int /\ opener \in Int /\ g \in Int /\ \A h \in Gens : refs[h] \in Int
        BY DEF TypeOK, Gens
    <1>1. CASE held[n] # 0
        <2>1. /\ g = held[n] /\ holder = g /\ UNCHANGED <<holder, epoch, who, held, fence>>
              /\ refs' = [refs EXCEPT ![g] = @ + 1]
            BY <1>1 DEF Acquire
        <2>2. who[g] = n /\ refs[g] > 0 /\ epoch = g /\ opener <= g
            BY <1>1, <2>1 DEF LeaseInv
        <2>3. refs'[g] = refs[g] + 1 /\ \A h \in Gens : h # g => refs'[h] = refs[h]
            BY <2>1 DEF TypeOK
        <2>4. ASSUME NEW m \in Nodes PROVE ReleasedTwice(m)' <=> ReleasedTwice(m)
            <3>1. \A h \in Gens : refs'[h] < 0 <=> refs[h] < 0
                BY <1>0, <2>2, <2>3
            <3> QED BY <2>1, <3>1 DEF ReleasedTwice, Of
        <2> QED BY <1>0, <2>1, <2>2, <2>3, <2>4
    <1>2. CASE held[n] = 0
        <2>1. /\ holder \in {0} \cup Of(n)
              /\ g = epoch + 1 /\ holder' = g /\ epoch' = g
              /\ who' = [who EXCEPT ![g] = n]
              /\ refs' = [refs EXCEPT ![g] = 1]
              /\ held' = [held EXCEPT ![n] = g]
              /\ fence' = IF holder = 0 THEN fence ELSE [fence EXCEPT ![holder].pc = "due"]
            BY <1>2 DEF Acquire
        <2>2. ~(g <= epoch) /\ epoch <= g /\ opener <= g
            BY <1>0, <2>1 DEF LeaseInv
        <2>3. who[g] = NoNode
            BY <2>2 DEF LeaseInv, TypeOK
        <2>4. /\ who'[g] = n /\ refs'[g] = 1 /\ held'[n] = g
              /\ \A h \in Gens : h # g => who'[h] = who[h] /\ refs'[h] = refs[h]
              /\ \A m \in Nodes : m # n => held'[m] = held[m]
            BY <2>1 DEF TypeOK
        <2>5. ASSUME NEW f \in Gens
              PROVE  \/ fence'[f] = fence[f]
                     \/ /\ f = holder /\ f # g /\ who[f] = n
                        /\ fence'[f] = [fence[f] EXCEPT !.pc = "due"]
            <3>1. CASE holder = 0 \/ f # holder
                BY <2>1, <3>1 DEF TypeOK
            <3>2. CASE holder # 0 /\ f = holder
                <4>1. who[f] = n /\ fence'[f] = [fence[f] EXCEPT !.pc = "due"]
                    BY <2>1, <3>2 DEF TypeOK, Of
                <4> QED BY <2>3, <3>2, <4>1
            <3> QED BY <3>1, <3>2
        <2>6. ASSUME NEW m \in Nodes PROVE ReleasedTwice(m)' <=> ReleasedTwice(m)
            <3>1. \A h \in Gens : h # g => (h \in Of(m)' <=> h \in Of(m))
                BY <2>4 DEF Of
            <3>2. g \notin Of(m) /\ ~(refs'[g] < 0)
                BY <2>3, <2>4 DEF Of
            <3> QED BY <2>4, <3>1, <3>2 DEF ReleasedTwice, Of
        <2> QED BY <1>2, <2>1, <2>2, <2>3, <2>4, <2>5, <2>6
    <1> QED BY <1>1, <1>2

LEMMA AcquireLease ==
    ASSUME TypeOK, LeaseInv, NEW n \in Nodes, NEW g \in Gens, Acquire(n, g), opener' \in {opener, g}
    PROVE  LeaseInv'
    <1>0. epoch \in Int /\ opener \in Int /\ g \in Int /\ \A h \in Gens : refs[h] \in Int
        BY DEF TypeOK, Gens
    <1>1. /\ who'[g] = n /\ \A h \in Gens : h # g => who'[h] = who[h]
          /\ \A h \in Gens : h # g => refs'[h] = refs[h]
          /\ holder' = g /\ epoch' = g /\ held'[n] = g /\ opener <= g /\ epoch <= g
          /\ \A m \in Nodes : m # n => held'[m] = held[m]
          /\ \A m \in Nodes : ReleasedTwice(m)' <=> ReleasedTwice(m)
          /\ \/ who[g] = n /\ held[n] = g /\ holder = g /\ refs[g] > 0 /\ refs'[g] = refs[g] + 1
             \/ who[g] = NoNode /\ g = epoch + 1 /\ held[n] = 0 /\ refs'[g] = 1
        BY AcquireFacts
    <1>2. refs'[g] > 0 /\ opener' <= g /\ g # 0
        BY <1>0, <1>1 DEF Gens
    <1>3. ASSUME NEW h \in Gens PROVE who'[h] \in Nodes <=> h <= g
        <2>1. h = g => h <= g
            BY <1>0
        <2>2. h # g => (h <= g <=> h <= epoch)
            <3>1. h \in Int
                BY DEF Gens
            <3>2. epoch = g \/ g = epoch + 1
                BY <1>0, <1>1 DEF LeaseInv
            <3> QED BY <1>0, <3>1, <3>2
        <2> QED BY <1>1, <2>1, <2>2 DEF LeaseInv
    <1>4. ASSUME NEW m \in Nodes, held'[m] # 0 PROVE who'[held'[m]] = m
        <2>1. CASE m = n
            BY <1>1, <2>1
        <2>2. CASE m # n
            <3>1. held'[m] = held[m] /\ who[held[m]] = m /\ held[m] \in Gens
                BY <1>1, <1>4, <2>2 DEF LeaseInv, TypeOK, Gens
            <3>2. held[m] # g
                BY <1>1, <2>2, <3>1
            <3> QED BY <1>1, <3>1, <3>2
        <2> QED BY <2>1, <2>2
    <1>5. ASSUME NEW m \in Nodes, ~ReleasedTwice(m)', NEW h \in Gens, who'[h] = m
          PROVE  refs'[h] > 0 <=> held'[m] = h
        <2>1. CASE h = g
            BY <1>1, <1>2, <1>5, <2>1
        <2>2. CASE h # g
            <3>1. refs'[h] = refs[h] /\ h \in Of(m) /\ (refs[h] > 0 <=> held[m] = h)
                BY <1>1, <1>5, <2>2 DEF LeaseInv, Of
            <3>2. CASE m = n
                BY <1>1, <2>2, <3>1, <3>2 DEF Gens
            <3>3. CASE m # n
                BY <1>1, <3>1, <3>3
            <3> QED BY <3>2, <3>3
        <2> QED BY <2>1, <2>2
    <1> QED BY <1>1, <1>2, <1>3, <1>4, <1>5 DEF LeaseInv, Of

-----------------------------------------------------------------------------
(* The part of the invariant that needs no assumption on the handlers. *)

Base ==
    /\ TypeOK /\ PlaceInv /\ LeaseInv /\ FenceInv
    /\ \A n \in Nodes : OwnInv(n) /\ StageInv(n) /\ ProcInv(n)

\* The steps that release a lease, those that acquire one, and the others that
\* leave the leases alone.
Releasing(n, g) ==
    \/ MountDropsStale(n) /\ g = entry[n].gen
    \/ (MountGivesUp(n) \/ MountFails(n)) /\ g = mount[n].gen
    \/ SealCloses(n) /\ g = stop[n].seal
    \/ SealFails(n) /\ g = stop[n].seal /\ g # 0
    \/ (UnmountEnds(n) \/ AbandonEnds(n)) /\ g = stop[n].gen
    \/ OpenEnds(n) /\ g = open[n]
    \/ \E f \in Of(n) : FenceEnds(f) /\ g = fence[f].gen

Acquiring(n) == MountBegins(n) \/ SealOpens(n) \/ OpenBegins(n) \/ RecoverAdopts(n)

Leaving(n) ==
    \/ MountVets(n) \/ MountStarts(n) \/ MountRegisters(n)
    \/ UnmountBegins(n) \/ AbandonBegins(n) \/ UnmountStops(n) \/ UnmountKillFails(n)
    \/ UnmountSkipsSeal(n) \/ UnmountReaps(n)
    \/ SealFails(n) /\ stop[n].seal = 0
    \/ DaemonStarts(n) \/ RecoverEnds(n)
    \/ \E f \in Of(n) : FenceLooksUp(f) \/ FenceKillFails(f)
    \/ \E k \in Survivors(n) : Write(k) \/ GuestLeaves(k) \/ NbdkitDies(k)

LEMMA Kinds ==
    ASSUME Base, Next
    PROVE  \/ \E n \in Nodes : \E g \in Of(n) : Releasing(n, g)
           \/ \E n \in Nodes : Acquiring(n) \/ Leaving(n) \/ DaemonStops(n)
           \/ LeaseLost
    <1> DEFINE Goal == \/ \E n \in Nodes : \E g \in Of(n) : Releasing(n, g)
                       \/ \E n \in Nodes : Acquiring(n) \/ Leaving(n) \/ DaemonStops(n)
                       \/ LeaseLost
    <1>1. ASSUME NEW n \in Nodes, Mounting(n) PROVE Goal
        <2>1. CASE MountDropsStale(n)
            <3>1. entry[n].gen \in Of(n)
                BY <2>1 DEF MountDropsStale, Base, StageInv, OwnInv, Owned
            <3> QED BY <2>1, <3>1 DEF Releasing
        <2>2. CASE MountGivesUp(n) \/ MountFails(n)
            <3>1. mount[n].gen \in Of(n)
                BY <2>2 DEF MountGivesUp, MountFails, Base, StageInv, OwnInv, Owned
            <3> QED BY <2>2, <3>1 DEF Releasing
        <2> QED BY <1>1, <2>1, <2>2 DEF Mounting, Acquiring, Leaving
    <1>2. ASSUME NEW n \in Nodes, Unmounting(n) PROVE Goal
        <2>1. CASE SealCloses(n) \/ (SealFails(n) /\ stop[n].seal # 0)
            <3>1. stop[n].seal \in Of(n) /\ stop[n].seal # 0
                BY <2>1 DEF SealCloses, Base, StageInv, OwnInv, Owned
            <3> QED BY <2>1, <3>1 DEF Releasing
        <2>2. CASE UnmountEnds(n) \/ AbandonEnds(n)
            <3>1. stop[n].gen \in Of(n)
                BY <2>2 DEF UnmountEnds, AbandonEnds, Base, StageInv, OwnInv, Owned
            <3> QED BY <2>2, <3>1 DEF Releasing
        <2> QED BY <1>2, <2>1, <2>2 DEF Unmounting, Acquiring, Leaving
    <1>3. ASSUME NEW n \in Nodes, OpenBegins(n) \/ OpenEnds(n) PROVE Goal
        <2>1. CASE OpenEnds(n)
            <3>1. open[n] \in Of(n)
                BY <2>1 DEF OpenEnds, Base, OwnInv, Owned
            <3> QED BY <2>1, <3>1 DEF Releasing
        <2> QED BY <1>3, <2>1 DEF Acquiring
    <1>4. ASSUME NEW n \in Nodes, Restarting(n) PROVE Goal
        BY <1>4 DEF Restarting, Acquiring, Leaving
    <1>5. ASSUME NEW f \in Gens, FenceLooksUp(f) \/ FenceEnds(f) \/ FenceKillFails(f) PROVE Goal
        <2>1. fence[f].pc # "none"
            BY <1>5 DEF FenceLooksUp, FenceEnds, FenceKillFails
        <2>2. PICK n \in Nodes : f \in Of(n) /\ who[f] = n
            BY <2>1 DEF Base, FenceInv, Of
        <2>3. CASE FenceEnds(f)
            <3>1. fence[f].gen \in Of(n)
                BY <2>2, <2>3 DEF FenceEnds, Base, FenceInv, Owned
            <3> QED BY <2>2, <2>3, <3>1 DEF Releasing
        <2> QED BY <1>5, <2>2, <2>3 DEF Leaving
    <1>6. ASSUME NEW k \in Pids, Write(k) \/ GuestLeaves(k) \/ NbdkitDies(k) PROVE Goal
        <2>1. k \in alive
            BY <1>6 DEF Write, GuestLeaves, NbdkitDies, Base, TypeOK
        <2>2. PICK n \in Nodes : k \in Survivors(n)
            BY <2>1 DEF Base, PlaceInv, Survivors
        <2> QED BY <1>6, <2>2 DEF Leaving
    <1> QED BY <1>1, <1>2, <1>3, <1>4, <1>5, <1>6 DEF Next

LEMMA ReleasingFacts ==
    ASSUME NEW n \in Nodes, NEW g \in Of(n), Releasing(n, g)
    PROVE  Release(g) /\ UNCHANGED <<epoch, who, opener, at, daemon, stops, unmarked, discarded>>
    BY DEF Releasing, MountDropsStale, MountGivesUp, MountFails, SealCloses, SealFails, UnmountEnds,
           AbandonEnds, OpenEnds, FenceEnds, data, procs, host, history

LEMMA AcquiringFacts ==
    ASSUME TypeOK, NEW n \in Nodes, Acquiring(n)
    PROVE  /\ \E g \in Gens : Acquire(n, g) /\ opener' \in {opener, g}
           /\ UNCHANGED <<alive, at, client, entry, daemon, stops>>
    BY DEF Acquiring, MountBegins, SealOpens, OpenBegins, RecoverAdopts, Vet, Supersede,
           procs, host

LEMMA LeavingFacts ==
    ASSUME NEW n \in Nodes, Leaving(n)
    PROVE  UNCHANGED <<holder, epoch, who, refs, held, open, stops>>
    BY DEF Leaving, MountVets, MountStarts, MountRegisters, UnmountBegins, AbandonBegins,
           UnmountStops, UnmountKillFails, UnmountSkipsSeal, UnmountReaps, SealFails, Release,
           DaemonStarts, RecoverEnds, FenceLooksUp, FenceKillFails, Write, GuestLeaves,
           NbdkitDies, lease, handlers, host

LEMMA LeaseStep ==
    ASSUME Base, Next
    PROVE  LeaseInv'
    <1> USE DEF Base
    <1>1. ASSUME NEW n \in Nodes, NEW g \in Of(n), Releasing(n, g) PROVE LeaseInv'
        BY <1>1, ReleasingFacts, ReleaseLease
    <1>2. ASSUME NEW n \in Nodes, Acquiring(n) PROVE LeaseInv'
        BY <1>2, AcquiringFacts, AcquireLease
    <1>3. ASSUME NEW n \in Nodes, Leaving(n) PROVE LeaseInv'
        <2>1. UNCHANGED <<holder, epoch, who, refs, held>>
            BY <1>3, LeavingFacts
        <2>2. opener' <= epoch
            <3>1. CASE MountVets(n)
                <4>1. mount[n].gen \in Of(n)
                    BY <3>1 DEF MountVets, StageInv, OwnInv, Owned
                <4>2. mount[n].gen <= epoch
                    BY <4>1 DEF Of, LeaseInv
                <4> QED BY <3>1, <4>2 DEF MountVets, Vet, Supersede, LeaseInv
            <3>2. CASE ~MountVets(n)
                BY <1>3, <3>2 DEF Leaving, MountStarts, MountRegisters, UnmountBegins,
                    AbandonBegins, UnmountStops, UnmountKillFails, UnmountSkipsSeal, UnmountReaps,
                    SealFails, DaemonStarts, RecoverEnds, FenceLooksUp, FenceKillFails, Write,
                    GuestLeaves, NbdkitDies, data, LeaseInv
            <3> QED BY <3>1, <3>2
        <2> QED BY <2>1, <2>2 DEF LeaseInv, ReleasedTwice, Of
    <1>4. ASSUME NEW n \in Nodes, DaemonStops(n) PROVE LeaseInv'
        <2>1. /\ UNCHANGED <<epoch, who, opener>>
              /\ held' = [held EXCEPT ![n] = 0]
              /\ holder' = IF holder \in Of(n) THEN 0 ELSE holder
              /\ refs' = [g \in Gens |-> IF g \in Of(n) THEN 0 ELSE refs[g]]
            BY <1>4 DEF DaemonStops, data
        <2>2. holder # 0 => holder \in Gens
            BY DEF TypeOK, Gens
        <2>3. holder' # 0 => refs'[holder'] > 0
            BY <2>1, <2>2 DEF LeaseInv
        <2>4. ASSUME NEW m \in Nodes, ~ReleasedTwice(m)', NEW g \in Of(m)
              PROVE  refs'[g] > 0 <=> held'[m] = g
            <3>1. CASE m = n
                BY <2>1, <2>4, <3>1 DEF Of, TypeOK, Gens
            <3>2. CASE m # n
                <4>1. \A h \in Of(m) : refs'[h] = refs[h]
                    BY <2>1, <3>2 DEF Of
                <4>2. ~ReleasedTwice(m)
                    BY <2>1, <2>4, <4>1 DEF ReleasedTwice, Of
                <4> QED BY <2>1, <3>2, <4>1, <4>2 DEF LeaseInv, TypeOK
            <3> QED BY <3>1, <3>2
        <2>5. ASSUME NEW m \in Nodes, held'[m] # 0 PROVE who'[held'[m]] = m
            BY <2>1, <2>5 DEF LeaseInv, TypeOK
        <2> QED BY <2>1, <2>3, <2>4, <2>5 DEF LeaseInv, Of
    <1>5. ASSUME LeaseLost PROVE LeaseInv'
        BY <1>5 DEF LeaseLost, LeaseInv, ReleasedTwice, Of, data
    <1> QED BY <1>1, <1>2, <1>3, <1>4, <1>5, Kinds

\* A lease never changes its node.
LEMMA OfGrows ==
    ASSUME Base, Next, NEW m \in Nodes
    PROVE  Of(m) \subseteq Of(m)'
    <1>1. ASSUME NEW n \in Nodes, NEW g \in Of(n), Releasing(n, g) PROVE who' = who
        BY <1>1, ReleasingFacts
    <1>2. ASSUME NEW n \in Nodes, Acquiring(n) PROVE Of(m) \subseteq Of(m)'
        <2>1. PICK g \in Gens : Acquire(n, g)
            BY <1>2, AcquiringFacts DEF Base
        <2>2. /\ who'[g] = n /\ \A h \in Gens : h # g => who'[h] = who[h]
              /\ who[g] = n \/ who[g] = NoNode
            BY <2>1, AcquireFacts DEF Base
        <2> QED BY <2>2 DEF Of
    <1>3. ASSUME NEW n \in Nodes, Leaving(n) \/ DaemonStops(n) PROVE who' = who
        BY <1>3, LeavingFacts DEF DaemonStops
    <1>4. ASSUME LeaseLost PROVE who' = who
        BY <1>4 DEF LeaseLost
    <1> QED BY <1>1, <1>2, <1>3, <1>4, Kinds DEF Of

LEMMA FenceChange ==
    ASSUME Base, Next, NEW f \in Gens
    PROVE  \/ fence'[f] = fence[f]
           \/ fence'[f] = Quiet
           \/ fence'[f].pc \in {"due", "missed"} /\ who[f] \in Nodes
           \/ /\ fence'[f].pc = "kill" /\ who[f] \in Nodes /\ entry[who[f]] # None
              /\ fence'[f].gen = entry[who[f]].gen /\ fence'[f].pid = entry[who[f]].pid
           \/ /\ fence'[f].pc = "watch" /\ fence[f].pc = "kill"
              /\ fence'[f].gen = fence[f].gen /\ fence'[f].pid = fence[f].pid
    <1> USE DEF Base
    <1>1. ASSUME NEW n \in Nodes, NEW g \in Of(n), Releasing(n, g)
          PROVE  fence'[f] = fence[f] \/ fence'[f] = Quiet
        <2>1. fence' = fence \/ \E x \in Gens : fence' = [fence EXCEPT ![x] = Quiet]
            BY <1>1 DEF Releasing, MountDropsStale, MountGivesUp, MountFails, SealCloses, SealFails,
                        UnmountEnds, AbandonEnds, OpenEnds, FenceEnds, handlers, Of
        <2> QED BY <2>1 DEF TypeOK
    <1>2. ASSUME NEW n \in Nodes, Acquiring(n)
          PROVE  fence'[f] = fence[f] \/ (fence'[f].pc = "due" /\ who[f] \in Nodes)
        <2>1. PICK g \in Gens : Acquire(n, g)
            BY <1>2, AcquiringFacts
        <2>2. \/ fence'[f] = fence[f]
              \/ who[f] = n /\ fence'[f] = [fence[f] EXCEPT !.pc = "due"]
            BY <2>1, AcquireFacts
        <2> QED BY <2>2 DEF TypeOK, Fence
    <1>3. ASSUME NEW n \in Nodes, Leaving(n), NEW x \in Of(n), FenceLooksUp(x), x = f
          PROVE  \/ fence'[f] = Quiet
                 \/ fence'[f].pc \in {"due", "missed"} /\ who[f] \in Nodes
                 \/ /\ fence'[f].pc = "kill" /\ who[f] \in Nodes /\ entry[who[f]] # None
                    /\ fence'[f].gen = entry[who[f]].gen /\ fence'[f].pid = entry[who[f]].pid
        <2>1. who[f] = n
            BY <1>3 DEF Of
        <2>2. fence'[f] = IF entry[n] # None
                   THEN [pc |-> "kill", pid |-> entry[n].pid, gen |-> entry[n].gen]
                   ELSE [Quiet EXCEPT !.pc = IF mount[n].gen = f THEN "missed" ELSE "none"]
            BY <1>3, <2>1 DEF FenceLooksUp, TypeOK
        <2> QED BY <2>1, <2>2 DEF Quiet
    <1>4. ASSUME NEW n \in Nodes, Leaving(n), NEW x \in Of(n), FenceKillFails(x), x = f
          PROVE  /\ fence'[f].pc = "watch" /\ fence[f].pc = "kill"
                 /\ fence'[f].gen = fence[f].gen /\ fence'[f].pid = fence[f].pid
        BY <1>4 DEF FenceKillFails, TypeOK, Fence
    <1>5. ASSUME NEW n \in Nodes, Leaving(n),
                 ~\E x \in Of(n) : (FenceLooksUp(x) \/ FenceKillFails(x)) /\ x = f
          PROVE  fence'[f] = fence[f]
        <2>1. CASE \E x \in Of(n) : FenceLooksUp(x) \/ FenceKillFails(x)
            BY <1>5, <2>1 DEF FenceLooksUp, FenceKillFails, TypeOK
        <2>2. CASE ~\E x \in Of(n) : FenceLooksUp(x) \/ FenceKillFails(x)
            BY <1>5, <2>2 DEF Leaving, MountVets, MountStarts, MountRegisters, UnmountBegins,
                AbandonBegins, UnmountStops, UnmountKillFails, UnmountSkipsSeal, UnmountReaps,
                SealFails, DaemonStarts, RecoverEnds, Write, GuestLeaves, NbdkitDies, handlers
        <2> QED BY <2>1, <2>2
    <1>6. ASSUME NEW n \in Nodes, DaemonStops(n)
          PROVE  fence'[f] = fence[f] \/ fence'[f] = Quiet
        BY <1>6 DEF DaemonStops
    <1>7. ASSUME LeaseLost
          PROVE  fence'[f] = fence[f] \/ (fence'[f].pc = "due" /\ who[f] \in Nodes)
        <2>1. holder \in Gens /\ holder = epoch
            BY <1>7 DEF LeaseLost, LeaseInv, TypeOK, Gens
        <2>2. who[holder] \in Nodes
            BY <2>1 DEF LeaseInv, Gens
        <2> QED BY <1>7, <2>1, <2>2 DEF LeaseLost, TypeOK, Fence
    <1> QED BY <1>1, <1>2, <1>3, <1>4, <1>5, <1>6, <1>7, Kinds

LEMMA FenceStep ==
    ASSUME Base, Next
    PROVE  FenceInv'
    <1> SUFFICES ASSUME NEW f \in Gens
                 PROVE  /\ fence'[f].pc # "none" => who'[f] \in Nodes
                        /\ fence'[f].pc \in {"kill", "watch"} =>
                             fence'[f].gen # 0 /\ Owned(who[f], fence[f].gen)'
        BY DEF FenceInv
    <1>1. ASSUME NEW m \in Nodes, who[f] = m PROVE who'[f] = m /\ Of(m) \subseteq Of(m)'
        BY <1>1, OfGrows DEF Of
    <1>2. CASE fence'[f] = fence[f] \/ (fence'[f].pc = "watch" /\ fence[f].pc = "kill"
                                        /\ fence'[f].gen = fence[f].gen)
        BY <1>1, <1>2 DEF Base, FenceInv, Owned
    <1>3. CASE fence'[f] = Quiet
        BY <1>3 DEF Quiet
    <1>4. CASE fence'[f].pc \in {"due", "missed"} /\ who[f] \in Nodes
        BY <1>1, <1>4
    <1>5. CASE /\ fence'[f].pc = "kill" /\ who[f] \in Nodes /\ entry[who[f]] # None
               /\ fence'[f].gen = entry[who[f]].gen
        BY <1>1, <1>5 DEF Base, StageInv, OwnInv, Owned
    <1> QED BY <1>2, <1>3, <1>4, <1>5, FenceChange

\* The steps of node n, and what they leave alone on the other nodes.
Step(n) ==
    \/ \E g \in Of(n) : Releasing(n, g)
    \/ Acquiring(n) \/ Leaving(n) \/ DaemonStops(n)

LEMMA Steps ==
    ASSUME Base, Next
    PROVE  LeaseLost \/ \E n \in Nodes : Step(n)
    BY Kinds DEF Step

LEMMA Elsewhere ==
    ASSUME TypeOK, NEW n \in Nodes, Step(n), NEW m \in Nodes, m # n
    PROVE  /\ entry'[m] = entry[m] /\ mount'[m] = mount[m] /\ stop'[m] = stop[m]
           /\ open'[m] = open[m] /\ daemon'[m] = daemon[m]
    <1>1. ASSUME NEW g \in Of(n), Releasing(n, g)
          PROVE  /\ entry'[m] = entry[m] /\ mount'[m] = mount[m] /\ stop'[m] = stop[m]
                 /\ open'[m] = open[m] /\ daemon'[m] = daemon[m]
        BY <1>1 DEF Releasing, MountDropsStale, MountGivesUp, MountFails, SealCloses, SealFails,
                    UnmountEnds, AbandonEnds, OpenEnds, FenceEnds, handlers, host, Of, TypeOK
    <1>2. ASSUME Acquiring(n)
          PROVE  /\ entry'[m] = entry[m] /\ mount'[m] = mount[m] /\ stop'[m] = stop[m]
                 /\ open'[m] = open[m] /\ daemon'[m] = daemon[m]
        BY <1>2 DEF Acquiring, MountBegins, SealOpens, OpenBegins, RecoverAdopts, host, TypeOK
    <1>3. ASSUME Leaving(n)
          PROVE  /\ entry'[m] = entry[m] /\ mount'[m] = mount[m] /\ stop'[m] = stop[m]
                 /\ open'[m] = open[m] /\ daemon'[m] = daemon[m]
        BY <1>3 DEF Leaving, MountVets, MountStarts, MountRegisters, UnmountBegins,
                AbandonBegins, UnmountStops, UnmountKillFails, UnmountSkipsSeal, UnmountReaps,
                SealFails, DaemonStarts, RecoverEnds, FenceLooksUp, FenceKillFails, Write,
                GuestLeaves, NbdkitDies, handlers, host, TypeOK
    <1>4. ASSUME DaemonStops(n)
          PROVE  /\ entry'[m] = entry[m] /\ mount'[m] = mount[m] /\ stop'[m] = stop[m]
                 /\ open'[m] = open[m] /\ daemon'[m] = daemon[m]
        BY <1>4 DEF DaemonStops, TypeOK
    <1> QED BY <1>1, <1>2, <1>3, <1>4 DEF Step

\* Processes start in a mount only, and stay where they are.
LEMMA ProcChange ==
    ASSUME Base, Next
    PROVE  \/ alive' \subseteq alive /\ at' = at
           \/ \E n \in Nodes : MountStarts(n)
    <1> USE DEF Base
    <1>1. ASSUME NEW n \in Nodes, NEW g \in Of(n), Releasing(n, g)
          PROVE  alive' \subseteq alive /\ at' = at
        BY <1>1 DEF Releasing, MountDropsStale, MountGivesUp, MountFails, SealCloses, SealFails,
                    UnmountEnds, AbandonEnds, OpenEnds, FenceEnds, procs, Kill
    <1>2. ASSUME NEW n \in Nodes, Acquiring(n)
          PROVE  alive' \subseteq alive /\ at' = at
        BY <1>2, AcquiringFacts
    <1>3. ASSUME NEW n \in Nodes, Leaving(n), ~MountStarts(n)
          PROVE  alive' \subseteq alive /\ at' = at
        BY <1>3 DEF Leaving, MountVets, MountRegisters, UnmountBegins,
                AbandonBegins, UnmountStops, UnmountKillFails, UnmountSkipsSeal, UnmountReaps,
                SealFails, DaemonStarts, RecoverEnds, FenceLooksUp, FenceKillFails, Write,
                GuestLeaves, NbdkitDies, procs, Kill
    <1>4. ASSUME NEW n \in Nodes, DaemonStops(n)
          PROVE  alive' \subseteq alive /\ at' = at
        BY <1>4 DEF DaemonStops, Kill
    <1>5. ASSUME LeaseLost
          PROVE  alive' \subseteq alive /\ at' = at
        BY <1>5 DEF LeaseLost, procs
    <1> QED BY <1>1, <1>2, <1>3, <1>4, <1>5, Kinds

LEMMA PlaceStep ==
    ASSUME Base, Next
    PROVE  PlaceInv'
    <1>1. CASE alive' \subseteq alive /\ at' = at
        BY <1>1 DEF Base, PlaceInv
    <1>2. ASSUME NEW n \in Nodes, MountStarts(n) PROVE PlaceInv'
        BY <1>2 DEF MountStarts, Base, PlaceInv, TypeOK
    <1> QED BY <1>1, <1>2, ProcChange

Local(n) == OwnInv(n) /\ StageInv(n) /\ ProcInv(n)

LEMMA LocalElsewhere ==
    ASSUME Base, Next, NEW n \in Nodes, Step(n), NEW m \in Nodes, m # n
    PROVE  Local(m)'
    <1>1. /\ entry'[m] = entry[m] /\ mount'[m] = mount[m] /\ stop'[m] = stop[m]
          /\ open'[m] = open[m] /\ daemon'[m] = daemon[m]
        BY Elsewhere DEF Base
    <1>2. OwnInv(m)'
        BY <1>1, OfGrows DEF Base, OwnInv, Owned
    <1>3. StageInv(m)'
        BY <1>1 DEF Base, StageInv
    <1>4. \A k \in Pids : at[k] = m => at'[k] = m /\ (k \notin alive => k \notin alive')
        <2>1. CASE alive' \subseteq alive /\ at' = at
            BY <2>1
        <2>2. ASSUME NEW x \in Nodes, MountStarts(x)
              PROVE  \A k \in Pids : at[k] = m => at'[k] = m /\ (k \notin alive => k \notin alive')
            BY <2>2 DEF MountStarts, Base, TypeOK
        <2> QED BY <2>1, <2>2, ProcChange
    <1>5. ProcInv(m)'
        BY <1>1, <1>4 DEF Base, ProcInv
    <1> QED BY <1>2, <1>3, <1>5 DEF Local

LEMMA LocalHere ==
    ASSUME Base, TypeOK', Next, NEW n \in Nodes,
           \/ Mounting(n) \/ Unmounting(n) \/ OpenBegins(n) \/ OpenEnds(n) \/ Restarting(n)
    PROVE  Local(n)'
    <1> USE DEF Base, Idle, None, Owned
    <1>0. /\ Of(n) \subseteq Of(n)'
          /\ mount[n] \in Mount /\ stop[n] \in Stop /\ entry[n] \in Export
          /\ OwnInv(n) /\ StageInv(n) /\ ProcInv(n)
        BY OfGrows DEF TypeOK
    <1>1. CASE MountDropsStale(n)
        <2>1. OwnInv(n)'
            BY <1>0, <1>1 DEF MountDropsStale, OwnInv, TypeOK, lease, handlers, Mount, Stop, Export
        <2>2. StageInv(n)'
            BY <1>0, <1>1 DEF MountDropsStale, StageInv, Serving, TypeOK, handlers, host, Mount, Stop, Export
        <2>3. ProcInv(n)'
            BY <1>0, <1>1 DEF MountDropsStale, ProcInv, StageInv, TypeOK, handlers, procs, Mount, Stop, Export
        <2> QED BY <2>1, <2>2, <2>3 DEF Local
    <1>2. CASE MountVets(n)
        <2>1. OwnInv(n)'
            BY <1>0, <1>2 DEF MountVets, OwnInv, TypeOK, lease, handlers, Mount, Stop, Export
        <2>2. StageInv(n)'
            BY <1>0, <1>2 DEF MountVets, StageInv, Serving, TypeOK, handlers, host, Mount, Stop, Export
        <2>3. ProcInv(n)'
            BY <1>0, <1>2 DEF MountVets, ProcInv, StageInv, TypeOK, handlers, procs, Mount, Stop, Export
        <2> QED BY <2>1, <2>2, <2>3 DEF Local
    <1>3. CASE MountGivesUp(n)
        <2>1. OwnInv(n)'
            BY <1>0, <1>3 DEF MountGivesUp, OwnInv, TypeOK, lease, handlers, Mount, Stop, Export
        <2>2. StageInv(n)'
            BY <1>0, <1>3 DEF MountGivesUp, StageInv, Serving, TypeOK, handlers, host, Mount, Stop, Export
        <2>3. ProcInv(n)'
            BY <1>0, <1>3 DEF MountGivesUp, ProcInv, StageInv, TypeOK, handlers, procs, Mount, Stop, Export
        <2> QED BY <2>1, <2>2, <2>3 DEF Local
    <1>4. CASE MountStarts(n)
        <2>1. OwnInv(n)'
            BY <1>0, <1>4 DEF MountStarts, OwnInv, TypeOK, lease, handlers, Mount, Stop, Export
        <2>2. StageInv(n)'
            BY <1>0, <1>4 DEF MountStarts, StageInv, Serving, TypeOK, handlers, host, Mount, Stop, Export
        <2>3. ProcInv(n)'
            BY <1>0, <1>4 DEF MountStarts, ProcInv, StageInv, TypeOK, handlers, procs, Mount, Stop, Export
        <2> QED BY <2>1, <2>2, <2>3 DEF Local
    <1>5. CASE MountFails(n)
        <2>1. OwnInv(n)'
            BY <1>0, <1>5 DEF MountFails, OwnInv, TypeOK, lease, handlers, Mount, Stop, Export
        <2>2. StageInv(n)'
            BY <1>0, <1>5 DEF MountFails, StageInv, Serving, TypeOK, handlers, host, Mount, Stop, Export
        <2>3. ProcInv(n)'
            BY <1>0, <1>5 DEF MountFails, ProcInv, StageInv, TypeOK, handlers, procs, Mount, Stop, Export
        <2> QED BY <2>1, <2>2, <2>3 DEF Local
    <1>6. CASE MountRegisters(n)
        <2>1. OwnInv(n)'
            BY <1>0, <1>6 DEF MountRegisters, OwnInv, TypeOK, lease, handlers, Mount, Stop, Export
        <2>2. StageInv(n)'
            BY <1>0, <1>6 DEF MountRegisters, StageInv, Serving, TypeOK, handlers, host, Mount, Stop, Export
        <2>3. ProcInv(n)'
            BY <1>0, <1>6 DEF MountRegisters, ProcInv, StageInv, TypeOK, handlers, procs, Mount, Stop, Export
        <2> QED BY <2>1, <2>2, <2>3 DEF Local
    <1>7. CASE UnmountBegins(n)
        <2>1. OwnInv(n)'
            BY <1>0, <1>7 DEF UnmountBegins, OwnInv, TypeOK, lease, handlers, Mount, Stop, Export
        <2>2. StageInv(n)'
            BY <1>0, <1>7 DEF UnmountBegins, StageInv, Serving, TypeOK, handlers, host, Mount, Stop, Export
        <2>3. ProcInv(n)'
            BY <1>0, <1>7 DEF UnmountBegins, ProcInv, StageInv, TypeOK, handlers, procs, Mount, Stop, Export
        <2> QED BY <2>1, <2>2, <2>3 DEF Local
    <1>8. CASE AbandonBegins(n)
        <2>1. OwnInv(n)'
            BY <1>0, <1>8 DEF AbandonBegins, OwnInv, TypeOK, lease, handlers, Mount, Stop, Export
        <2>2. StageInv(n)'
            BY <1>0, <1>8 DEF AbandonBegins, StageInv, Serving, TypeOK, handlers, host, Mount, Stop, Export
        <2>3. ProcInv(n)'
            BY <1>0, <1>8 DEF AbandonBegins, ProcInv, StageInv, TypeOK, handlers, procs, Mount, Stop, Export
        <2> QED BY <2>1, <2>2, <2>3 DEF Local
    <1>9. CASE UnmountStops(n)
        <2>1. OwnInv(n)'
            BY <1>0, <1>9 DEF UnmountStops, OwnInv, TypeOK, lease, handlers, Mount, Stop, Export
        <2>2. StageInv(n)'
            BY <1>0, <1>9 DEF UnmountStops, StageInv, Serving, TypeOK, handlers, host, Mount, Stop, Export
        <2>3. ProcInv(n)'
            BY <1>0, <1>9 DEF UnmountStops, ProcInv, StageInv, TypeOK, handlers, procs, Mount, Stop, Export, Kill
        <2> QED BY <2>1, <2>2, <2>3 DEF Local
    <1>10. CASE UnmountKillFails(n)
        <2>1. OwnInv(n)'
            BY <1>0, <1>10 DEF UnmountKillFails, OwnInv, TypeOK, lease, handlers, Mount, Stop, Export
        <2>2. StageInv(n)'
            BY <1>0, <1>10 DEF UnmountKillFails, StageInv, Serving, TypeOK, handlers, host, Mount, Stop, Export
        <2>3. ProcInv(n)'
            BY <1>0, <1>10 DEF UnmountKillFails, ProcInv, StageInv, TypeOK, handlers, procs, Mount, Stop, Export
        <2> QED BY <2>1, <2>2, <2>3 DEF Local
    <1>11. CASE UnmountSkipsSeal(n)
        <2>1. OwnInv(n)'
            BY <1>0, <1>11 DEF UnmountSkipsSeal, OwnInv, TypeOK, lease, handlers, Mount, Stop, Export
        <2>2. StageInv(n)'
            BY <1>0, <1>11 DEF UnmountSkipsSeal, StageInv, Serving, TypeOK, handlers, host, Mount, Stop, Export
        <2>3. ProcInv(n)'
            BY <1>0, <1>11 DEF UnmountSkipsSeal, ProcInv, StageInv, TypeOK, handlers, procs, Mount, Stop, Export
        <2> QED BY <2>1, <2>2, <2>3 DEF Local
    <1>12. CASE SealCloses(n)
        <2>1. OwnInv(n)'
            BY <1>0, <1>12 DEF SealCloses, OwnInv, TypeOK, lease, handlers, Mount, Stop, Export
        <2>2. StageInv(n)'
            BY <1>0, <1>12 DEF SealCloses, StageInv, Serving, TypeOK, handlers, host, Mount, Stop, Export
        <2>3. ProcInv(n)'
            BY <1>0, <1>12 DEF SealCloses, ProcInv, StageInv, TypeOK, handlers, procs, Mount, Stop, Export
        <2> QED BY <2>1, <2>2, <2>3 DEF Local
    <1>13. CASE SealFails(n)
        <2>1. OwnInv(n)'
            BY <1>0, <1>13 DEF SealFails, OwnInv, TypeOK, lease, handlers, Mount, Stop, Export
        <2>2. StageInv(n)'
            BY <1>0, <1>13 DEF SealFails, StageInv, Serving, TypeOK, handlers, host, Mount, Stop, Export
        <2>3. ProcInv(n)'
            BY <1>0, <1>13 DEF SealFails, ProcInv, StageInv, TypeOK, handlers, procs, Mount, Stop, Export
        <2> QED BY <2>1, <2>2, <2>3 DEF Local
    <1>14. CASE UnmountEnds(n)
        <2>1. OwnInv(n)'
            BY <1>0, <1>14 DEF UnmountEnds, OwnInv, TypeOK, lease, handlers, Mount, Stop, Export
        <2>2. StageInv(n)'
            BY <1>0, <1>14 DEF UnmountEnds, StageInv, Serving, TypeOK, handlers, host, Mount, Stop, Export
        <2>3. ProcInv(n)'
            BY <1>0, <1>14 DEF UnmountEnds, ProcInv, StageInv, TypeOK, handlers, procs, Mount, Stop, Export
        <2> QED BY <2>1, <2>2, <2>3 DEF Local
    <1>15. CASE UnmountReaps(n)
        <2>1. OwnInv(n)'
            BY <1>0, <1>15 DEF UnmountReaps, OwnInv, TypeOK, lease, handlers, Mount, Stop, Export
        <2>2. StageInv(n)'
            BY <1>0, <1>15 DEF UnmountReaps, StageInv, Serving, TypeOK, handlers, host, Mount, Stop, Export
        <2>3. ProcInv(n)'
            BY <1>0, <1>15 DEF UnmountReaps, ProcInv, StageInv, TypeOK, handlers, procs, Mount, Stop, Export, Kill
        <2> QED BY <2>1, <2>2, <2>3 DEF Local
    <1>16. CASE AbandonEnds(n)
        <2>1. OwnInv(n)'
            BY <1>0, <1>16 DEF AbandonEnds, OwnInv, TypeOK, lease, handlers, Mount, Stop, Export
        <2>2. StageInv(n)'
            BY <1>0, <1>16 DEF AbandonEnds, StageInv, Serving, TypeOK, handlers, host, Mount, Stop, Export
        <2>3. ProcInv(n)'
            BY <1>0, <1>16 DEF AbandonEnds, ProcInv, StageInv, TypeOK, handlers, procs, Mount, Stop, Export, Kill
        <2> QED BY <2>1, <2>2, <2>3 DEF Local
    <1>17. CASE OpenEnds(n)
        <2>1. OwnInv(n)'
            BY <1>0, <1>17 DEF OpenEnds, OwnInv, TypeOK, lease, handlers, Mount, Stop, Export
        <2>2. StageInv(n)'
            BY <1>0, <1>17 DEF OpenEnds, StageInv, Serving, TypeOK, handlers, host, Mount, Stop, Export
        <2>3. ProcInv(n)'
            BY <1>0, <1>17 DEF OpenEnds, ProcInv, StageInv, TypeOK, handlers, procs, Mount, Stop, Export
        <2> QED BY <2>1, <2>2, <2>3 DEF Local
    <1>18. CASE DaemonStops(n)
        <2>1. OwnInv(n)'
            BY <1>0, <1>18 DEF DaemonStops, OwnInv, TypeOK, lease, handlers, Mount, Stop, Export
        <2>2. StageInv(n)'
            BY <1>0, <1>18 DEF DaemonStops, StageInv, Serving, TypeOK, handlers, host, Mount, Stop, Export
        <2>3. ProcInv(n)'
            BY <1>0, <1>18 DEF DaemonStops, ProcInv, StageInv, TypeOK, handlers, procs, Mount, Stop, Export, Kill
        <2> QED BY <2>1, <2>2, <2>3 DEF Local
    <1>19. CASE DaemonStarts(n)
        <2>1. OwnInv(n)'
            BY <1>0, <1>19 DEF DaemonStarts, OwnInv, TypeOK, lease, handlers, Mount, Stop, Export
        <2>2. StageInv(n)'
            BY <1>0, <1>19 DEF DaemonStarts, StageInv, Serving, TypeOK, handlers, host, Mount, Stop, Export
        <2>3. ProcInv(n)'
            BY <1>0, <1>19 DEF DaemonStarts, ProcInv, StageInv, TypeOK, handlers, procs, Mount, Stop, Export
        <2> QED BY <2>1, <2>2, <2>3 DEF Local
    <1>20. CASE RecoverEnds(n)
        <2>1. OwnInv(n)'
            BY <1>0, <1>20 DEF RecoverEnds, OwnInv, TypeOK, lease, handlers, Mount, Stop, Export
        <2>2. StageInv(n)'
            BY <1>0, <1>20 DEF RecoverEnds, StageInv, Serving, TypeOK, handlers, host, Mount, Stop, Export
        <2>3. ProcInv(n)'
            BY <1>0, <1>20 DEF RecoverEnds, ProcInv, StageInv, TypeOK, handlers, procs, Mount, Stop, Export, Kill
        <2> QED BY <2>1, <2>2, <2>3 DEF Local
    <1>21. CASE MountBegins(n)
        <2>0. \A g \in Gens : Acquire(n, g) => g \in Of(n)' /\ g # 0
            BY AcquireFacts DEF Of, Gens
        <2>1. OwnInv(n)'
            BY <1>0, <1>21, <2>0 DEF MountBegins, OwnInv, TypeOK, handlers, Mount, Stop, Export
        <2>2. StageInv(n)'
            BY <1>0, <1>21, <2>0 DEF MountBegins, StageInv, Serving, TypeOK, handlers, host, Mount, Stop, Export
        <2>3. ProcInv(n)'
            BY <1>0, <1>21 DEF MountBegins, ProcInv, StageInv, Survivors, TypeOK, handlers, procs, Mount, Stop, Export
        <2> QED BY <2>1, <2>2, <2>3 DEF Local
    <1>22. CASE SealOpens(n)
        <2>0. \A g \in Gens : Acquire(n, g) => g \in Of(n)' /\ g # 0
            BY AcquireFacts DEF Of, Gens
        <2>1. OwnInv(n)'
            BY <1>0, <1>22, <2>0 DEF SealOpens, OwnInv, TypeOK, handlers, Mount, Stop, Export
        <2>2. StageInv(n)'
            BY <1>0, <1>22, <2>0 DEF SealOpens, StageInv, Serving, TypeOK, handlers, host, Mount, Stop, Export
        <2>3. ProcInv(n)'
            BY <1>0, <1>22 DEF SealOpens, ProcInv, StageInv, Survivors, TypeOK, handlers, procs, Mount, Stop, Export
        <2> QED BY <2>1, <2>2, <2>3 DEF Local
    <1>23. CASE OpenBegins(n)
        <2>0. \A g \in Gens : Acquire(n, g) => g \in Of(n)' /\ g # 0
            BY AcquireFacts DEF Of, Gens
        <2>1. OwnInv(n)'
            BY <1>0, <1>23, <2>0 DEF OpenBegins, OwnInv, TypeOK, handlers, Mount, Stop, Export
        <2>2. StageInv(n)'
            BY <1>0, <1>23, <2>0 DEF OpenBegins, StageInv, Serving, TypeOK, handlers, host, Mount, Stop, Export
        <2>3. ProcInv(n)'
            BY <1>0, <1>23 DEF OpenBegins, ProcInv, StageInv, Survivors, TypeOK, handlers, procs, Mount, Stop, Export
        <2> QED BY <2>1, <2>2, <2>3 DEF Local
    <1>24. CASE RecoverAdopts(n)
        <2>0. \A g \in Gens : Acquire(n, g) => g \in Of(n)' /\ g # 0
            BY AcquireFacts DEF Of, Gens
        <2>1. OwnInv(n)'
            BY <1>0, <1>24, <2>0 DEF RecoverAdopts, OwnInv, TypeOK, handlers, Mount, Stop, Export
        <2>2. StageInv(n)'
            BY <1>0, <1>24, <2>0 DEF RecoverAdopts, StageInv, Serving, TypeOK, handlers, host, Mount, Stop, Export
        <2>3. ProcInv(n)'
            BY <1>0, <1>24 DEF RecoverAdopts, ProcInv, StageInv, Survivors, TypeOK, handlers, procs, Mount, Stop, Export
        <2> QED BY <2>1, <2>2, <2>3 DEF Local
    <1> QED BY <1>1, <1>2, <1>3, <1>4, <1>5, <1>6, <1>7, <1>8, <1>9, <1>10, <1>11, <1>12, <1>13, <1>14, <1>15, <1>16, <1>17, <1>18, <1>19, <1>20, <1>21, <1>22, <1>23, <1>24 DEF Mounting, Unmounting, Restarting

LEMMA LocalFence ==
    ASSUME Base, Next, NEW n \in Nodes, NEW f \in Of(n),
           FenceLooksUp(f) \/ FenceEnds(f) \/ FenceKillFails(f)
    PROVE  Local(n)'
    <1> USE DEF Base, Idle, None, Owned
    <1>0. /\ Of(n) \subseteq Of(n)' /\ who[f] = n
          /\ mount[n] \in Mount /\ stop[n] \in Stop /\ entry[n] \in Export
          /\ OwnInv(n) /\ StageInv(n) /\ ProcInv(n)
        BY OfGrows DEF TypeOK, Of
    <1>1. /\ UNCHANGED <<mount, stop, open, daemon, at>> /\ alive' \subseteq alive
          /\ entry'[n] = entry[n] \/ entry'[n] = None
        BY <1>0 DEF FenceLooksUp, FenceEnds, FenceKillFails, Kill, TypeOK, host, procs
    <1>2. OwnInv(n)'
        BY <1>0, <1>1 DEF OwnInv
    <1>3. StageInv(n)'
        BY <1>0, <1>1 DEF StageInv
    <1>4. ProcInv(n)'
        BY <1>0, <1>1 DEF ProcInv
    <1> QED BY <1>2, <1>3, <1>4 DEF Local

LEMMA LocalKept ==
    ASSUME Base, Next, NEW n \in Nodes, UNCHANGED <<entry, mount, stop, open, daemon, at>>,
           alive' \subseteq alive
    PROVE  Local(n)'
    <1>1. OwnInv(n)'
        BY OfGrows DEF OwnInv, Owned, Base
    <1>2. StageInv(n)' /\ ProcInv(n)'
        BY DEF StageInv, ProcInv, Base
    <1> QED BY <1>1, <1>2 DEF Local

LEMMA BaseStep ==
    ASSUME Base, Next
    PROVE  Base'
    <1>1. TypeOK'
        BY TypeStep DEF Base
    <1>2. PlaceInv' /\ LeaseInv' /\ FenceInv'
        BY PlaceStep, LeaseStep, FenceStep
    <1>3. ASSUME NEW n \in Nodes, Step(n), NEW m \in Nodes, m # n PROVE Local(m)'
        BY <1>3, LocalElsewhere
    <1>4. ASSUME NEW n \in Nodes, Step(n) PROVE Local(n)'
        <2>1. CASE \/ Mounting(n) \/ Unmounting(n) \/ OpenBegins(n) \/ OpenEnds(n) \/ Restarting(n)
            BY <1>1, <2>1, LocalHere
        <2>2. CASE \E f \in Of(n) : FenceLooksUp(f) \/ FenceEnds(f) \/ FenceKillFails(f)
            BY <2>2, LocalFence
        <2>3. ASSUME NEW k \in Survivors(n), Write(k) \/ GuestLeaves(k) \/ NbdkitDies(k)
              PROVE  Local(n)'
            BY <2>3, LocalKept DEF Write, GuestLeaves, NbdkitDies, Kill, handlers, host
        <2> QED BY <1>4, <2>1, <2>2, <2>3
                DEF Step, Releasing, Acquiring, Leaving, Mounting, Unmounting, Restarting
    <1>5. ASSUME LeaseLost, NEW m \in Nodes PROVE Local(m)'
        BY <1>5, LocalKept DEF LeaseLost, procs, host
    <1>6. \A m \in Nodes : Local(m)'
        BY <1>3, <1>4, <1>5, Steps
    <1> QED BY <1>1, <1>2, <1>6 DEF Base, Local

LEMMA BaseInit == Init => Base
    <1> SUFFICES ASSUME Init PROVE Base
        OBVIOUS
    <1> USE DEF Idle, None, Quiet, NoMark
    <1>1. TypeOK
        <2>1. /\ Idle \in Mount /\ Idle \in Stop /\ None \in Export /\ Quiet \in Fence
              /\ NoMark \in Mark
            BY DEF Mount, Stop, Export, Fence, Mark
        <2> QED BY <2>1 DEF Init, TypeOK
    <1>2. PlaceInv /\ FenceInv
        BY DEF Init, PlaceInv, FenceInv
    <1>3. LeaseInv
        <2>1. \A g \in Gens : ~(g <= 0) /\ g # 0
            BY DEF Gens
        <2> QED BY <2>1 DEF Init, LeaseInv, Of
    <1>4. \A n \in Nodes : OwnInv(n) /\ StageInv(n) /\ ProcInv(n)
        BY DEF Init, OwnInv, StageInv, ProcInv, Owned
    <1> QED BY <1>1, <1>2, <1>3, <1>4 DEF Base

LEMMA BaseStutter == Base /\ UNCHANGED vars => Base'
    <1> SUFFICES ASSUME Base, UNCHANGED vars PROVE Base'
        OBVIOUS
    <1> USE DEF vars, lease, procs, handlers, host, data, history, Base
    <1>1. TypeOK'
        BY DEF TypeOK
    <1>2. PlaceInv' /\ FenceInv'
        BY DEF PlaceInv, FenceInv, Owned, Of
    <1>3. LeaseInv'
        BY DEF LeaseInv, ReleasedTwice, Of
    <1>4. \A n \in Nodes : OwnInv(n)' /\ StageInv(n)' /\ ProcInv(n)'
        BY DEF OwnInv, StageInv, ProcInv, Owned, Of
    <1> QED BY <1>1, <1>2, <1>3, <1>4

LEMMA BaseInvariance == Spec => []Base
    <1>1. Base /\ [Next]_vars => Base'
        BY BaseStep, BaseStutter
    <1> QED BY <1>1, BaseInit, PTL DEF Spec

(* Every reachable state has its types. *)
THEOREM TypeCorrect == Spec => []TypeOK
    <1>1. Base => TypeOK
        BY DEF Base
    <1> QED BY <1>1, BaseInvariance, PTL

(* A valid lease is the one its node has in held, with references, so that no   *)
(* open of the node can displace it (volumeLeases.acquire), unless a lease of   *)
(* the node was released twice; whether handlers overlap or not.                *)
THEOREM HeldLease == Spec => []ValidLeaseIsHeld
    <1>1. Base => ValidLeaseIsHeld
        <2> SUFFICES ASSUME Base, holder # 0, ~ReleasedTwice(who[holder])
                     PROVE  held[who[holder]] = holder /\ refs[holder] > 0
            BY DEF ValidLeaseIsHeld
        <2>1. holder \in Gens /\ holder <= epoch /\ refs[holder] > 0
            BY DEF Base, LeaseInv, TypeOK, Gens
        <2>2. who[holder] \in Nodes
            BY <2>1 DEF Base, LeaseInv
        <2> QED BY <2>1, <2>2 DEF Base, LeaseInv, Of
    <1> QED BY <1>1, BaseInvariance, PTL

-----------------------------------------------------------------------------
(* Handlers that do not overlap. *)

\* A step of one node gives no lease to another.
LEMMA OfElsewhere ==
    ASSUME Base, NEW n \in Nodes, Step(n), NEW m \in Nodes, m # n
    PROVE  Of(m)' = Of(m)
    <1>1. CASE Acquiring(n)
        <2>1. PICK g \in Gens : Acquire(n, g)
            BY <1>1, AcquiringFacts DEF Base
        <2>2. /\ who'[g] = n /\ \A h \in Gens : h # g => who'[h] = who[h]
              /\ who[g] = n \/ who[g] = NoNode
            BY <2>1, AcquireFacts DEF Base
        <2> QED BY <2>2 DEF Of
    <1>2. CASE ~Acquiring(n)
        BY <1>2, ReleasingFacts, LeavingFacts DEF Step, Of, DaemonStops
    <1> QED BY <1>1, <1>2

LEMMA SerialElsewhere ==
    ASSUME Base, NEW n \in Nodes, Step(n), NEW m \in Nodes, m # n, SerialInv(m)
    PROVE  SerialInv(m)'
    <1>1. /\ entry'[m] = entry[m] /\ mount'[m] = mount[m] /\ stop'[m] = stop[m]
          /\ open'[m] = open[m] /\ Of(m)' = Of(m)
        BY Elsewhere, OfElsewhere DEF Base
    <1> QED BY <1>1 DEF SerialInv

LEMMA AcquireNewest ==
    ASSUME Base, NEW n \in Nodes, NEW g \in Gens, Acquire(n, g), NEW h \in Of(n)'
    PROVE  h <= g
    <1>1. h \in Gens /\ who'[h] = n
        BY DEF Of
    <1>2. epoch <= g /\ (h # g => who'[h] = who[h])
        BY <1>1, AcquireFacts DEF Base
    <1>3. h \in Int /\ g \in Int /\ epoch \in Int
        BY <1>1 DEF Gens, Base, TypeOK
    <1>4. h # g => h <= epoch
        BY <1>1, <1>2 DEF Base, LeaseInv
    <1> QED BY <1>2, <1>3, <1>4

LEMMA SerialHere ==
    ASSUME Base, TypeOK', SerialHandlers = TRUE, NEW n \in Nodes, SerialInv(n),
           \/ Mounting(n) \/ Unmounting(n) \/ OpenBegins(n) \/ OpenEnds(n) \/ Restarting(n)
    PROVE  SerialInv(n)'
    <1> USE DEF Base, Idle, None
    <1>0. /\ mount[n] \in Mount /\ stop[n] \in Stop /\ entry[n] \in Export
          /\ OwnInv(n) /\ StageInv(n)
        BY DEF TypeOK
    <1>1. CASE MountDropsStale(n)
        BY <1>0, <1>1 DEF MountDropsStale, SerialInv, StageInv, Serving, Alone, TypeOK, lease, handlers, host, Mount, Stop, Export, Of
    <1>2. CASE MountVets(n)
        BY <1>0, <1>2 DEF MountVets, SerialInv, StageInv, Serving, Alone, TypeOK, lease, handlers, host, Mount, Stop, Export, Of
    <1>3. CASE MountGivesUp(n)
        BY <1>0, <1>3 DEF MountGivesUp, SerialInv, StageInv, Serving, Alone, TypeOK, lease, handlers, host, Mount, Stop, Export, Of
    <1>4. CASE MountStarts(n)
        BY <1>0, <1>4 DEF MountStarts, SerialInv, StageInv, Serving, Alone, TypeOK, lease, handlers, host, Mount, Stop, Export, Of
    <1>5. CASE MountFails(n)
        BY <1>0, <1>5 DEF MountFails, SerialInv, StageInv, Serving, Alone, TypeOK, lease, handlers, host, Mount, Stop, Export, Of
    <1>6. CASE MountRegisters(n)
        BY <1>0, <1>6 DEF MountRegisters, SerialInv, StageInv, Serving, Alone, TypeOK, lease, handlers, host, Mount, Stop, Export, Of
    <1>7. CASE UnmountBegins(n)
        BY <1>0, <1>7 DEF UnmountBegins, SerialInv, StageInv, Serving, Alone, TypeOK, lease, handlers, host, Mount, Stop, Export, Of
    <1>8. CASE AbandonBegins(n)
        BY <1>0, <1>8 DEF AbandonBegins, SerialInv, StageInv, Serving, Alone, TypeOK, lease, handlers, host, Mount, Stop, Export, Of
    <1>9. CASE UnmountStops(n)
        BY <1>0, <1>9 DEF UnmountStops, SerialInv, StageInv, Serving, Alone, TypeOK, lease, handlers, host, Mount, Stop, Export, Of
    <1>10. CASE UnmountKillFails(n)
        BY <1>0, <1>10 DEF UnmountKillFails, SerialInv, StageInv, Serving, Alone, TypeOK, lease, handlers, host, Mount, Stop, Export, Of
    <1>11. CASE UnmountSkipsSeal(n)
        BY <1>0, <1>11 DEF UnmountSkipsSeal, SerialInv, StageInv, Serving, Alone, TypeOK, lease, handlers, host, Mount, Stop, Export, Of
    <1>12. CASE SealCloses(n)
        BY <1>0, <1>12 DEF SealCloses, SerialInv, StageInv, Serving, Alone, TypeOK, lease, handlers, host, Mount, Stop, Export, Of
    <1>13. CASE SealFails(n)
        BY <1>0, <1>13 DEF SealFails, SerialInv, StageInv, Serving, Alone, TypeOK, lease, handlers, host, Mount, Stop, Export, Of
    <1>14. CASE UnmountEnds(n)
        BY <1>0, <1>14 DEF UnmountEnds, SerialInv, StageInv, Serving, Alone, TypeOK, lease, handlers, host, Mount, Stop, Export, Of
    <1>15. CASE UnmountReaps(n)
        BY <1>0, <1>15 DEF UnmountReaps, SerialInv, StageInv, Serving, Alone, TypeOK, lease, handlers, host, Mount, Stop, Export, Of
    <1>16. CASE AbandonEnds(n)
        BY <1>0, <1>16 DEF AbandonEnds, SerialInv, StageInv, Serving, Alone, TypeOK, lease, handlers, host, Mount, Stop, Export, Of
    <1>17. CASE OpenEnds(n)
        BY <1>0, <1>17 DEF OpenEnds, SerialInv, StageInv, Serving, Alone, TypeOK, lease, handlers, host, Mount, Stop, Export, Of
    <1>18. CASE DaemonStops(n)
        BY <1>0, <1>18 DEF DaemonStops, SerialInv, StageInv, Serving, Alone, TypeOK, lease, handlers, host, Mount, Stop, Export, Of
    <1>19. CASE DaemonStarts(n)
        BY <1>0, <1>19 DEF DaemonStarts, SerialInv, StageInv, Serving, Alone, TypeOK, lease, handlers, host, Mount, Stop, Export, Of
    <1>20. CASE RecoverEnds(n)
        BY <1>0, <1>20 DEF RecoverEnds, SerialInv, StageInv, Serving, Alone, TypeOK, lease, handlers, host, Mount, Stop, Export, Of
    <1>21. CASE MountBegins(n)
        <2>0. \A g \in Gens : Acquire(n, g) => \A h \in Of(n)' : h <= g
            BY AcquireNewest
        <2> QED BY <1>0, <1>21, <2>0 DEF MountBegins, SerialInv, StageInv, Serving, Alone, TypeOK, handlers, host, Mount, Stop, Export
    <1>22. CASE SealOpens(n)
        <2>0. \A g \in Gens : Acquire(n, g) => \A h \in Of(n)' : h <= g
            BY AcquireNewest
        <2> QED BY <1>0, <1>22, <2>0 DEF SealOpens, SerialInv, StageInv, Serving, Alone, TypeOK, handlers, host, Mount, Stop, Export
    <1>23. CASE OpenBegins(n)
        <2>0. \A g \in Gens : Acquire(n, g) => \A h \in Of(n)' : h <= g
            BY AcquireNewest
        <2> QED BY <1>0, <1>23, <2>0 DEF OpenBegins, SerialInv, StageInv, Serving, Alone, TypeOK, handlers, host, Mount, Stop, Export
    <1>24. CASE RecoverAdopts(n)
        <2>0. \A g \in Gens : Acquire(n, g) => \A h \in Of(n)' : h <= g
            BY AcquireNewest
        <2> QED BY <1>0, <1>24, <2>0 DEF RecoverAdopts, SerialInv, StageInv, Serving, Alone, TypeOK, handlers, host, Mount, Stop, Export
    <1> QED BY <1>1, <1>2, <1>3, <1>4, <1>5, <1>6, <1>7, <1>8, <1>9, <1>10, <1>11, <1>12, <1>13, <1>14, <1>15, <1>16, <1>17, <1>18, <1>19, <1>20, <1>21, <1>22, <1>23, <1>24 DEF Mounting, Unmounting, Restarting

LEMMA SerialStep ==
    ASSUME Base, SerialHandlers = TRUE, Next, \A n \in Nodes : SerialInv(n), NEW m \in Nodes
    PROVE  SerialInv(m)'
    <1>1. TypeOK'
        BY TypeStep DEF Base
    <1>2. ASSUME NEW n \in Nodes, Step(n), m # n PROVE SerialInv(m)'
        BY <1>2, SerialElsewhere
    <1>3. ASSUME Step(m) PROVE SerialInv(m)'
        <2>1. CASE \/ Mounting(m) \/ Unmounting(m) \/ OpenBegins(m) \/ OpenEnds(m) \/ Restarting(m)
            BY <1>1, <2>1, SerialHere
        <2>2. ASSUME NEW f \in Of(m), FenceLooksUp(f) \/ FenceEnds(f) \/ FenceKillFails(f)
              PROVE  SerialInv(m)'
            <3>1. /\ UNCHANGED <<mount, stop, open, who>>
                  /\ entry'[m] = entry[m] \/ entry'[m] = None
                BY <2>2 DEF FenceLooksUp, FenceEnds, FenceKillFails, Base, TypeOK, Of, lease
            <3> QED BY <3>1 DEF SerialInv, Of
        <2>3. ASSUME NEW k \in Survivors(m), Write(k) \/ GuestLeaves(k) \/ NbdkitDies(k)
              PROVE  SerialInv(m)'
            BY <2>3 DEF Write, GuestLeaves, NbdkitDies, handlers, lease, SerialInv, Of
        <2> QED BY <1>3, <2>1, <2>2, <2>3
                DEF Step, Releasing, Acquiring, Leaving, Mounting, Unmounting, Restarting
    <1>4. ASSUME LeaseLost PROVE SerialInv(m)'
        BY <1>4 DEF LeaseLost, SerialInv, Of
    <1> QED BY <1>2, <1>3, <1>4, Steps

-----------------------------------------------------------------------------
(* The references of a lease. *)

Serial == Base /\ \A n \in Nodes : SerialInv(n)

\* The step of one node leaves the leases of the others, and their fences.
LEMMA LeaseElsewhere ==
    ASSUME Base, NEW n \in Nodes, Step(n), NEW m \in Nodes, m # n
    PROVE  /\ Of(m)' = Of(m) /\ (ReleasedTwice(m)' <=> ReleasedTwice(m))
           /\ \A h \in Of(m) : refs'[h] = refs[h] /\ fence'[h] = fence[h]
    <1> USE DEF Base
    <1>0. Of(m)' = Of(m)
        BY OfElsewhere
    <1>1. \A h \in Of(m) : h \in Gens /\ h \notin Of(n)
        BY DEF Of
    <1>2. ASSUME NEW g \in Of(n), Releasing(n, g), NEW h \in Of(m)
          PROVE  refs'[h] = refs[h] /\ fence'[h] = fence[h]
        <2>1. h # g /\ h \in Gens /\ h \notin Of(n)
            BY <1>1
        <2>2. refs'[h] = refs[h]
            BY <1>2, <2>1, ReleasingFacts, ReleaseFacts
        <2>3. fence' = fence \/ \E x \in Of(n) : fence' = [fence EXCEPT ![x] = Quiet]
            BY <1>2 DEF Releasing, MountDropsStale, MountGivesUp, MountFails, SealCloses, SealFails,
                        UnmountEnds, AbandonEnds, OpenEnds, FenceEnds, handlers
        <2> QED BY <2>1, <2>2, <2>3 DEF TypeOK
    <1>3. ASSUME Acquiring(n), NEW h \in Of(m)
          PROVE  refs'[h] = refs[h] /\ fence'[h] = fence[h]
        <2>1. PICK g \in Gens : Acquire(n, g)
            BY <1>3, AcquiringFacts
        <2>2. h # g /\ h \in Gens /\ who[h] # n
            BY <2>1, AcquireFacts DEF Of
        <2>3. \A x \in Gens : x # g => refs'[x] = refs[x]
            BY <2>1, AcquireFacts
        <2>4. \A x \in Gens : fence'[x] = fence[x] \/ who[x] = n
            BY <2>1, AcquireFacts
        <2> QED BY <2>2, <2>3, <2>4
    <1>4. ASSUME Leaving(n), NEW h \in Of(m)
          PROVE  refs'[h] = refs[h] /\ fence'[h] = fence[h]
        <2>1. fence' = fence \/ \E x \in Of(n) : FenceLooksUp(x) \/ FenceKillFails(x)
            BY <1>4 DEF Leaving, MountVets, MountStarts, MountRegisters, UnmountBegins,
                AbandonBegins, UnmountStops, UnmountKillFails, UnmountSkipsSeal, UnmountReaps,
                SealFails, DaemonStarts, RecoverEnds, Write, GuestLeaves, NbdkitDies, handlers
        <2> QED BY <1>1, <1>4, <2>1, LeavingFacts DEF FenceLooksUp, FenceKillFails, TypeOK
    <1>5. ASSUME DaemonStops(n), NEW h \in Of(m)
          PROVE  refs'[h] = refs[h] /\ fence'[h] = fence[h]
        BY <1>1, <1>5 DEF DaemonStops
    <1>6. \A h \in Of(m) : refs'[h] = refs[h] /\ fence'[h] = fence[h]
        BY <1>2, <1>3, <1>4, <1>5 DEF Step
    <1> QED BY <1>0, <1>6 DEF ReleasedTwice

LEMMA RefElsewhere ==
    ASSUME Base, NEW n \in Nodes, Step(n), NEW m \in Nodes, m # n, RefInv(m)
    PROVE  RefInv(m)'
    <1>1. /\ entry'[m] = entry[m] /\ mount'[m] = mount[m] /\ stop'[m] = stop[m]
          /\ open'[m] = open[m]
        BY Elsewhere DEF Base
    <1>2. /\ Of(m)' = Of(m) /\ (ReleasedTwice(m)' <=> ReleasedTwice(m))
          /\ \A h \in Of(m) : refs'[h] = refs[h] /\ fence'[h] = fence[h]
        BY LeaseElsewhere
    <1> SUFFICES ASSUME ~ReleasedTwice(m)'
                 PROVE  CountInv(m)' /\ EntryRef(m)' /\ MountRef(m)' /\ FenceRef(m)'
        BY DEF RefInv
    <1>3. CountInv(m) /\ EntryRef(m) /\ MountRef(m) /\ FenceRef(m)
        BY <1>2 DEF RefInv
    <1>4. CountInv(m)'
        BY <1>1, <1>2, <1>3 DEF CountInv, Uses
    <1>5. EntryRef(m)' /\ MountRef(m)'
        <2>1. /\ entry[m] # None => entry[m].gen \in Of(m)
              /\ mount[m] # Idle => mount[m].gen \in Of(m)
            BY DEF Base, StageInv, OwnInv, Owned
        <2> QED BY <1>1, <1>2, <1>3, <2>1 DEF EntryRef, MountRef
    <1>6. FenceRef(m)'
        BY <1>1, <1>2, <1>3 DEF FenceRef
    <1> QED BY <1>4, <1>5, <1>6

LEMMA UsesType ==
    ASSUME NEW n, NEW g
    PROVE  /\ Uses(n, g) \in Int /\ Uses(n, g) >= 0 /\ Uses(n, g)' \in Int /\ Uses(n, g)' >= 0
    BY DEF Uses, One

\* What a release changes on its node, if no lease is released twice by it.
LEMMA ReleaseChange ==
    ASSUME Serial, NEW n \in Nodes, RefInv(n), NEW g \in Of(n), Releasing(n, g), ~ReleasedTwice(n)'
    PROVE  /\ refs'[g] = refs[g] - 1
           /\ \A h \in Gens : h # g => refs'[h] = refs[h]
           /\ ~ReleasedTwice(n) /\ refs[g] >= 1
           /\ \A h \in Of(n) : h # g => refs[h] = 0
           /\ entry[n] # None => entry[n].gen = g
           /\ mount[n] # Idle => mount[n].gen = g
           /\ \/ /\ entry'[n] = None /\ mount'[n] = mount[n] /\ mount[n] = Idle
                 /\ stop'[n].seal = stop[n].seal /\ open'[n] = open[n]
              \/ /\ entry'[n] = None /\ entry[n] = None /\ mount'[n] = Idle /\ mount[n].gen = g
                 /\ stop'[n].seal = stop[n].seal /\ open'[n] = open[n]
              \/ /\ entry'[n] = entry[n] /\ mount'[n] = Idle /\ mount[n] = Idle
                 /\ stop'[n].seal = 0 /\ stop[n].seal = g /\ open'[n] = open[n]
              \/ /\ entry'[n] = None /\ entry[n] = None /\ mount'[n] = Idle /\ mount[n] = Idle
                 /\ stop'[n].seal = stop[n].seal /\ open'[n] = 0 /\ open[n] = g
    <1> USE DEF Serial, Base
    <1>1. /\ refs'[g] = refs[g] - 1
          /\ \A h \in Gens : h # g => refs'[h] = refs[h]
          /\ ~ReleasedTwice(n) /\ refs[g] >= 1 /\ held[n] = g
          /\ \A h \in Of(n) : h # g => refs[h] = 0
        BY ReleasingFacts, ReleaseFacts
    <1>2. CountInv(n) /\ EntryRef(n) /\ MountRef(n) /\ FenceRef(n)
        BY <1>1 DEF RefInv
    <1>3. /\ who' = who /\ Of(n)' = Of(n) /\ g \in Gens /\ g # 0
          /\ \A h \in Of(n) : h \in Gens /\ h # 0 /\ refs[h] \in Int
        BY ReleasingFacts DEF Of, Gens, TypeOK
    <1>4. /\ mount[n] \in Mount /\ stop[n] \in Stop /\ entry[n] \in Export
          /\ OwnInv(n) /\ StageInv(n) /\ SerialInv(n)
        BY DEF TypeOK
    <1>5. entry[n] # None => entry[n].gen = g
        <2>1. SUFFICES ASSUME entry[n] # None PROVE entry[n].gen = g
            OBVIOUS
        <2>2. entry[n].gen \in Of(n)
            BY <1>4, <2>1 DEF OwnInv, StageInv, Owned
        <2>3. refs[entry[n].gen] >= 1
            BY <1>2, <1>3, <2>1, <2>2 DEF EntryRef, One
        <2> QED BY <1>1, <2>2, <2>3
    <1>6. mount[n] # Idle => mount[n].gen = g
        <2>1. SUFFICES ASSUME mount[n] # Idle PROVE mount[n].gen = g
            OBVIOUS
        <2>2. mount[n].gen \in Of(n)
            BY <1>4, <2>1 DEF OwnInv, StageInv, Owned
        <2> QED BY <1>1, <1>2, <2>1, <2>2 DEF MountRef
    <1>7. \/ /\ entry'[n] = None /\ mount'[n] = mount[n] /\ mount[n] = Idle
             /\ stop'[n].seal = stop[n].seal /\ open'[n] = open[n]
          \/ /\ entry'[n] = None /\ entry[n] = None /\ mount'[n] = Idle /\ mount[n].gen = g
             /\ stop'[n].seal = stop[n].seal /\ open'[n] = open[n]
          \/ /\ entry'[n] = entry[n] /\ mount'[n] = Idle /\ mount[n] = Idle
             /\ stop'[n].seal = 0 /\ stop[n].seal = g /\ open'[n] = open[n]
          \/ /\ entry'[n] = None /\ entry[n] = None /\ mount'[n] = Idle /\ mount[n] = Idle
             /\ stop'[n].seal = stop[n].seal /\ open'[n] = 0 /\ open[n] = g
        <2>1. CASE MountDropsStale(n)
            BY <1>4, <2>1 DEF MountDropsStale, handlers, TypeOK
        <2>2. CASE (MountGivesUp(n) \/ MountFails(n)) /\ g = mount[n].gen
            BY <1>4, <2>2 DEF MountGivesUp, MountFails, StageInv, TypeOK
        <2>3. CASE SealCloses(n) /\ g = stop[n].seal
            BY <1>4, <2>3 DEF SealCloses, SerialInv, TypeOK, Stop, Idle
        <2>4. CASE SealFails(n) /\ g = stop[n].seal /\ g # 0
            BY <1>4, <2>4 DEF SealFails, SerialInv, StageInv, TypeOK, Stop, Idle
        <2>5. CASE UnmountEnds(n) \/ AbandonEnds(n)
            BY <1>4, <2>5 DEF UnmountEnds, AbandonEnds, SerialInv, StageInv, TypeOK, Stop, Idle
        <2>6. CASE OpenEnds(n) /\ g = open[n]
            BY <1>4, <2>6 DEF OpenEnds, SerialInv, TypeOK
        <2>7. ASSUME NEW f \in Of(n), FenceEnds(f), g = fence[f].gen PROVE mount[n] = Idle
            <3>1. SUFFICES ASSUME mount[n] # Idle PROVE FALSE
                OBVIOUS
            <3>2. entry[n] = None /\ mount[n].gen = g
                BY <1>4, <1>6, <3>1 DEF StageInv
            <3>3. \/ None = [pid |-> fence[f].pid, gen |-> g]
                  \/ g \notin {entry[n].gen, mount[n].gen, open[n]}
                BY <1>2, <2>7, <3>2 DEF FenceRef, FenceEnds
            <3> QED BY <1>3, <3>2, <3>3 DEF None
        <2>8. ASSUME NEW f \in Of(n), FenceEnds(f)
              PROVE  entry'[n] = None /\ UNCHANGED <<mount, stop, open>>
            BY <2>8 DEF FenceEnds, Of, TypeOK
        <2> QED BY <2>1, <2>2, <2>3, <2>4, <2>5, <2>6, <2>7, <2>8 DEF Releasing
    <1> QED BY <1>1, <1>5, <1>6, <1>7

\* A release takes one reference and one use.
LEMMA RefRelease ==
    ASSUME Serial, TypeOK', NEW n \in Nodes, RefInv(n), NEW g \in Of(n), Releasing(n, g)
    PROVE  RefInv(n)'
    <1> USE DEF Serial, Base
    <1> SUFFICES ASSUME ~ReleasedTwice(n)'
                 PROVE  CountInv(n)' /\ EntryRef(n)' /\ MountRef(n)' /\ FenceRef(n)'
        BY DEF RefInv
    <1>1. /\ refs'[g] = refs[g] - 1
          /\ \A h \in Gens : h # g => refs'[h] = refs[h]
          /\ ~ReleasedTwice(n) /\ refs[g] >= 1
          /\ \A h \in Of(n) : h # g => refs[h] = 0
          /\ entry[n] # None => entry[n].gen = g
        BY ReleaseChange DEF Serial
    <1>2. CountInv(n) /\ EntryRef(n) /\ MountRef(n) /\ FenceRef(n)
        BY <1>1 DEF RefInv
    <1>3. /\ who' = who /\ Of(n)' = Of(n) /\ g \in Gens /\ g # 0
          /\ \A h \in Of(n) : h \in Gens /\ h # 0 /\ refs[h] \in Int
        BY ReleasingFacts DEF Of, Gens, TypeOK
    <1>4. /\ mount[n] \in Mount /\ stop[n] \in Stop /\ entry[n] \in Export
          /\ OwnInv(n) /\ StageInv(n) /\ SerialInv(n)
        BY DEF TypeOK
    <1>7. \/ /\ entry'[n] = None /\ mount'[n] = mount[n] /\ mount[n] = Idle
             /\ stop'[n].seal = stop[n].seal /\ open'[n] = open[n]
          \/ /\ entry'[n] = None /\ entry[n] = None /\ mount'[n] = Idle /\ mount[n].gen = g
             /\ stop'[n].seal = stop[n].seal /\ open'[n] = open[n]
          \/ /\ entry'[n] = entry[n] /\ mount'[n] = Idle /\ mount[n] = Idle
             /\ stop'[n].seal = 0 /\ stop[n].seal = g /\ open'[n] = open[n]
          \/ /\ entry'[n] = None /\ entry[n] = None /\ mount'[n] = Idle /\ mount[n] = Idle
             /\ stop'[n].seal = stop[n].seal /\ open'[n] = 0 /\ open[n] = g
        BY ReleaseChange DEF Serial
    <1>8. CountInv(n)'
        <2>1. Uses(n, g)' >= Uses(n, g) - 1
            BY <1>3, <1>7 DEF Uses, One, Idle, None
        <2>2. refs[g] <= Uses(n, g)
            BY <1>2 DEF CountInv
        <2>3. ASSUME NEW h \in Of(n) PROVE refs'[h] <= Uses(n, h)'
            <3>1. CASE h = g
                BY <1>1, <1>3, <2>1, <2>2, <3>1, UsesType
            <3>2. CASE h # g
                BY <1>1, <1>3, <3>2, UsesType
            <3> QED BY <3>1, <3>2
        <2> QED BY <1>3, <2>3 DEF CountInv
    <1>9. EntryRef(n)'
        <2>1. SUFFICES ASSUME entry'[n] # None PROVE refs'[entry'[n].gen] >= 1 + One(stop'[n].seal # 0)
            BY DEF EntryRef
        <2>2. entry'[n] = entry[n] /\ stop'[n].seal = 0 /\ stop[n].seal # 0
            BY <1>3, <1>7, <2>1
        <2>3. entry[n].gen = g /\ refs[g] >= 2
            BY <1>1, <1>2, <1>3, <2>1, <2>2 DEF EntryRef, One
        <2> QED BY <1>1, <1>3, <2>2, <2>3 DEF One
    <1>10. MountRef(n)'
        BY <1>7 DEF MountRef
    <1>11. FenceRef(n)'
        <2>1. SUFFICES ASSUME NEW f \in Of(n), fence'[f].pc \in {"kill", "watch"}
                       PROVE  \/ entry'[n] = [pid |-> fence'[f].pid, gen |-> fence'[f].gen]
                              \/ fence'[f].gen \notin {entry'[n].gen, mount'[n].gen, open'[n]}
            BY <1>3 DEF FenceRef
        <2>2. fence' = fence \/ \E x \in Of(n) : fence' = [fence EXCEPT ![x] = Quiet]
            BY DEF Releasing, MountDropsStale, MountGivesUp, MountFails, SealCloses, SealFails,
                   UnmountEnds, AbandonEnds, OpenEnds, FenceEnds, handlers
        <2>3. fence'[f] = fence[f]
            BY <1>3, <2>1, <2>2 DEF TypeOK, Quiet
        <2>4. fence[f].gen # 0
            BY <1>3, <2>1, <2>3 DEF FenceInv
        <2>5. \/ entry[n] = [pid |-> fence[f].pid, gen |-> fence[f].gen]
              \/ fence[f].gen \notin {entry[n].gen, mount[n].gen, open[n]}
            BY <1>2, <2>1, <2>3 DEF FenceRef
        <2>6. entry[n] # None => mount[n] = Idle /\ open[n] = 0
            BY <1>4 DEF StageInv, SerialInv
        <2> QED BY <1>7, <2>3, <2>4, <2>5, <2>6 DEF Idle, None
    <1> QED BY <1>8, <1>9, <1>10, <1>11

\* An open on an idle node is granted a new lease, since the node has references
\* to none; a seal shares the lease of its entry.
LEMMA RefAcquire ==
    ASSUME Serial, TypeOK', SerialHandlers = TRUE, NEW n \in Nodes, RefInv(n), Acquiring(n)
    PROVE  RefInv(n)'
    <1> USE DEF Serial, Base
    <1>0. /\ mount[n] \in Mount /\ stop[n] \in Stop /\ entry[n] \in Export
          /\ OwnInv(n) /\ StageInv(n) /\ SerialInv(n)
        BY DEF TypeOK
    <1>1. PICK g \in Gens :
              /\ Acquire(n, g) /\ entry'[n] = entry[n]
              /\ \/ /\ entry[n] = None /\ mount[n] = Idle /\ stop[n] = Idle /\ open[n] = 0
                    /\ stop'[n] = stop[n]
                    /\ \/ mount'[n].gen = g /\ open'[n] = 0
                       \/ mount'[n] = Idle /\ open'[n] = g
                 \/ /\ mount[n] = Idle /\ open[n] = 0 /\ mount'[n] = Idle /\ open'[n] = 0
                    /\ stop[n].seal = 0 /\ stop'[n].seal = g
        <2>1. CASE MountBegins(n)
            BY <1>0, <2>1 DEF MountBegins, Alone, TypeOK, Idle
        <2>2. CASE OpenBegins(n)
            BY <1>0, <2>2 DEF OpenBegins, Alone, TypeOK
        <2>3. CASE RecoverAdopts(n)
            BY <1>0, <2>3 DEF RecoverAdopts, StageInv, TypeOK, Idle
        <2>4. CASE SealOpens(n)
            <3>1. stop[n] # Idle /\ stop[n].seal = 0
                BY <1>0, <2>4 DEF SealOpens, StageInv, Idle
            <3>2. mount[n] = Idle /\ open[n] = 0
                BY <1>0, <3>1 DEF SerialInv
            <3>3. PICK g \in Gens :
                      Acquire(n, g) /\ stop' = [stop EXCEPT ![n].pc = "sealing", ![n].seal = g]
                BY <2>4 DEF SealOpens
            <3>4. stop'[n].seal = g
                BY <1>0, <3>3 DEF TypeOK, Stop
            <3> QED BY <2>4, <3>1, <3>2, <3>3, <3>4 DEF SealOpens
        <2> QED BY <2>1, <2>2, <2>3, <2>4 DEF Acquiring
    <1>2. /\ who'[g] = n /\ \A h \in Gens : h # g => who'[h] = who[h]
          /\ \A h \in Gens : h # g => refs'[h] = refs[h]
          /\ \/ who[g] = n /\ held[n] = g /\ holder = g /\ refs[g] > 0 /\ refs'[g] = refs[g] + 1
             \/ who[g] = NoNode /\ g = epoch + 1 /\ held[n] = 0 /\ refs'[g] = 1
          /\ ReleasedTwice(n)' <=> ReleasedTwice(n)
        BY <1>1, AcquireFacts
    <1>3. \A f \in Gens : fence'[f] = fence[f] \/ fence'[f].pc = "due"
        <2>1. \A f \in Gens : fence'[f] = fence[f] \/ fence'[f] = [fence[f] EXCEPT !.pc = "due"]
            BY <1>1, AcquireFacts
        <2> QED BY <2>1 DEF TypeOK, Fence
    <1> SUFFICES ASSUME ~ReleasedTwice(n)'
                 PROVE  CountInv(n)' /\ EntryRef(n)' /\ MountRef(n)' /\ FenceRef(n)'
        BY DEF RefInv
    <1>4. CountInv(n) /\ EntryRef(n) /\ MountRef(n) /\ FenceRef(n)
        BY <1>2 DEF RefInv
    <1>5. /\ Of(n)' = Of(n) \cup {g} /\ g # 0
          /\ \A h \in Of(n) : h \in Gens /\ h # 0 /\ who[h] = n /\ refs[h] \in Int
        BY <1>2, SMTT(30) DEF Of, Gens, TypeOK
    <1>6. ASSUME NEW f \in Of(n)', fence'[f].pc \in {"kill", "watch"}
          PROVE  /\ f \in Of(n) /\ fence'[f] = fence[f]
                 /\ fence[f].gen # 0 /\ fence[f].gen \in Of(n)
        <2>1. f \in Gens /\ fence'[f] = fence[f]
            BY <1>3, <1>6 DEF Of
        <2>2. who[f] \in Nodes /\ fence[f].gen # 0 /\ Owned(who[f], fence[f].gen)
            BY <1>6, <2>1 DEF FenceInv
        <2>3. f \in Of(n)
            BY <1>5, <1>6, <1>2, <2>2 DEF Of
        <2> QED BY <1>5, <2>1, <2>2, <2>3 DEF Owned
    <1>7. CASE /\ entry[n] = None /\ mount[n] = Idle /\ stop[n] = Idle /\ open[n] = 0
               /\ stop'[n] = stop[n]
               /\ \/ mount'[n].gen = g /\ open'[n] = 0
                  \/ mount'[n] = Idle /\ open'[n] = g
        <2>1. \A h \in Of(n) : refs[h] <= 0
            <3>1. \A h \in Of(n) : Uses(n, h) = 0
                BY <1>5, <1>7 DEF Uses, One, Idle, None
            <3> QED BY <1>4, <3>1 DEF CountInv
        <2>2. g \notin Of(n) /\ refs'[g] = 1
            BY <1>2, <1>5, <2>1 DEF Of
        <2>3. ASSUME NEW h \in Of(n)' PROVE refs'[h] <= Uses(n, h)'
            <3>1. CASE h = g
                <4>1. Uses(n, g)' >= 1
                    BY <1>7 DEF Uses, One
                <4> QED BY <2>2, <3>1, <4>1, UsesType
            <3>2. CASE h # g
                <4>1. refs'[h] <= 0 /\ refs'[h] \in Int
                    BY <1>2, <1>5, <2>1, <2>3, <3>2
                <4> QED BY <4>1, UsesType
            <3> QED BY <3>1, <3>2
        <2>4. EntryRef(n)' /\ MountRef(n)'
            BY <1>1, <1>7, <2>2 DEF EntryRef, MountRef
        <2>5. FenceRef(n)'
            BY <1>1, <1>6, <1>7, <2>2 DEF FenceRef, None, Idle
        <2> QED BY <2>3, <2>4, <2>5 DEF CountInv
    <1>8. CASE /\ mount[n] = Idle /\ open[n] = 0 /\ mount'[n] = Idle /\ open'[n] = 0
               /\ stop[n].seal = 0 /\ stop'[n].seal = g
        <2>1. ASSUME NEW h \in Of(n)' PROVE refs'[h] <= Uses(n, h)'
            <3>1. CASE h = g
                <4>1. Uses(n, g)' = Uses(n, g) + 1
                    BY <1>1, <1>5, <1>8 DEF Uses, One
                <4>2. CASE who[g] = n /\ refs'[g] = refs[g] + 1
                    <5>1. g \in Of(n) /\ refs[g] <= Uses(n, g) /\ refs[g] \in Int
                        BY <1>4, <1>5, <4>2 DEF Of, CountInv
                    <5> QED BY <3>1, <4>1, <4>2, <5>1, UsesType
                <4>3. CASE refs'[g] = 1
                    BY <3>1, <4>1, <4>3, UsesType
                <4> QED BY <1>2, <4>2, <4>3
            <3>2. CASE h # g
                <4>1. refs'[h] = refs[h] /\ refs[h] <= Uses(n, h)
                    BY <1>2, <1>4, <1>5, <2>1, <3>2 DEF CountInv
                <4>2. Uses(n, h)' = Uses(n, h)
                    BY <1>1, <1>5, <1>8, <2>1, <3>2 DEF Uses, One
                <4> QED BY <4>1, <4>2
            <3> QED BY <3>1, <3>2
        <2>2. EntryRef(n)'
            <3>1. SUFFICES ASSUME entry[n] # None PROVE refs'[entry[n].gen] >= 2
                BY <1>1, <1>5, <1>8 DEF EntryRef, One
            <3>2. entry[n].gen \in Of(n)
                BY <1>0, <3>1 DEF OwnInv, StageInv, Owned
            <3>3. refs[entry[n].gen] >= 1
                BY <1>4, <1>5, <1>8, <3>1, <3>2 DEF EntryRef, One
            <3>4. held[n] = entry[n].gen
                BY <1>2, <1>5, <3>2, <3>3 DEF LeaseInv
            <3> QED BY <1>2, <1>5, <3>2, <3>3, <3>4
        <2>3. MountRef(n)'
            BY <1>8 DEF MountRef
        <2>4. FenceRef(n)'
            BY <1>1, <1>4, <1>6, <1>8 DEF FenceRef
        <2> QED BY <2>1, <2>2, <2>3, <2>4 DEF CountInv
    <1> QED BY <1>1, <1>7, <1>8

\* The other steps of a node leave its references and who has them, but for a
\* mount that registers, which hands its reference to the entry.
LEMMA LeavingChange ==
    ASSUME Base, NEW n \in Nodes, SerialInv(n), Leaving(n)
    PROVE  \/ /\ entry'[n] = entry[n] /\ mount'[n].gen = mount[n].gen
              /\ mount'[n] # Idle <=> mount[n] # Idle
              /\ stop'[n].seal = stop[n].seal /\ open'[n] = open[n]
           \/ /\ mount[n].pc = "started" /\ entry[n] = None /\ stop[n] = Idle /\ open[n] = 0
              /\ entry'[n] = [pid |-> mount[n].pid, gen |-> mount[n].gen]
              /\ mount'[n] = Idle /\ stop'[n] = stop[n] /\ open'[n] = open[n] /\ fence' = fence
    <1> USE DEF Base
    <1>0. /\ mount[n] \in Mount /\ stop[n] \in Stop /\ entry[n] \in Export
          /\ StageInv(n) /\ SerialInv(n)
        BY DEF TypeOK
    <1>1. CASE MountVets(n) \/ MountStarts(n)
        <2>1. mount'[n].gen = mount[n].gen /\ mount'[n].pc \in {"built", "started"}
            BY <1>0, <1>1 DEF MountVets, MountStarts, TypeOK, Mount
        <2>2. mount[n] # Idle /\ mount'[n] # Idle
            BY <1>1, <2>1 DEF MountVets, MountStarts, Idle
        <2> QED BY <1>1, <2>1, <2>2 DEF MountVets, MountStarts
    <1>2. CASE MountRegisters(n)
        BY <1>0, <1>2 DEF MountRegisters, StageInv, SerialInv, TypeOK, Idle
    <1>3. CASE UnmountBegins(n) \/ AbandonBegins(n) \/ UnmountStops(n) \/ UnmountKillFails(n)
               \/ UnmountSkipsSeal(n) \/ UnmountReaps(n) \/ (SealFails(n) /\ stop[n].seal = 0)
        <2>1. UNCHANGED <<entry, mount, open>>
            BY <1>3 DEF UnmountBegins, AbandonBegins, UnmountStops, UnmountKillFails,
                        UnmountSkipsSeal, UnmountReaps, SealFails, handlers
        <2>2. stop'[n].seal = stop[n].seal
            <3>1. CASE UnmountBegins(n) \/ AbandonBegins(n)
                <4>1. PICK pid, gen : pid = entry[n].pid /\ gen = entry[n].gen
                    OBVIOUS
                <4>2. PICK pc \in {"stopping", "abandon"} :
                          stop'[n] = [Idle EXCEPT !.pc = pc, !.pid = pid, !.gen = gen]
                    BY <3>1, <4>1 DEF UnmountBegins, AbandonBegins, TypeOK
                <4>3. stop[n] = Idle
                    BY <3>1 DEF UnmountBegins, AbandonBegins
                <4> QED BY <4>2, <4>3 DEF Idle
            <3>2. CASE UnmountStops(n) \/ UnmountSkipsSeal(n)
                BY <1>0, <3>2 DEF UnmountStops, UnmountSkipsSeal, TypeOK, Stop
            <3>3. CASE UnmountKillFails(n) \/ (SealFails(n) /\ stop[n].seal = 0)
                <4>1. stop'[n] = Idle
                    BY <3>3 DEF UnmountKillFails, SealFails, TypeOK
                <4>2. stop[n].seal = 0
                    BY <1>0, <3>3 DEF UnmountKillFails, StageInv
                <4> QED BY <4>1, <4>2 DEF Idle
            <3> QED BY <1>3, <3>1, <3>2, <3>3 DEF UnmountReaps, handlers
        <2> QED BY <2>1, <2>2
    <1>4. CASE \/ DaemonStarts(n) \/ RecoverEnds(n)
               \/ \E f \in Of(n) : FenceLooksUp(f) \/ FenceKillFails(f)
               \/ \E k \in Survivors(n) : Write(k) \/ GuestLeaves(k) \/ NbdkitDies(k)
        BY <1>4 DEF DaemonStarts, RecoverEnds, FenceLooksUp, FenceKillFails, Write, GuestLeaves,
                    NbdkitDies, handlers
    <1> QED BY <1>1, <1>2, <1>3, <1>4 DEF Leaving

LEMMA RefLeave ==
    ASSUME Serial, Next, NEW n \in Nodes, RefInv(n), Leaving(n)
    PROVE  RefInv(n)'
    <1> USE DEF Serial, Base
    <1>0. /\ mount[n] \in Mount /\ stop[n] \in Stop /\ entry[n] \in Export
          /\ OwnInv(n) /\ StageInv(n) /\ SerialInv(n)
        BY DEF TypeOK
    <1>1. UNCHANGED <<who, refs>> /\ Of(n)' = Of(n) /\ (ReleasedTwice(n)' <=> ReleasedTwice(n))
        BY LeavingFacts DEF Of, ReleasedTwice
    <1> SUFFICES ASSUME ~ReleasedTwice(n)
                 PROVE  CountInv(n)' /\ EntryRef(n)' /\ MountRef(n)' /\ FenceRef(n)'
        BY <1>1 DEF RefInv
    <1>2. CountInv(n) /\ EntryRef(n) /\ MountRef(n) /\ FenceRef(n)
        BY DEF RefInv
    <1>3. \A h \in Of(n) : h \in Gens /\ h # 0 /\ who[h] = n
        BY DEF Of, Gens
    <1>4. CASE /\ entry'[n] = entry[n] /\ mount'[n].gen = mount[n].gen
               /\ mount'[n] # Idle <=> mount[n] # Idle
               /\ stop'[n].seal = stop[n].seal /\ open'[n] = open[n]
        <2>1. CountInv(n)' /\ EntryRef(n)' /\ MountRef(n)'
            BY <1>1, <1>2, <1>4 DEF CountInv, EntryRef, MountRef, Uses
        <2>2. ASSUME NEW f \in Of(n), fence'[f].pc \in {"kill", "watch"}
              PROVE  \/ entry[n] = [pid |-> fence'[f].pid, gen |-> fence'[f].gen]
                     \/ fence'[f].gen \notin {entry[n].gen, mount[n].gen, open[n]}
            <3>1. \/ fence[f].pc \in {"kill", "watch"} /\ fence'[f].gen = fence[f].gen
                     /\ fence'[f].pid = fence[f].pid
                  \/ fence'[f].gen = entry[n].gen /\ fence'[f].pid = entry[n].pid
                BY <1>3, <2>2, FenceChange DEF Quiet
            <3>2. entry[n] = [pid |-> entry[n].pid, gen |-> entry[n].gen]
                BY <1>0 DEF Export
            <3> QED BY <1>2, <2>2, <3>1, <3>2 DEF FenceRef
        <2> QED BY <1>1, <1>4, <2>1, <2>2 DEF FenceRef
    <1>5. CASE /\ mount[n].pc = "started" /\ entry[n] = None /\ stop[n] = Idle /\ open[n] = 0
               /\ entry'[n] = [pid |-> mount[n].pid, gen |-> mount[n].gen]
               /\ mount'[n] = Idle /\ stop'[n] = stop[n] /\ open'[n] = open[n] /\ fence' = fence
        <2>1. CountInv(n)'
            <3>1. \A h \in Of(n) : Uses(n, h)' = Uses(n, h)
                BY <1>3, <1>5 DEF Uses, One, Idle, None
            <3> QED BY <1>1, <1>2, <3>1 DEF CountInv
        <2>2. EntryRef(n)' /\ MountRef(n)'
            <3>1. mount[n] # Idle
                BY <1>5 DEF Idle
            <3>2. mount[n].gen \in Of(n)
                BY <1>0, <1>5 DEF StageInv, OwnInv, Owned
            <3>3. refs[mount[n].gen] >= 1 /\ refs[mount[n].gen] \in Int
                BY <1>2, <1>3, <3>1, <3>2 DEF MountRef, TypeOK
            <3> QED BY <1>1, <1>5, <3>3 DEF EntryRef, MountRef, One, Idle
        <2>3. FenceRef(n)'
            <3>1. \A f \in Of(n) : fence[f].pc \in {"kill", "watch"} => fence[f].gen # 0
                BY <1>3 DEF FenceInv
            <3> QED BY <1>1, <1>2, <1>5, <3>1 DEF FenceRef, None, Idle
        <2> QED BY <2>1, <2>2, <2>3
    <1> QED BY <1>4, <1>5, LeavingChange

LEMMA RefStep ==
    ASSUME Serial, SerialHandlers = TRUE, Next, \A n \in Nodes : RefInv(n), NEW m \in Nodes
    PROVE  RefInv(m)'
    <1> USE DEF Serial, Base
    <1>0. TypeOK'
        BY TypeStep
    <1>1. ASSUME NEW n \in Nodes, Step(n), m # n PROVE RefInv(m)'
        BY <1>1, RefElsewhere
    <1>2. ASSUME DaemonStops(m) PROVE RefInv(m)'
        <2>1. /\ who' = who /\ entry'[m] = None /\ mount'[m] = Idle /\ stop'[m] = Idle
              /\ \A g \in Of(m) : refs'[g] = 0 /\ fence'[g] = Quiet
            BY <1>2 DEF DaemonStops, TypeOK, Of
        <2>2. CountInv(m)'
            BY <2>1, UsesType DEF CountInv, Of
        <2>3. EntryRef(m)' /\ MountRef(m)' /\ FenceRef(m)'
            BY <2>1 DEF EntryRef, MountRef, FenceRef, Quiet, Of
        <2> QED BY <2>2, <2>3 DEF RefInv
    <1>3. ASSUME Step(m) PROVE RefInv(m)'
        BY <1>0, <1>2, <1>3, RefRelease, RefAcquire, RefLeave DEF Step
    <1>4. ASSUME LeaseLost PROVE RefInv(m)'
        <2>1. UNCHANGED <<who, refs, entry, mount, stop, open>>
            BY <1>4 DEF LeaseLost
        <2>2. \A f \in Gens : fence'[f] = fence[f] \/ fence'[f].pc = "due"
            BY <1>4 DEF LeaseLost, TypeOK, Fence
        <2>3. ~ReleasedTwice(m)' => ~ReleasedTwice(m)
            BY <2>1 DEF ReleasedTwice, Of
        <2>4. FenceRef(m) => FenceRef(m)'
            BY <2>1, <2>2 DEF FenceRef, Of
        <2> QED BY <2>1, <2>3, <2>4 DEF RefInv, CountInv, EntryRef, MountRef, Uses, Of
    <1> QED BY <1>1, <1>3, <1>4, Steps

-----------------------------------------------------------------------------
(* Every process is known or a stray. *)

\* Nor does the step of one node start, or stop tracking, a process of another.
LEMMA SurvivorsElsewhere ==
    ASSUME Base, Next, NEW n \in Nodes, Step(n), NEW m \in Nodes, m # n
    PROVE  /\ Survivors(m)' \subseteq Survivors(m)
           /\ \A k \in Survivors(m) : k \in strays => k \in strays'
    <1> USE DEF Base
    <1>1. Survivors(m)' \subseteq Survivors(m)
        <2>1. CASE alive' \subseteq alive /\ at' = at
            BY <2>1 DEF Survivors
        <2>2. ASSUME NEW x \in Nodes, MountStarts(x) PROVE Survivors(m)' \subseteq Survivors(m)
            <3>1. mount'[x] # mount[x]
                <4>1. PICK k : mount' = [mount EXCEPT ![x].pc = "started", ![x].pid = k]
                    BY <2>2 DEF MountStarts
                <4>2. mount'[x].pc = "started" /\ mount[x].pc = "built"
                    BY <2>2, <4>1 DEF MountStarts, TypeOK, Mount
                <4> QED BY <4>2
            <3>2. x = n
                BY <3>1, Elsewhere
            <3> QED BY <2>2, <3>2 DEF MountStarts, Survivors, TypeOK
        <2> QED BY <2>1, <2>2, ProcChange
    <1>2. \A k \in Survivors(m) : k \in strays => k \in strays'
        <2>1. CASE RecoverAdopts(n)
            BY <2>1 DEF RecoverAdopts, Survivors
        <2>2. CASE ~RecoverAdopts(n)
            BY <2>2 DEF Step, Releasing, MountDropsStale, MountGivesUp, MountFails, SealCloses,
                SealFails, UnmountEnds, AbandonEnds, OpenEnds, FenceEnds, Acquiring, MountBegins,
                SealOpens, OpenBegins, Leaving, MountVets, MountStarts, MountRegisters,
                UnmountBegins, AbandonBegins, UnmountStops, UnmountKillFails, UnmountSkipsSeal,
                UnmountReaps, DaemonStarts, RecoverEnds, FenceLooksUp, FenceKillFails, Write,
                GuestLeaves, NbdkitDies, DaemonStops, history
        <2> QED BY <2>1, <2>2
    <1> QED BY <1>1, <1>2

LEMMA KnownElsewhere ==
    ASSUME Base, Next, NEW n \in Nodes, Step(n), NEW m \in Nodes, m # n, KnownInv(m)
    PROVE  KnownInv(m)'
    <1> USE DEF Base
    <1>1. entry'[m] = entry[m] /\ mount'[m] = mount[m] /\ daemon'[m] = daemon[m]
        BY Elsewhere
    <1>2. ReleasedTwice(m)' <=> ReleasedTwice(m)
        BY LeaseElsewhere
    <1>3. /\ Survivors(m)' \subseteq Survivors(m)
          /\ \A k \in Survivors(m) : k \in strays => k \in strays'
        BY SurvivorsElsewhere
    <1> QED BY <1>1, <1>2, <1>3 DEF KnownInv, Untracked, Serving

LEMMA KnownRelease ==
    ASSUME Serial, NEW n \in Nodes, RefInv(n), KnownInv(n), NEW g \in Of(n), Releasing(n, g)
    PROVE  KnownInv(n)'
    <1> USE DEF Serial, Base
    <1>0. /\ entry[n] \in Export /\ mount[n] \in Mount /\ stop[n] \in Stop
          /\ OwnInv(n) /\ StageInv(n) /\ ProcInv(n) /\ SerialInv(n)
          /\ alive \subseteq Pids /\ 0 \notin Pids
        BY DEF TypeOK, Pids
    <1>1. Survivors(n)' \subseteq Survivors(n) /\ strays \subseteq strays' /\ daemon' = daemon
        BY ReleasingFacts DEF Releasing, MountDropsStale, MountGivesUp, MountFails, SealCloses,
               SealFails, UnmountEnds, AbandonEnds, OpenEnds, FenceEnds, Kill, Survivors, procs,
               history
    <1>2. mount'[n] = mount[n] \/ mount'[n] = Idle
        BY DEF Releasing, MountDropsStale, MountGivesUp, MountFails, SealCloses, SealFails,
               UnmountEnds, AbandonEnds, OpenEnds, FenceEnds, handlers, TypeOK
    <1>3. ASSUME daemon[n] = "up", ~ReleasedTwice(n)', NEW k \in Survivors(n)', k \notin strays',
                 k \notin {entry'[n].pid, mount'[n].pid}
          PROVE  FALSE
        <2>0. /\ ~ReleasedTwice(n) /\ (entry[n] # None => entry[n].gen = g)
              /\ k \in alive' /\ k \in Survivors(n) /\ k \in alive /\ k # 0 /\ k \notin strays
            BY <1>0, <1>1, <1>3, ReleaseChange DEF Survivors
        <2>1. k = entry[n].pid \/ k = mount[n].pid
            BY <1>3, <2>0 DEF KnownInv, Untracked, Serving
        <2>2. CASE k = entry[n].pid
            <3>0. entry[n] # None /\ entry'[n] # entry[n]
                BY <1>3, <2>0, <2>2 DEF None
            <3>1. CASE MountDropsStale(n)
                BY <2>0, <2>2, <3>1 DEF MountDropsStale
            <3>2. CASE UnmountEnds(n)
                BY <1>0, <2>0, <2>2, <3>0, <3>2 DEF UnmountEnds, SerialInv, ProcInv, Idle
            <3>3. CASE AbandonEnds(n)
                BY <1>0, <2>0, <2>2, <3>0, <3>3 DEF AbandonEnds, SerialInv, Idle, Kill
            <3>4. ASSUME NEW f \in Of(n), FenceEnds(f), g = fence[f].gen PROVE FALSE
                <4>1. \/ entry[n] = [pid |-> fence[f].pid, gen |-> fence[f].gen]
                      \/ fence[f].gen # entry[n].gen
                    BY <2>0, <3>4 DEF RefInv, FenceRef, FenceEnds
                <4>2. entry[n].pid = fence[f].pid
                    BY <2>0, <3>0, <3>4, <4>1
                <4> QED BY <2>0, <2>2, <3>4, <4>2 DEF FenceEnds, Kill
            <3>5. CASE MountGivesUp(n) \/ MountFails(n) \/ SealCloses(n) \/ SealFails(n) \/ OpenEnds(n)
                BY <3>0, <3>5 DEF MountGivesUp, MountFails, SealCloses, SealFails, OpenEnds
            <3> QED BY <3>1, <3>2, <3>3, <3>4, <3>5 DEF Releasing
        <2>3. CASE k = mount[n].pid
            <3>0. mount'[n] # mount[n]
                BY <1>3, <2>3
            <3>1. CASE MountGivesUp(n)
                BY <1>0, <2>0, <2>3, <3>1 DEF MountGivesUp, StageInv
            <3>2. CASE MountFails(n)
                BY <1>3, <2>0, <2>3, <3>2 DEF MountFails
            <3> QED BY <3>0, <3>1, <3>2 DEF Releasing, MountDropsStale, SealCloses, SealFails,
                        UnmountEnds, AbandonEnds, OpenEnds, FenceEnds, handlers
        <2> QED BY <2>1, <2>2, <2>3
    <1>4. daemon'[n] = "up" /\ ~ReleasedTwice(n)' => Untracked(n)' \subseteq strays'
        BY <1>1, <1>3 DEF Untracked
    <1> QED BY <1>1, <1>2, <1>4 DEF KnownInv

LEMMA KnownHere ==
    ASSUME Serial, TypeOK', SerialHandlers = TRUE, NEW n \in Nodes, KnownInv(n), Acquiring(n) \/ Leaving(n)
    PROVE  KnownInv(n)'
    <1> USE DEF Serial, Base
    <1>0. /\ entry[n] \in Export /\ mount[n] \in Mount /\ stop[n] \in Stop
          /\ StageInv(n) /\ SerialInv(n)
          /\ alive \subseteq Pids /\ 0 \notin Pids
        BY DEF TypeOK, Pids
    <1>1. ReleasedTwice(n)' <=> ReleasedTwice(n)
        BY AcquiringFacts, AcquireFacts, LeavingFacts DEF ReleasedTwice, Of
    <1>2. CASE MountBegins(n)
        <2>1. /\ UNCHANGED <<alive, at, entry, daemon, strays>> /\ daemon[n] = "up"
              /\ mount[n].pid = 0
            BY <1>2 DEF MountBegins, Serving, procs, host, history, Idle
        <2> QED BY <1>0, <1>1, <2>1 DEF KnownInv, Untracked, Survivors, Serving
    <1>3. CASE RecoverAdopts(n)
        <2>1. PICK k \in Survivors(n), g \in Gens :
                  /\ mount' = [mount EXCEPT ![n] = [Idle EXCEPT !.pc = "started", !.pid = k, !.gen = g]]
                  /\ strays' = (strays \cup Survivors(n)) \ {k}
            BY <1>3 DEF RecoverAdopts
        <2>2. mount'[n].pid = k
            BY <2>1 DEF TypeOK, Idle
        <2>3. UNCHANGED <<alive, at, daemon>> /\ daemon[n] = "recover"
            BY <1>3 DEF RecoverAdopts, procs, host
        <2> QED BY <2>1, <2>2, <2>3 DEF KnownInv, Survivors
    <1>4. CASE MountStarts(n)
        <2>1. PICK k \in Pids :
                  /\ alive' = alive \cup {k} /\ at[k] = NoNode
                  /\ at' = [at EXCEPT ![k] = n]
                  /\ mount' = [mount EXCEPT ![n].pc = "started", ![n].pid = k]
            BY <1>4 DEF MountStarts
        <2>2. mount'[n].pid = k /\ Survivors(n)' \subseteq Survivors(n) \cup {k}
            BY <1>0, <2>1 DEF TypeOK, Mount, Survivors
        <2>3. mount[n].pid = 0 /\ daemon[n] = "up" /\ UNCHANGED <<entry, daemon, strays>>
            BY <1>0, <1>4 DEF MountStarts, StageInv, host, history
        <2>4. 0 \notin Survivors(n)
            BY <1>0 DEF Survivors
        <2> QED BY <1>1, <2>2, <2>3, <2>4 DEF KnownInv, Untracked, Serving
    <1>5. CASE MountRegisters(n)
        <2>1. /\ entry'[n].pid = mount[n].pid /\ daemon'[n] = "up" /\ entry[n].pid = 0
              /\ daemon[n] \in {"up", "recover"} /\ mount[n] # Idle
              /\ UNCHANGED <<alive, at, strays>>
            BY <1>0, <1>5 DEF MountRegisters, StageInv, TypeOK, procs, history, Idle, None
        <2>2. 0 \notin Survivors(n)
            BY <1>0 DEF Survivors
        <2> QED BY <1>1, <2>1, <2>2 DEF KnownInv, Untracked, Survivors, Serving
    <1>6. CASE RecoverEnds(n)
        BY <1>6 DEF RecoverEnds, KnownInv, Untracked, Survivors, Serving, TypeOK, Kill
    <1>7. CASE DaemonStarts(n)
        BY <1>0, <1>7 DEF DaemonStarts, KnownInv, StageInv, handlers, TypeOK
    <1>8. CASE \/ SealOpens(n) \/ OpenBegins(n) \/ MountVets(n)
               \/ UnmountBegins(n) \/ AbandonBegins(n) \/ UnmountStops(n) \/ UnmountKillFails(n)
               \/ UnmountSkipsSeal(n) \/ UnmountReaps(n) \/ SealFails(n)
               \/ \E f \in Of(n) : FenceLooksUp(f) \/ FenceKillFails(f)
               \/ \E k \in Survivors(n) : Write(k) \/ GuestLeaves(k) \/ NbdkitDies(k)
        <2>1. /\ UNCHANGED <<entry, daemon, strays, at>> /\ alive' \subseteq alive
            BY <1>8 DEF SealOpens, OpenBegins, MountVets, UnmountBegins, AbandonBegins,
                UnmountStops, UnmountKillFails, UnmountSkipsSeal, UnmountReaps, SealFails,
                FenceLooksUp, FenceKillFails, Write, GuestLeaves, NbdkitDies, Kill, procs, host,
                history
        <2>2. mount'[n].pid = mount[n].pid /\ (mount'[n] # Idle => mount[n] # Idle)
            <3>1. CASE MountVets(n)
                BY <1>0, <3>1 DEF MountVets, TypeOK, Mount, Idle
            <3>2. CASE ~MountVets(n)
                BY <1>8, <3>2 DEF SealOpens, OpenBegins, UnmountBegins, AbandonBegins,
                    UnmountStops, UnmountKillFails, UnmountSkipsSeal, UnmountReaps, SealFails,
                    FenceLooksUp, FenceKillFails, Write, GuestLeaves, NbdkitDies, handlers
            <3> QED BY <3>1, <3>2
        <2> QED BY <1>1, <2>1, <2>2 DEF KnownInv, Untracked, Survivors, Serving
    <1> QED BY <1>2, <1>3, <1>4, <1>5, <1>6, <1>7, <1>8 DEF Acquiring, Leaving

LEMMA KnownStep ==
    ASSUME Serial, SerialHandlers = TRUE, Next, NEW m \in Nodes, RefInv(m), KnownInv(m)
    PROVE  KnownInv(m)'
    <1> USE DEF Serial
    <1>1. ASSUME NEW n \in Nodes, Step(n), m # n PROVE KnownInv(m)'
        BY <1>1, KnownElsewhere
    <1>2. ASSUME DaemonStops(m) PROVE KnownInv(m)'
        BY <1>2 DEF DaemonStops, KnownInv, Base, TypeOK
    <1>3. ASSUME Step(m) PROVE KnownInv(m)'
        <2>1. TypeOK'
            BY TypeStep DEF Base
        <2> QED BY <1>2, <1>3, <2>1, KnownRelease, KnownHere DEF Step
    <1>4. ASSUME LeaseLost PROVE KnownInv(m)'
        BY <1>4 DEF LeaseLost, KnownInv, Untracked, Survivors, Serving, ReleasedTwice, Of, procs,
                    host, history
    <1> QED BY <1>1, <1>3, <1>4, Steps DEF Serial

-----------------------------------------------------------------------------
(* Every export is leased or to be fenced. *)

\* No step of one node ends the valid lease of another.
LEMMA HolderElsewhere ==
    ASSUME Base, NEW n \in Nodes, Step(n), NEW m \in Nodes, m # n, holder \in Of(m)
    PROVE  holder' = holder
    <1> USE DEF Base
    <1>0. holder \notin Of(n) /\ holder # 0 /\ who[holder] = m
        BY DEF Of, Gens
    <1>1. ASSUME NEW g \in Of(n), Releasing(n, g) PROVE holder' = holder
        BY <1>0, <1>1, ReleasingFacts, ReleaseFacts
    <1>2. ASSUME Acquiring(n) PROVE holder' = holder
        <2>1. PICK g \in Gens : Acquire(n, g)
            BY <1>2, AcquiringFacts
        <2>2. held[n] # 0
            BY <1>0, <2>1 DEF Acquire
        <2> QED BY <2>1, <2>2 DEF Acquire
    <1>3. ASSUME Leaving(n) PROVE holder' = holder
        BY <1>3, LeavingFacts
    <1>4. ASSUME DaemonStops(n) PROVE holder' = holder
        BY <1>0, <1>4 DEF DaemonStops
    <1> QED BY <1>1, <1>2, <1>3, <1>4 DEF Step

LEMMA LeasedElsewhere ==
    ASSUME Base, NEW n \in Nodes, Step(n), NEW m \in Nodes, m # n, LeasedInv(m)
    PROVE  LeasedInv(m)'
    <1>1. entry'[m] = entry[m] /\ mount'[m] = mount[m]
        BY Elsewhere DEF Base
    <1>2. /\ Of(m)' = Of(m) /\ (ReleasedTwice(m)' <=> ReleasedTwice(m))
          /\ \A h \in Of(m) : fence'[h] = fence[h]
        BY LeaseElsewhere
    <1>3. /\ entry[m] # None => entry[m].gen \in Of(m)
          /\ mount[m] # Idle => mount[m].gen \in Of(m)
        BY DEF Base, StageInv, OwnInv, Owned
    <1>4. holder \in Of(m) => holder' = holder
        BY HolderElsewhere
    <1>5. Fenced(m)' <=> Fenced(m)
        BY <1>2 DEF Fenced
    <1> QED BY <1>1, <1>2, <1>3, <1>4, <1>5 DEF LeasedInv

LEMMA LeasedHere ==
    ASSUME Serial, SerialHandlers = TRUE, Next, NEW n \in Nodes, RefInv(n), LeasedInv(n), Step(n)
    PROVE  LeasedInv(n)'
    <1> USE DEF Serial, Base
    <1>0. /\ entry[n] \in Export /\ mount[n] \in Mount /\ stop[n] \in Stop
          /\ OwnInv(n) /\ StageInv(n) /\ SerialInv(n)
          /\ entry[n] # None => entry[n].gen \in Of(n)
          /\ mount[n] # Idle => mount[n].gen \in Of(n)
          /\ \A h \in Of(n) : h \in Gens /\ who[h] = n /\ refs[h] \in Int
        BY DEF TypeOK, StageInv, OwnInv, Owned, Of
    <1> SUFFICES ASSUME ~ReleasedTwice(n)'
                 PROVE  /\ entry'[n] # None =>
                            holder' = entry'[n].gen \/ Fenced(n)' \/ fence'[entry'[n].gen].pc = "missed"
                        /\ mount'[n] # Idle =>
                            holder' = mount'[n].gen \/ fence'[mount'[n].gen].pc \in {"due", "missed"}
        BY DEF LeasedInv
    <1>1. ASSUME NEW g \in Of(n), Releasing(n, g)
          PROVE  /\ mount'[n] = Idle
                 /\ entry'[n] # None =>
                      holder' = entry'[n].gen \/ Fenced(n)' \/ fence'[entry'[n].gen].pc = "missed"
        <2>1. mount'[n] = Idle /\ ~ReleasedTwice(n)
            BY <1>1, ReleaseChange
        <2>2. ASSUME entry'[n] # None
              PROVE  holder' = entry'[n].gen \/ Fenced(n)' \/ fence'[entry'[n].gen].pc = "missed"
            <3>1. entry'[n] = entry[n] /\ stop[n].seal = g /\ entry[n].gen = g /\ g # 0
                BY <1>1, <2>2, ReleaseChange DEF Of, Gens
            <3>2. refs[g] >= 2
                BY <1>0, <2>1, <2>2, <3>1 DEF RefInv, EntryRef, One
            <3>3. holder' = holder /\ who' = who
                BY <1>0, <1>1, <3>2, ReleasingFacts, ReleaseFacts
            <3>4. fence' = fence
                BY <1>1, <2>2 DEF Releasing, MountDropsStale, MountGivesUp, MountFails, SealCloses,
                    SealFails, UnmountEnds, AbandonEnds, OpenEnds, FenceEnds, handlers, TypeOK, Of
            <3> QED BY <2>1, <2>2, <3>1, <3>3, <3>4 DEF LeasedInv, Fenced, Of
        <2> QED BY <2>1, <2>2
    <1>2. ASSUME Acquiring(n)
          PROVE  /\ entry'[n] # None => holder' = entry'[n].gen
                 /\ mount'[n] # Idle => holder' = mount'[n].gen
        <2>1. LeaseInv' /\ TypeOK' /\ RefInv(n)' /\ Local(n)'
            BY <1>2, LeaseStep, TypeStep, RefAcquire, BaseStep DEF Local
        <2>2. EntryRef(n)' /\ MountRef(n)'
            BY <2>1 DEF RefInv
        <2>3. holder' = held'[n]
            BY <1>2, AcquiringFacts, AcquireFacts
        <2>4. \A h \in Of(n)' : refs'[h] > 0 => held'[n] = h
            BY <2>1 DEF LeaseInv
        <2>5. ASSUME entry'[n] # None PROVE holder' = entry'[n].gen
            <3>1. entry'[n].gen \in Of(n)'
                BY <2>1, <2>5 DEF Local, OwnInv, StageInv, Owned
            <3>2. refs'[entry'[n].gen] \in Int
                BY <2>1, <3>1 DEF TypeOK, Of
            <3>3. refs'[entry'[n].gen] > 0
                BY <2>2, <2>5, <3>2 DEF EntryRef, One
            <3> QED BY <2>3, <2>4, <3>1, <3>3
        <2>6. ASSUME mount'[n] # Idle PROVE holder' = mount'[n].gen
            <3>1. mount'[n].gen \in Of(n)'
                BY <2>1, <2>6 DEF Local, OwnInv, StageInv, Owned
            <3>2. refs'[mount'[n].gen] \in Int
                BY <2>1, <3>1 DEF TypeOK, Of
            <3>3. refs'[mount'[n].gen] > 0
                BY <2>2, <2>6, <3>2 DEF MountRef
            <3> QED BY <2>3, <2>4, <3>1, <3>3
        <2> QED BY <2>5, <2>6
    <1>3. ASSUME Leaving(n)
          PROVE  /\ entry'[n] # None =>
                      holder' = entry'[n].gen \/ Fenced(n)' \/ fence'[entry'[n].gen].pc = "missed"
                 /\ mount'[n] # Idle =>
                      holder' = mount'[n].gen \/ fence'[mount'[n].gen].pc \in {"due", "missed"}
        <2>1. UNCHANGED <<holder, who, refs>> /\ Of(n)' = Of(n) /\ ~ReleasedTwice(n)
            BY <1>3, LeavingFacts DEF Of, ReleasedTwice
        <2>2. CASE /\ entry'[n] = entry[n] /\ mount'[n].gen = mount[n].gen
                   /\ mount'[n] # Idle <=> mount[n] # Idle
            <3>1. \A f \in Of(n) :
                    \/ fence'[f] = fence[f]
                    \/ fence[f].pc = "kill" /\ fence'[f].pc = "watch"
                    \/ /\ fence[f].pc = "due"
                       /\ fence'[f].pc = IF entry[n] # None THEN "kill"
                                         ELSE IF mount[n].gen = f THEN "missed" ELSE "none"
                <4>1. CASE \E x \in Of(n) : FenceLooksUp(x)
                    BY <1>0, <4>1 DEF FenceLooksUp, TypeOK, Quiet
                <4>2. CASE \E x \in Of(n) : FenceKillFails(x)
                    BY <1>0, <4>2 DEF FenceKillFails, TypeOK, Fence
                <4>3. CASE ~\E x \in Of(n) : FenceLooksUp(x) \/ FenceKillFails(x)
                    BY <1>3, <4>3 DEF Leaving, MountVets, MountStarts, MountRegisters, UnmountBegins,
                        AbandonBegins, UnmountStops, UnmountKillFails, UnmountSkipsSeal, UnmountReaps,
                        SealFails, DaemonStarts, RecoverEnds, Write, GuestLeaves, NbdkitDies, handlers
                <4> QED BY <4>1, <4>2, <4>3
            <3>2. ASSUME entry[n] # None
                  PROVE  holder = entry[n].gen \/ Fenced(n)' \/ fence'[entry[n].gen].pc = "missed"
                <4>1. Fenced(n) => Fenced(n)'
                    BY <2>1, <3>1, <3>2 DEF Fenced
                <4>2. fence[entry[n].gen].pc = "missed" => fence'[entry[n].gen].pc = "missed"
                    BY <1>0, <3>1, <3>2
                <4> QED BY <2>1, <3>2, <4>1, <4>2 DEF LeasedInv
            <3>3. ASSUME mount[n] # Idle
                  PROVE  holder = mount[n].gen \/ fence'[mount[n].gen].pc \in {"due", "missed"}
                <4>1. entry[n] = None
                    BY <1>0, <3>3 DEF StageInv
                <4> QED BY <1>0, <2>1, <3>1, <3>3, <4>1 DEF LeasedInv
            <3> QED BY <2>1, <2>2, <3>2, <3>3
        <2>3. CASE /\ mount[n].pc = "started" /\ mount'[n] = Idle /\ fence' = fence
                   /\ entry'[n] = [pid |-> mount[n].pid, gen |-> mount[n].gen]
            <3>1. mount[n] # Idle
                BY <2>3 DEF Idle
            <3>2. fence[mount[n].gen].pc = "due" => Fenced(n)'
                BY <1>0, <2>1, <2>3, <3>1 DEF Fenced
            <3> QED BY <2>1, <2>3, <3>1, <3>2 DEF LeasedInv
        <2> QED BY <1>3, <2>2, <2>3, LeavingChange
    <1>4. ASSUME DaemonStops(n) PROVE entry'[n] = None /\ mount'[n] = Idle
        BY <1>4 DEF DaemonStops, TypeOK
    <1> QED BY <1>1, <1>2, <1>3, <1>4 DEF Step

LEMMA LeasedStep ==
    ASSUME Serial, SerialHandlers = TRUE, Next, NEW m \in Nodes, RefInv(m), LeasedInv(m)
    PROVE  LeasedInv(m)'
    <1>1. ASSUME NEW n \in Nodes, Step(n), m # n PROVE LeasedInv(m)'
        BY <1>1, LeasedElsewhere DEF Serial
    <1>2. ASSUME Step(m) PROVE LeasedInv(m)'
        BY <1>2, LeasedHere
    <1>3. ASSUME LeaseLost PROVE LeasedInv(m)'
        <2>0. holder \in Gens
            BY <1>3 DEF LeaseLost, Serial, Base, TypeOK, Gens
        <2>1. /\ UNCHANGED <<who, refs, entry, mount>> /\ fence'[holder].pc = "due"
              /\ \A f \in Gens : f # holder => fence'[f] = fence[f]
            BY <1>3, <2>0 DEF LeaseLost, Serial, Base, TypeOK, Fence
        <2>2. /\ entry[m] # None => entry[m].gen \in Of(m)
              /\ mount[m] # Idle => mount[m].gen \in Of(m)
              /\ Of(m)' = Of(m) /\ \A h \in Of(m) : h \in Gens
            BY <2>1 DEF Serial, Base, StageInv, OwnInv, Owned, Of
        <2>3. ~ReleasedTwice(m)' => ~ReleasedTwice(m)
            BY <2>1 DEF ReleasedTwice, Of
        <2>4. (Fenced(m) => Fenced(m)') /\ (holder \in Of(m) => Fenced(m)')
            BY <2>1, <2>2 DEF Fenced
        <2> QED BY <2>1, <2>2, <2>3, <2>4 DEF LeasedInv
    <1> QED BY <1>1, <1>2, <1>3, Steps DEF Serial

-----------------------------------------------------------------------------
(* Unsealed writes are marked. *)

\* The latest open is never undone.
LEMMA OpenerGrows ==
    ASSUME Base, Next
    PROVE  opener' \in 0 .. MaxGen /\ opener <= opener'
    <1> USE DEF Base
    <1>0. opener \in 0 .. MaxGen
        BY DEF TypeOK
    <1>1. ASSUME NEW n \in Nodes, NEW g \in Of(n), Releasing(n, g) PROVE opener' = opener
        BY <1>1, ReleasingFacts
    <1>2. ASSUME NEW n \in Nodes, Acquiring(n) PROVE opener' \in 0 .. MaxGen /\ opener <= opener'
        <2>1. PICK g \in Gens : Acquire(n, g) /\ opener' \in {opener, g}
            BY <1>2, AcquiringFacts
        <2> QED BY <1>0, <2>1, AcquireFacts DEF Gens
    <1>3. ASSUME NEW n \in Nodes, MountVets(n) PROVE opener' \in 0 .. MaxGen /\ opener <= opener'
        <2>1. mount[n].gen \in 0 .. MaxGen /\ Supersede(n, mount[n].gen)
            BY <1>3 DEF MountVets, Vet, TypeOK, Mount
        <2> QED BY <1>0, <2>1 DEF Supersede
    <1>4. ASSUME NEW n \in Nodes, Leaving(n), ~MountVets(n) PROVE opener' = opener
        BY <1>4 DEF Leaving, MountStarts, MountRegisters, UnmountBegins, AbandonBegins,
            UnmountStops, UnmountKillFails, UnmountSkipsSeal, UnmountReaps, SealFails,
            DaemonStarts, RecoverEnds, FenceLooksUp, FenceKillFails, Write, GuestLeaves,
            NbdkitDies, data
    <1>5. ASSUME NEW n \in Nodes, DaemonStops(n) PROVE opener' = opener
        BY <1>5 DEF DaemonStops, data
    <1>6. ASSUME LeaseLost PROVE opener' = opener
        BY <1>6 DEF LeaseLost, data
    <1> QED BY <1>0, <1>1, <1>2, <1>3, <1>4, <1>5, <1>6, Kinds

LEMMA OpenedStep ==
    ASSUME Base, Next, NEW m \in Nodes, OpenedInv(m)
    PROVE  OpenedInv(m)'
    <1> USE DEF Base
    <1>0. /\ entry[m] \in Export /\ mount[m] \in Mount /\ stop[m] \in Stop
          /\ opener \in 0 .. MaxGen /\ opener' \in 0 .. MaxGen /\ opener <= opener'
          /\ StageInv(m)
        BY OpenerGrows DEF TypeOK
    <1>1. entry[m].gen \in 0 .. MaxGen /\ mount[m].gen \in 0 .. MaxGen /\ stop[m].gen \in 0 .. MaxGen
        BY <1>0 DEF Export, Mount, Stop
    <1>2. ASSUME NEW n \in Nodes, Step(n), m # n PROVE OpenedInv(m)'
        <2>1. entry'[m] = entry[m] /\ mount'[m] = mount[m] /\ stop'[m] = stop[m]
            BY <1>2, Elsewhere
        <2> QED BY <1>0, <1>1, <2>1 DEF OpenedInv
    <1>3. ASSUME NEW g \in Of(m), Releasing(m, g) PROVE OpenedInv(m)'
        <2>1. /\ entry'[m] = entry[m] \/ entry'[m] = None
              /\ mount'[m] = mount[m] \/ mount'[m] = Idle
            BY <1>3 DEF Releasing, MountDropsStale, MountGivesUp, MountFails, SealCloses, SealFails,
                 UnmountEnds, AbandonEnds, OpenEnds, FenceEnds, handlers, TypeOK, Of
        <2>2. stop'[m].gen = stop[m].gen \/ stop'[m] = Idle
            <3>1. CASE SealCloses(m)
                BY <1>0, <3>1 DEF SealCloses, TypeOK, Stop
            <3>2. CASE ~SealCloses(m)
                BY <1>3, <3>2 DEF Releasing, MountDropsStale, MountGivesUp, MountFails, SealFails,
                     UnmountEnds, AbandonEnds, OpenEnds, FenceEnds, handlers, TypeOK
            <3> QED BY <3>1, <3>2
        <2> QED BY <1>0, <1>1, <2>1, <2>2 DEF OpenedInv, Idle, None
    <1>4. ASSUME MountBegins(m) \/ OpenBegins(m) \/ RecoverAdopts(m) PROVE OpenedInv(m)'
        <2>1. entry' = entry /\ stop' = stop
            BY <1>4 DEF MountBegins, OpenBegins, RecoverAdopts
        <2>2. mount'[m].pc \in {"built", "started"} => mount'[m].gen <= opener'
            <3>1. CASE MountBegins(m)
                BY <3>1 DEF MountBegins, TypeOK, Idle
            <3>2. CASE OpenBegins(m)
                BY <1>0, <1>1, <3>2 DEF OpenBegins, OpenedInv
            <3>3. CASE RecoverAdopts(m)
                <4>1. PICK k \in Survivors(m), g \in Gens :
                          /\ mount' = [mount EXCEPT ![m] = [Idle EXCEPT !.pc = "started", !.pid = k, !.gen = g]]
                          /\ Supersede(m, g)
                    BY <3>3 DEF RecoverAdopts
                <4>2. mount'[m].gen = g /\ g \in Int
                    BY <4>1 DEF TypeOK, Idle, Gens
                <4> QED BY <1>0, <4>1, <4>2 DEF Supersede
            <3> QED BY <1>4, <3>1, <3>2, <3>3
        <2> QED BY <1>0, <1>1, <2>1, <2>2 DEF OpenedInv
    <1>5. ASSUME SealOpens(m) PROVE OpenedInv(m)'
        <2>1. PICK g \in Gens : stop' = [stop EXCEPT ![m].pc = "sealing", ![m].seal = g]
            BY <1>5 DEF SealOpens
        <2>2. stop'[m].gen = stop[m].gen /\ entry' = entry /\ mount' = mount
            BY <1>0, <1>5, <2>1 DEF SealOpens, TypeOK, Stop
        <2> QED BY <1>0, <1>1, <2>2 DEF OpenedInv
    <1>6. ASSUME MountVets(m) PROVE OpenedInv(m)'
        <2>1. mount'[m].gen = mount[m].gen /\ entry' = entry /\ stop' = stop /\ Supersede(m, mount[m].gen)
            BY <1>0, <1>6 DEF MountVets, Vet, TypeOK, Mount
        <2>2. mount[m].gen <= opener'
            BY <1>0, <1>1, <2>1 DEF Supersede
        <2> QED BY <1>0, <1>1, <2>1, <2>2 DEF OpenedInv
    <1>7. ASSUME MountStarts(m) PROVE OpenedInv(m)'
        <2>1. PICK k : mount' = [mount EXCEPT ![m].pc = "started", ![m].pid = k]
            BY <1>7 DEF MountStarts
        <2>2. mount'[m].gen = mount[m].gen /\ mount[m].pc = "built" /\ entry' = entry /\ stop' = stop
            BY <1>0, <1>7, <2>1 DEF MountStarts, TypeOK, Mount
        <2> QED BY <1>0, <1>1, <2>2 DEF OpenedInv
    <1>8. ASSUME MountRegisters(m) PROVE OpenedInv(m)'
        <2>1. /\ entry'[m].gen = mount[m].gen /\ mount'[m] = Idle /\ stop' = stop
              /\ mount[m].pc = "started"
            BY <1>8 DEF MountRegisters, TypeOK
        <2> QED BY <1>0, <1>1, <2>1 DEF OpenedInv, Idle
    <1>9. ASSUME UnmountBegins(m) \/ AbandonBegins(m) PROVE OpenedInv(m)'
        <2>1. PICK pid, gen : pid = entry[m].pid /\ gen = entry[m].gen
            OBVIOUS
        <2>2. PICK pc \in {"stopping", "abandon"} :
                  stop'[m] = [Idle EXCEPT !.pc = pc, !.pid = pid, !.gen = gen]
            BY <1>9, <2>1 DEF UnmountBegins, AbandonBegins, TypeOK
        <2>3. stop'[m].gen = entry[m].gen /\ entry' = entry /\ mount' = mount
            BY <1>9, <2>1, <2>2 DEF UnmountBegins, AbandonBegins, Idle
        <2> QED BY <1>0, <1>1, <2>3 DEF OpenedInv
    <1>10. ASSUME Leaving(m), ~MountVets(m), ~MountStarts(m), ~MountRegisters(m),
                  ~UnmountBegins(m), ~AbandonBegins(m)
           PROVE  OpenedInv(m)'
        <2>1. entry' = entry /\ mount' = mount
            BY <1>10 DEF Leaving, UnmountStops, UnmountKillFails, UnmountSkipsSeal, UnmountReaps,
                SealFails, DaemonStarts, RecoverEnds, FenceLooksUp, FenceKillFails, Write,
                GuestLeaves, NbdkitDies, handlers
        <2>2. stop'[m].gen = stop[m].gen \/ stop'[m] = Idle
            <3>1. CASE UnmountStops(m) \/ UnmountSkipsSeal(m)
                BY <1>0, <3>1 DEF UnmountStops, UnmountSkipsSeal, TypeOK, Stop
            <3>2. CASE ~UnmountStops(m) /\ ~UnmountSkipsSeal(m)
                BY <1>10, <3>2 DEF Leaving, UnmountKillFails, UnmountReaps, SealFails, DaemonStarts,
                    RecoverEnds, FenceLooksUp, FenceKillFails, Write, GuestLeaves, NbdkitDies,
                    handlers, TypeOK
            <3> QED BY <3>1, <3>2
        <2> QED BY <1>0, <1>1, <2>1, <2>2 DEF OpenedInv, Idle
    <1>11. ASSUME DaemonStops(m) PROVE OpenedInv(m)'
        BY <1>0, <1>11 DEF DaemonStops, TypeOK, OpenedInv, Idle, None
    <1>12. ASSUME LeaseLost PROVE OpenedInv(m)'
        BY <1>0, <1>1, <1>12 DEF LeaseLost, OpenedInv
    <1> QED BY <1>2, <1>3, <1>4, <1>5, <1>6, <1>7, <1>8, <1>9, <1>10, <1>11, <1>12, Steps
            DEF Step, Acquiring

\* A step that teaches a node no process keeps it disengaged.
LEMMA EngagedKept ==
    ASSUME NEW n \in Nodes, Survivors(n)' \subseteq Survivors(n), strays \subseteq strays',
           daemon'[n] = daemon[n], 0 \notin Survivors(n),
           entry'[n].pid \in {entry[n].pid, 0}, mount'[n].pid \in {mount[n].pid, 0},
           local'[n] = "current" => local[n] = "current",
           mount'[n].pc \in {"built", "started"} => mount[n].pc \in {"built", "started"},
           Engaged(n)'
    PROVE  Engaged(n)
    BY DEF Engaged, Untracked, Serving

\* The seal of an unmount begins after its nbdkit exited.
LEMMA SealingIsDisengaged ==
    ASSUME Serial, NEW n \in Nodes, stop[n].pc \in {"dead", "sealing"}
    PROVE  Survivors(n) \subseteq Untracked(n) /\ mount[n] = Idle
    <1>1. stop[n] # Idle /\ mount[n] = Idle /\ stop[n].pid \notin alive /\ daemon[n] = "up"
        BY DEF Serial, Base, SerialInv, ProcInv, StageInv, Idle
    <1>2. entry[n].pid \in {0, stop[n].pid}
        BY <1>1 DEF Serial, SerialInv, None
    <1>3. 0 \notin alive
        BY DEF Serial, Base, TypeOK, Pids
    <1> QED BY <1>1, <1>2, <1>3 DEF Untracked, Survivors, Serving, Idle

LEMMA MarkElsewhere ==
    ASSUME Serial, Next, NEW n \in Nodes, Step(n), NEW m \in Nodes, m # n,
           OpenedInv(n), MarkInv(m)
    PROVE  MarkInv(m)'
    <1> USE DEF Serial, Base
    <1> DEFINE Opens == MountVets(n) \/ SealOpens(n) \/ OpenBegins(n) \/ RecoverAdopts(n)
    <1>0. /\ opener \in 0 .. MaxGen /\ opener' \in 0 .. MaxGen /\ marker \in Mark
          /\ marker.gen \in 0 .. MaxGen /\ mount[n] \in Mount /\ stop[n] \in Stop
          /\ stop[n].gen \in 0 .. MaxGen
        BY OpenerGrows DEF TypeOK, Mark, Stop
    <1>1. /\ entry'[m] = entry[m] /\ mount'[m] = mount[m] /\ daemon'[m] = daemon[m]
          /\ Of(m)' = Of(m)
        BY Elsewhere, OfElsewhere
    <1>2. /\ Survivors(m)' \subseteq Survivors(m)
          /\ \A k \in Survivors(m) : k \in strays => k \in strays'
        BY SurvivorsElsewhere
    <1>3. m \in unmarked => m \in unmarked'
        BY DEF Step, Releasing, MountDropsStale, MountGivesUp, MountFails, SealCloses,
                SealFails, UnmountEnds, AbandonEnds, OpenEnds, FenceEnds, Acquiring, MountBegins,
                SealOpens, OpenBegins, RecoverAdopts, Leaving, MountVets, MountStarts,
                MountRegisters, UnmountBegins, AbandonBegins, UnmountStops, UnmountKillFails,
                UnmountSkipsSeal, UnmountReaps, DaemonStarts, RecoverEnds, FenceLooksUp,
                FenceKillFails, Write, GuestLeaves, NbdkitDies, DaemonStops, history, Vet
    <1>4. ASSUME NEW g \in Of(n)', Supersede(n, g) PROVE
             \/ opener' = opener /\ local'[m] = local[m]
             \/ opener' = g /\ local'[m] # "current"
        BY <1>4 DEF Supersede, TypeOK
    <1>5. ASSUME Opens
          PROVE  \E g \in Of(n)' : /\ Supersede(n, g)
                                   /\ marker' = marker \/ CanMark(g)
        <2>1. CASE MountVets(n)
            <3>1. mount[n].gen \in Of(n) /\ Of(n) \subseteq Of(n)'
                BY <2>1, OfGrows DEF MountVets, StageInv, OwnInv, Owned
            <3> QED BY <2>1, <3>1 DEF MountVets, Vet
        <2>2. ASSUME NEW g \in Gens, Acquire(n, g) PROVE g \in Of(n)'
            BY <2>2, AcquireFacts DEF Of
        <2>3. CASE SealOpens(n) \/ OpenBegins(n)
            BY <2>2, <2>3 DEF SealOpens, OpenBegins, Vet
        <2>4. CASE RecoverAdopts(n)
            BY <2>2, <2>4 DEF RecoverAdopts
        <2> QED BY <1>5, <2>1, <2>3, <2>4
    <1>6. ASSUME ~Opens
          PROVE  /\ opener' = opener /\ (local'[m] = "current" => local[m] = "current")
                 /\ \/ marker' = marker
                    \/ Clear(n, stop[n].gen)
                    \/ MarkFailedSeal(n, stop[n].gen)
        <2>1. CASE Leaving(n) \/ MountBegins(n) \/ DaemonStops(n)
            <3>1. opener' = opener
                BY <1>6, <2>1 DEF Leaving, MountStarts, MountRegisters, UnmountBegins, AbandonBegins,
                    UnmountStops, UnmountKillFails, UnmountSkipsSeal, UnmountReaps, SealFails,
                    DaemonStarts, RecoverEnds, FenceLooksUp, FenceKillFails, Write, GuestLeaves,
                    NbdkitDies, data, DaemonStops, MountBegins
            <3>2. local'[m] = local[m]
                <4>1. ASSUME NEW k \in Survivors(n), Write(k) \/ GuestLeaves(k) PROVE local'[m] = local[m]
                    <5>1. at[k] = n
                        BY DEF Survivors
                    <5> QED BY <4>1, <5>1 DEF Write, GuestLeaves, PluginCloses, TypeOK
                <4>2. CASE UnmountStops(n)
                    <5>1. at[stop[n].pid] = n
                        BY <4>2 DEF UnmountStops, ProcInv
                    <5> QED BY <4>2, <5>1 DEF UnmountStops, PluginCloses, TypeOK
                <4> QED BY <1>6, <2>1, <4>1, <4>2 DEF Leaving, MountStarts, MountRegisters,
                    UnmountBegins, AbandonBegins, UnmountKillFails, UnmountSkipsSeal, UnmountReaps,
                    SealFails, DaemonStarts, RecoverEnds, FenceLooksUp, FenceKillFails, NbdkitDies,
                    data, DaemonStops, MountBegins
            <3>3. marker' = marker \/ Clear(n, stop[n].gen) \/ MarkFailedSeal(n, stop[n].gen)
                BY <1>6, <2>1 DEF Leaving, MountStarts, MountRegisters, UnmountBegins, AbandonBegins,
                    UnmountStops, UnmountKillFails, UnmountSkipsSeal, UnmountReaps, SealFails,
                    DaemonStarts, RecoverEnds, FenceLooksUp, FenceKillFails, Write, GuestLeaves,
                    NbdkitDies, DaemonStops, MountBegins
            <3> QED BY <3>1, <3>2, <3>3
        <2>2. ASSUME NEW g \in Of(n), Releasing(n, g)
              PROVE  /\ opener' = opener /\ (local'[m] = "current" => local[m] = "current")
                     /\ \/ marker' = marker
                        \/ Clear(n, stop[n].gen)
                        \/ MarkFailedSeal(n, stop[n].gen)
            BY <2>2, ReleasingFacts DEF Releasing, MountDropsStale, MountGivesUp, MountFails,
                 SealCloses, SealFails, UnmountEnds, AbandonEnds, OpenEnds, FenceEnds, data, TypeOK
        <2> QED BY <1>6, <2>1, <2>2 DEF Step, Acquiring
    <1>7. /\ local'[m] = "current" => local[m] = "current"
          /\ opener' = opener \/ (opener' \notin Of(m)' /\ local'[m] # "current")
        <2>1. \A g \in Of(n)' : g \notin Of(m)'
            BY DEF Of
        <2>2. CASE Opens
            BY <1>4, <1>5, <2>1, <2>2
        <2> QED BY <1>6, <2>2
    <1>8. local'[m] = "current" => opener' \in Of(m)'
        BY <1>1, <1>7 DEF MarkInv
    <1>9. ASSUME Engaged(m)', opener' \in Of(m)', m \notin unmarked'
          PROVE  marker'.owner = m /\ marker'.gen >= opener'
        <2>1. opener' = opener /\ opener \in Of(m) /\ opener \notin Of(n)' /\ opener \notin Of(n)
            BY <1>1, <1>7, <1>9, OfGrows DEF Of
        <2>2. Engaged(m)
            BY <1>1, <1>2, <1>7, <1>9 DEF Engaged, Untracked, Serving
        <2>3. marker.owner = m /\ marker.gen >= opener
            BY <1>3, <1>9, <2>1, <2>2 DEF MarkInv
        <2>4. CASE Opens
            <3>1. PICK g \in Of(n)' : Supersede(n, g) /\ (marker' = marker \/ CanMark(g))
                BY <1>5, <2>4
            <3>2. g \in Int /\ g # opener
                BY <2>1 DEF Of, Gens
            <3>3. ~CanMark(g)
                BY <1>0, <2>1, <2>3, <3>1, <3>2 DEF Supersede, CanMark
            <3> QED BY <2>1, <2>3, <3>1, <3>3
        <2>5. CASE ~Opens
            <3>1. Clear(n, stop[n].gen) => marker' = marker
                BY <2>3 DEF Clear
            <3>2. MarkFailedSeal(n, stop[n].gen) => marker' = marker
                <4>1. SUFFICES ASSUME CanMark(stop[n].gen) PROVE FALSE
                    BY DEF MarkFailedSeal
                <4>2. stop[n].gen = opener /\ stop[n].gen # 0
                    BY <1>0, <2>1, <2>3, <4>1 DEF CanMark, OpenedInv, Of, Gens
                <4>3. stop[n].gen \in Of(n)
                    BY <4>2 DEF OwnInv, Owned
                <4> QED BY <2>1, <4>2, <4>3
            <3> QED BY <1>6, <2>1, <2>3, <2>5, <3>1, <3>2
        <2> QED BY <2>4, <2>5
    <1> QED BY <1>8, <1>9 DEF MarkInv

LEMMA MarkOpens ==
    ASSUME Serial, Next, NEW n \in Nodes, MountVets(n) \/ Acquiring(n), MarkInv(n)
    PROVE  MarkInv(n)'
    <1> USE DEF Serial, Base
    <1>0. opener \in 0 .. MaxGen /\ opener' \in 0 .. MaxGen /\ mount[n] \in Mount
        BY OpenerGrows DEF TypeOK
    <1>1. CASE MountVets(n)
        <2>1. PICK g \in Of(n) : g = mount[n].gen
            BY <1>1 DEF MountVets, StageInv, OwnInv, Owned
        <2>2. /\ who' = who /\ Vet(n, g) /\ marker' = [owner |-> n, gen |-> g] /\ Supersede(n, g)
            BY <1>1, <2>1 DEF MountVets, Vet, lease
        <2>3. \A h \in Of(n) : h <= g
            BY <1>1, <2>1 DEF MountVets, SerialInv, Idle
        <2>4. g \in Int
            BY DEF Of, Gens
        <2>5. opener' \in Of(n) => opener' <= g
            BY <2>3
        <2>6. local'[n] = "current" => opener' \in Of(n)
            BY <2>2 DEF Supersede, MarkInv, TypeOK
        <2> QED BY <2>2, <2>5, <2>6, <2>4, <1>0 DEF MarkInv, Of
    <1>2. CASE SealOpens(n) \/ OpenBegins(n)
        <2>1. PICK g \in Gens : Acquire(n, g) /\ Vet(n, g)
            BY <1>2 DEF SealOpens, OpenBegins
        <2>2. opener <= g /\ g \in Of(n)' /\ g \in Int
            BY <2>1, AcquireFacts DEF Of, Gens
        <2>3. opener' = g /\ marker' = [owner |-> n, gen |-> g]
            BY <1>0, <2>1, <2>2 DEF Vet, Supersede
        <2> QED BY <2>2, <2>3 DEF MarkInv
    <1>3. CASE RecoverAdopts(n)
        <2>1. PICK g \in Gens : Acquire(n, g) /\ Supersede(n, g) /\ n \in unmarked'
            BY <1>3 DEF RecoverAdopts
        <2>2. opener <= g /\ g \in Of(n)' /\ g \in Int
            BY <2>1, AcquireFacts DEF Of, Gens
        <2>3. opener' = g
            BY <1>0, <2>1, <2>2 DEF Supersede
        <2> QED BY <2>1, <2>2, <2>3 DEF MarkInv
    <1>4. CASE MountBegins(n)
        <2>1. PICK g \in Gens :
                  /\ Acquire(n, g)
                  /\ mount' = [mount EXCEPT ![n] = [Idle EXCEPT !.pc = "leased", !.gen = g]]
            BY <1>4 DEF MountBegins
        <2>2. mount'[n].pc = "leased" /\ mount'[n].pid = 0 /\ mount[n].pid = 0
            BY <1>4, <2>1 DEF MountBegins, TypeOK, Idle
        <2>3. UNCHANGED <<alive, at, entry, daemon, strays, local, opener, unmarked, marker>>
            BY <1>4 DEF MountBegins, procs, host, history
        <2>4. Engaged(n)' => Engaged(n)
            BY <2>2, <2>3 DEF Engaged, Untracked, Survivors, Serving
        <2>5. opener \in Of(n)' <=> opener \in Of(n)
            <3>1. opener <= epoch /\ epoch \in Int
                BY DEF LeaseInv, TypeOK
            <3>2. /\ \A h \in Gens : h # g => who'[h] = who[h]
                  /\ who'[g] = n /\ (who[g] = n \/ g = epoch + 1)
                BY <2>1, AcquireFacts
            <3> QED BY <1>0, <3>1, <3>2 DEF Of
        <2> QED BY <2>3, <2>4, <2>5 DEF MarkInv
    <1> QED BY <1>1, <1>2, <1>3, <1>4 DEF Acquiring

LEMMA MarkHere ==
    ASSUME Serial, Next, NEW n \in Nodes, Step(n), ~MountVets(n), ~Acquiring(n),
           MarkInv(n), OpenedInv(n)
    PROVE  MarkInv(n)'
    <1> USE DEF Serial, Base
    <1>0. /\ 0 \notin Survivors(n) /\ marker \in Mark /\ marker.gen \in 0 .. MaxGen
          /\ entry[n] \in Export /\ mount[n] \in Mount /\ stop[n] \in Stop
          /\ stop[n].gen \in 0 .. MaxGen /\ opener \in 0 .. MaxGen
        BY DEF Survivors, TypeOK, Pids, Mark, Stop
    <1>1. UNCHANGED <<who, opener>> /\ Of(n)' = Of(n)
        BY ReleasingFacts DEF Step, Leaving, MountStarts, MountRegisters, UnmountBegins,
            AbandonBegins, UnmountStops, UnmountKillFails, UnmountSkipsSeal, UnmountReaps,
            SealFails, DaemonStarts, RecoverEnds, FenceLooksUp, FenceKillFails, Write, GuestLeaves,
            NbdkitDies, DaemonStops, data, lease, Of
    <1>2. n \in unmarked => n \in unmarked'
        BY ReleasingFacts DEF Step, Leaving, MountStarts, MountRegisters, UnmountBegins,
            AbandonBegins, UnmountStops, UnmountKillFails, UnmountSkipsSeal, UnmountReaps,
            SealFails, DaemonStarts, RecoverEnds, FenceLooksUp, FenceKillFails, Write, GuestLeaves,
            NbdkitDies, DaemonStops, history
    <1>3. CASE MountStarts(n) \/ MountRegisters(n)
        <2>1. Engaged(n) /\ UNCHANGED <<local, marker>>
            BY <1>3 DEF MountStarts, MountRegisters, Engaged, data
        <2> QED BY <1>1, <1>2, <2>1 DEF MarkInv
    <1>4. ASSUME NEW k \in Survivors(n), Write(k) PROVE MarkInv(n)'
        <2>1. /\ at[k] = n /\ marker' = marker
              /\ local'[n] = IF opener \in Of(n) THEN "current" ELSE "superseded"
              /\ unmarked' = IF k \in strays \cup Untracked(n) THEN unmarked \cup {n} ELSE unmarked
            BY <1>4 DEF Write, Survivors, TypeOK
        <2>2. n \notin unmarked' => Engaged(n)
            BY <2>1 DEF Engaged
        <2> QED BY <1>1, <1>2, <2>1, <2>2 DEF MarkInv
    <1>5. CASE SealCloses(n) \/ UnmountSkipsSeal(n)
        <2>1. stop[n].pc \in {"dead", "sealing"} /\ local'[n] = "none"
            BY <1>5 DEF SealCloses, UnmountSkipsSeal, TypeOK
        <2>2. Survivors(n) \subseteq Untracked(n) /\ mount[n] = Idle
            BY <2>1, SealingIsDisengaged
        <2>3. UNCHANGED <<alive, at, entry, mount, daemon>>
            BY <1>5 DEF SealCloses, UnmountSkipsSeal, procs, host
        <2>4. ~Engaged(n)'
            BY <2>1, <2>2, <2>3 DEF Engaged, Untracked, Survivors, Serving, Idle
        <2> QED BY <2>1, <2>4 DEF MarkInv
    <1>6. CASE SealFails(n)
        <2>1. /\ UNCHANGED <<alive, at, entry, mount, daemon, local, unmarked, strays>>
              /\ marker' = marker \/ (CanMark(stop[n].gen) /\ marker' = [owner |-> n, gen |-> stop[n].gen])
            BY <1>6 DEF SealFails, MarkFailedSeal, procs, host, data, history
        <2>2. Engaged(n)' => Engaged(n)
            BY <2>1 DEF Engaged, Untracked, Survivors, Serving
        <2>3. ASSUME Engaged(n)', opener \in Of(n), n \notin unmarked
              PROVE  marker'.owner = n /\ marker'.gen >= opener
            <3>1. marker.owner = n /\ marker.gen >= opener
                BY <2>2, <2>3 DEF MarkInv
            <3> QED BY <1>0, <2>1, <3>1 DEF CanMark
        <2> QED BY <1>1, <2>1, <2>3 DEF MarkInv
    <1>7. CASE DaemonStops(n)
        <2>1. /\ UNCHANGED <<at, local, marker>> /\ alive' \subseteq alive
              /\ daemon'[n] = "down" /\ mount'[n] = Idle /\ strays' = strays \cup Untracked(n)
            BY <1>7 DEF DaemonStops, Kill, TypeOK, data
        <2>2. Engaged(n)' => Engaged(n)
            BY <2>1 DEF Engaged, Survivors, Idle
        <2> QED BY <1>1, <1>2, <2>1, <2>2 DEF MarkInv
    <1>8. CASE DaemonStarts(n)
        <2>1. /\ UNCHANGED <<alive, at, entry, mount, local, marker, strays>>
              /\ ~Serving(n) /\ ~Serving(n)'
            BY <1>8 DEF DaemonStarts, procs, handlers, data, history, Serving, TypeOK
        <2>2. Engaged(n)' => Engaged(n)
            BY <2>1 DEF Engaged, Survivors, Untracked
        <2> QED BY <1>1, <1>2, <2>1, <2>2 DEF MarkInv
    <1>9. CASE RecoverEnds(n)
        <2>1. UNCHANGED <<at, local, marker, mount>> /\ mount[n] = Idle /\ Survivors(n)' \subseteq strays'
            BY <1>9 DEF RecoverEnds, handlers, data, Survivors, Kill
        <2>2. Engaged(n)' => Engaged(n)
            BY <2>1 DEF Engaged, Idle
        <2> QED BY <1>1, <1>2, <2>1, <2>2 DEF MarkInv
    <1>10. CASE /\ (\E g \in Of(n) : Releasing(n, g)) \/ Leaving(n)
                /\ ~MountStarts(n) /\ ~MountRegisters(n) /\ ~(\E k \in Survivors(n) : Write(k))
                /\ ~SealCloses(n) /\ ~UnmountSkipsSeal(n) /\ ~SealFails(n)
                /\ ~DaemonStarts(n) /\ ~RecoverEnds(n)
        <2>1. /\ UNCHANGED <<at, daemon, marker>> /\ alive' \subseteq alive
              /\ strays \subseteq strays'
            BY <1>10 DEF Releasing, MountDropsStale, MountGivesUp, MountFails, UnmountEnds,
                AbandonEnds, OpenEnds, FenceEnds, Leaving, UnmountBegins, AbandonBegins,
                UnmountStops, UnmountKillFails, UnmountReaps, FenceLooksUp, FenceKillFails,
                GuestLeaves, NbdkitDies, Kill, procs, host, history
        <2>2. entry'[n] \in {entry[n], None} /\ mount'[n] \in {mount[n], Idle}
            BY <1>10 DEF Releasing, MountDropsStale, MountGivesUp, MountFails, UnmountEnds,
                AbandonEnds, OpenEnds, FenceEnds, Leaving, UnmountBegins, AbandonBegins,
                UnmountStops, UnmountKillFails, UnmountReaps, FenceLooksUp, FenceKillFails,
                GuestLeaves, NbdkitDies, handlers, TypeOK, Of
        <2>3. local'[n] = "current" => local[n] = "current"
            <3>1. ASSUME NEW k, PluginCloses(k) PROVE local'[n] = "current" => local[n] = "current"
                BY <3>1 DEF PluginCloses, TypeOK
            <3> QED BY <1>10, <3>1 DEF Releasing, MountDropsStale, MountGivesUp, MountFails,
                UnmountEnds, AbandonEnds, OpenEnds, FenceEnds, Leaving, UnmountBegins,
                AbandonBegins, UnmountStops, UnmountKillFails, UnmountReaps, FenceLooksUp,
                FenceKillFails, GuestLeaves, NbdkitDies, data, TypeOK
        <2>4. Engaged(n)' => Engaged(n)
            <3>1. Survivors(n)' \subseteq Survivors(n)
                BY <2>1 DEF Survivors
            <3>2. entry'[n].pid \in {entry[n].pid, 0} /\ mount'[n].pid \in {mount[n].pid, 0}
                BY <2>2 DEF None, Idle
            <3>3. mount'[n].pc \in {"built", "started"} => mount[n].pc \in {"built", "started"}
                BY <2>2 DEF Idle
            <3> QED BY <1>0, <2>1, <2>3, <3>1, <3>2, <3>3, EngagedKept
        <2> QED BY <1>1, <1>2, <2>1, <2>3, <2>4 DEF MarkInv
    <1> QED BY <1>3, <1>4, <1>5, <1>6, <1>7, <1>8, <1>9, <1>10 DEF Step

LEMMA MarkStep ==
    ASSUME Serial, Next, \A n \in Nodes : OpenedInv(n), NEW m \in Nodes, MarkInv(m)
    PROVE  MarkInv(m)'
    <1>1. ASSUME NEW n \in Nodes, Step(n), m # n PROVE MarkInv(m)'
        BY <1>1, MarkElsewhere
    <1>2. ASSUME Step(m) PROVE MarkInv(m)'
        BY <1>2, MarkOpens, MarkHere
    <1>3. ASSUME LeaseLost PROVE MarkInv(m)'
        BY <1>3 DEF LeaseLost, MarkInv, Engaged, Untracked, Survivors, Serving, Of, procs, host,
                    data, history
    <1> QED BY <1>1, <1>2, <1>3, Steps DEF Serial

\* No open that can read the marker discards the writes it stands for.
LEMMA NothingDiscarded ==
    ASSUME Serial, Next, \A n \in Nodes : MarkInv(n), discarded = {}
    PROVE  discarded' = {}
    <1> USE DEF Serial, Base
    <1>1. ASSUME NEW n \in Nodes, NEW g, Vet(n, g) PROVE discarded' = {}
        <2>1. PICK gone \in SUBSET (Nodes \ {n}), readable \in BOOLEAN :
                  /\ Permitted(n, gone, readable)
                  /\ discarded' = discarded \cup
                       {m \in Nodes \ (unmarked \cup gone \cup {n}) : readable /\ local[m] = "current"}
            BY <1>1 DEF Vet
        <2>2. ASSUME NEW m \in Nodes \ (unmarked \cup gone \cup {n}), readable, local[m] = "current"
              PROVE  FALSE
            <3>1. marker.owner = m
                BY <2>2 DEF MarkInv, Engaged
            <3> QED BY <2>1, <2>2, <3>1 DEF Permitted
        <2> QED BY <2>1, <2>2
    <1>2. ASSUME NEW n \in Nodes, Step(n) PROVE discarded' = {} \/ \E g : Vet(n, g)
        BY <1>2, ReleasingFacts DEF Step, Acquiring, MountBegins, SealOpens, OpenBegins,
            RecoverAdopts, Leaving, MountVets, MountStarts, MountRegisters, UnmountBegins,
            AbandonBegins, UnmountStops, UnmountKillFails, UnmountSkipsSeal, UnmountReaps,
            SealFails, DaemonStarts, RecoverEnds, FenceLooksUp, FenceKillFails, Write, GuestLeaves,
            NbdkitDies, DaemonStops, history
    <1>3. ASSUME LeaseLost PROVE discarded' = {}
        BY <1>3 DEF LeaseLost, history
    <1> QED BY <1>1, <1>2, <1>3, Steps

-----------------------------------------------------------------------------
(* The theorems about handlers that do not overlap. *)

LEMMA InitInv == Init => IInv
    <1> SUFFICES ASSUME Init PROVE IInv
        OBVIOUS
    <1>1. Base
        BY BaseInit
    <1>2. discarded = {}
        BY DEF Init
    <1>3. ASSUME NEW n \in Nodes
          PROVE  /\ SerialInv(n) /\ RefInv(n) /\ KnownInv(n) /\ LeasedInv(n) /\ OpenedInv(n)
                 /\ MarkInv(n)
        <2>1. /\ entry[n] = None /\ mount[n] = Idle /\ stop[n] = Idle /\ open[n] = 0
              /\ Of(n) = {} /\ Survivors(n) = {} /\ local[n] = "none" /\ opener = 0
            BY DEF Init, Of, Survivors
        <2>2. SerialInv(n) /\ RefInv(n)
            BY <2>1 DEF SerialInv, RefInv, CountInv, EntryRef, MountRef, FenceRef
        <2>3. KnownInv(n) /\ LeasedInv(n)
            BY <2>1 DEF KnownInv, LeasedInv, Untracked
        <2>4. OpenedInv(n) /\ MarkInv(n)
            BY <2>1 DEF OpenedInv, MarkInv, Idle, None
        <2> QED BY <2>2, <2>3, <2>4
    <1> QED BY <1>1, <1>2, <1>3 DEF IInv, Base

LEMMA NextInv == SerialHandlers = TRUE /\ IInv /\ Next => IInv'
    <1> SUFFICES ASSUME SerialHandlers = TRUE, IInv, Next PROVE IInv'
        OBVIOUS
    <1>1. Base /\ Serial
        BY DEF IInv, Base, Serial
    <1>2. Base'
        BY <1>1, BaseStep
    <1>3. discarded' = {}
        BY <1>1, NothingDiscarded DEF IInv
    <1>4. ASSUME NEW n \in Nodes
          PROVE  /\ SerialInv(n)' /\ RefInv(n)' /\ KnownInv(n)' /\ LeasedInv(n)'
                 /\ OpenedInv(n)' /\ MarkInv(n)'
        BY <1>1, SerialStep, RefStep, KnownStep, LeasedStep, OpenedStep, MarkStep DEF IInv
    <1> QED BY <1>2, <1>3, <1>4 DEF IInv, Base

LEMMA StutterInv == IInv /\ UNCHANGED vars => IInv'
    <1> SUFFICES ASSUME IInv, UNCHANGED vars PROVE IInv'
        OBVIOUS
    <1>1. Base'
        BY BaseStutter DEF IInv, Base
    <1> USE DEF vars, lease, procs, handlers, host, data, history
    <1>2. discarded' = {}
        BY DEF IInv
    <1>3. ASSUME NEW n \in Nodes
          PROVE  /\ SerialInv(n)' /\ RefInv(n)' /\ KnownInv(n)' /\ LeasedInv(n)'
                 /\ OpenedInv(n)' /\ MarkInv(n)'
        <2>1. SerialInv(n)' /\ OpenedInv(n)'
            BY DEF IInv, SerialInv, OpenedInv, Of
        <2>2. RefInv(n)'
            BY DEF IInv, RefInv, CountInv, EntryRef, MountRef, FenceRef, ReleasedTwice, Uses, Of
        <2>3. KnownInv(n)' /\ LeasedInv(n)'
            BY DEF IInv, KnownInv, LeasedInv, Untracked, Survivors, Serving, Fenced, ReleasedTwice, Of
        <2>4. MarkInv(n)'
            BY DEF IInv, MarkInv, Engaged, Untracked, Survivors, Serving, Of
        <2> QED BY <2>1, <2>2, <2>3, <2>4
    <1> QED BY <1>1, <1>2, <1>3 DEF IInv, Base

LEMMA Invariance == ASSUME SerialHandlers = TRUE PROVE Spec => []IInv
    <1>1. IInv /\ [Next]_vars => IInv'
        BY NextInv, StutterInv
    <1> QED BY <1>1, InitInv, PTL DEF Spec

(* Where the handlers of a node do not overlap, a running nbdkit that is not a  *)
(* stray is being mounted, or registered under a valid lease or with a fence on *)
(* its way, or the export whose fence looked before mountVolume registered it;  *)
(* unless a lease of its node was released twice (mountVolume, fenceVolume and  *)
(* finishTeardown).                                                             *)
THEOREM WritersAreFenced == ASSUME SerialHandlers = TRUE PROVE Spec => []WriterIsLeasedOrFenced
    <1>1. IInv => WriterIsLeasedOrFenced
        <2> SUFFICES ASSUME IInv, NEW k \in alive \ strays, daemon[at[k]] = "up",
                            ~ReleasedTwice(at[k]), mount[at[k]].pid # k
                     PROVE  /\ entry[at[k]].pid = k
                            /\ \/ holder = entry[at[k]].gen
                               \/ Fencing(entry[at[k]].gen)
                               \/ fence[entry[at[k]].gen].pc = "missed"
            BY DEF WriterIsLeasedOrFenced
        <2>1. PICK n \in Nodes : n = at[k]
            BY DEF IInv, PlaceInv
        <2>2. entry[n].pid = k
            BY <2>1 DEF IInv, KnownInv, Untracked, Survivors, Serving
        <2>3. k # 0
            BY DEF IInv, TypeOK, Pids
        <2>4. entry[n] # None
            BY <2>2, <2>3 DEF None
        <2>5. entry[n].gen \in Of(n)
            BY <2>4 DEF IInv, StageInv, OwnInv, Owned
        <2>6. Fenced(n) => Fencing(entry[n].gen)
            BY <2>5 DEF Fenced, Fencing, Of
        <2> QED BY <2>1, <2>2, <2>4, <2>6 DEF IInv, LeasedInv
    <1> QED BY <1>1, Invariance, PTL

(* Where the handlers of a node do not overlap, the writes that the backend     *)
(* lacks on the node whose copy counts are under a marker that names the node   *)
(* (volume_dirty.go's mark, clear and markVolumeDirtyAfterFailedSeal).          *)
THEOREM WritesAreMarked == ASSUME SerialHandlers = TRUE PROVE Spec => []UnsealedWritesMarked
    <1>1. IInv => UnsealedWritesMarked
        BY DEF IInv, MarkInv, Engaged, UnsealedWritesMarked
    <1> QED BY <1>1, Invariance, PTL

(* Where the handlers of a node do not overlap, no open that could read the     *)
(* marker starts from a checkpoint that lacks the writes of a live node         *)
(* (reportVolumeTakeover and refuseWhileOwnerLive).                             *)
THEOREM LiveWritesKept == ASSUME SerialHandlers = TRUE PROVE Spec => []LiveWritesSurvive
    <1>1. IInv => LiveWritesSurvive
        BY DEF IInv, LiveWritesSurvive
    <1> QED BY <1>1, Invariance, PTL
=============================================================================
