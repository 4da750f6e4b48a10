------------------------ MODULE InstanceOwnershipProofs ------------------------
(***************************************************************************)
(* The proofs about InstanceOwnership: its type invariant, that a guest    *)
(* never runs twice (OneGuest), and that nodes that only crash leave the   *)
(* instance to one live node at a time, the one the record names           *)
(* (OneClaimant, RunningIsOwned, StoppedIsDown), for any set of nodes,     *)
(* any attempt budget and any number of events.                            *)
(***************************************************************************)
EXTENDS InstanceOwnership, FiniteSetTheorems, TLAPS

USE NodesAssumption, BoundsAssumption, NullsAssumption

-----------------------------------------------------------------------------
(* The inductive invariant, part by part. *)

\* A launch in flight has its copy in the map, and no stop owns that copy;
\* a claim remembers whom it claimed from; a dead daemon does nothing.
TaskInv(n) ==
    /\ task[n].step \in {"selected", "claimed", "undo", "giveup"} =>
          task[n].kind # "restore" /\ task[n].from \in Nodes
    /\ task[n].step \in {"inserted", "mounted"} =>
          /\ vms[n] # NoVM /\ vms[n].status \in {"pending", "stopped", "error"}
          /\ ~stop[n].owns
          /\ task[n].kind # "restore" => task[n].from \in Nodes
    /\ daemon[n] # "up" => stop[n] = NoStop
    /\ daemon[n] \notin {"up", "restored"} => task[n].step = "idle"

\* No guest runs on a dead host, or beside a relaunch of it.
GuestInv(n) ==
    /\ daemon[n] = "dead" => n \notin qemu
    /\ task[n].step \in {"inserted", "mounted"} /\ task[n].kind = "restore" =>
          n \notin qemu

\* While every node reaches the store, the guest has the disk.
DiskInv == "cut" \notin seen => cut = {} /\ qemu \subseteq {lease}

\* While nodes only crash: where a node's launch or stop stands shows in its
\* copy, and a recovery is from a node that is down.
QuietNode(n) ==
    /\ daemon[n] \in {"up", "down", "dead"}
    /\ Up(n) => n \in fresh
    /\ task[n].step # "idle" =>
          /\ task[n].kind = "recover" /\ task[n].from \in Nodes
          /\ ~Up(task[n].from)
    /\ task[n].step \in {"selected", "claimed", "undo", "giveup"} => vms[n] = NoVM
    /\ task[n].step \in {"inserted", "mounted"} =>
          vms[n] # NoVM /\ vms[n].status = "pending"
    /\ vms[n] # NoVM =>
          /\ stop[n].step = "no" => vms[n].status \in {"running", "pending"}
          /\ stop[n].step = "cleanup" => vms[n].status = "stopping"
          /\ stop[n].step = "migrate" => vms[n].status = "stopped"
    /\ stop[n].step # "no" => stop[n].owns /\ vms[n] # NoVM
    /\ Engaged(n) =>
          /\ rec.node = n
          /\ stop[n].step # "migrate" => ~operatorStopped(rec)

QuietInv ==
    seen = {} =>
        /\ cut = {} /\ notice = {} /\ rec # NoRecord
        /\ \A n \in Nodes : QuietNode(n)

IInv ==
    /\ TypeOK /\ DiskInv /\ QuietInv
    /\ \A n \in Nodes : TaskInv(n) /\ GuestInv(n)

-----------------------------------------------------------------------------
(* The records the model is built from. *)

LEMMA CopyTypes ==
    ASSUME NEW s \in Statuses, NEW d \in {"running", "stopped"}
    PROVE  /\ Copy(s, d) \in Copies /\ Copy(s, d) # NoVM
           /\ Copy(s, d).status = s /\ Copy(s, d).desired = d
           /\ Copy(s, d).fenced = FALSE
    <1>1. Copy(s, d) \in Copies
        BY DEF Copy, Copies
    <1> QED
        BY <1>1 DEF Copy

LEMMA StatusMoves ==
    ASSUME NEW c \in Copies, NEW s \in Statuses
    PROVE  /\ [c EXCEPT !.status = s] \in Copies
           /\ [c EXCEPT !.status = s] # NoVM
           /\ [c EXCEPT !.status = s].status = s
    <1>1. /\ [c EXCEPT !.status = s] \in Copies
          /\ [c EXCEPT !.status = s].status = s
        BY DEF Copies
    <1> QED
        BY <1>1

LEMMA CopyMoves ==
    ASSUME NEW c \in Copies
    PROVE  /\ [c EXCEPT !.status = "stopping", !.desired = "stopped"] \in Copies
           /\ [c EXCEPT !.status = "stopping", !.desired = "stopped"].status = "stopping"
           /\ [c EXCEPT !.status = "error", !.fenced = TRUE] \in Copies
           /\ [c EXCEPT !.status = "error", !.fenced = TRUE].status = "error"
    BY DEF Copies, Statuses

LEMMA RecordTypes ==
    ASSUME NEW n \in Nodes, NEW c \in Copies
    PROVE  /\ [node |-> n, vm |-> c] \in Records
           /\ [node |-> n, vm |-> c] # NoRecord
    BY DEF Records

LEMMA RecordFields ==
    ASSUME NEW r \in Records
    PROVE  r # NoRecord /\ r.node \in Nodes /\ r.vm \in Copies
    BY DEF Records

LEMMA RecordMoves ==
    ASSUME NEW r \in Records, NEW n \in Nodes
    PROVE  /\ [r EXCEPT !.node = n] \in Records
           /\ [r EXCEPT !.node = n].node = n
           /\ [r EXCEPT !.node = n].vm = r.vm
    BY DEF Records

LEMMA RecordVM ==
    ASSUME NEW r \in Records, NEW c \in Copies
    PROVE  /\ [r EXCEPT !.vm = c] \in Records
           /\ [r EXCEPT !.vm = c].node = r.node
           /\ [r EXCEPT !.vm.desired = "running"] \in Records
    BY DEF Records, Copies

LEMMA TaskMoves ==
    /\ Idle \in Tasks /\ Idle.step = "idle"
    /\ \A t \in Tasks, s \in Steps :
          /\ [t EXCEPT !.step = s] \in Tasks
          /\ [t EXCEPT !.step = s].step = s
          /\ [t EXCEPT !.step = s].kind = t.kind
          /\ [t EXCEPT !.step = s].from = t.from
    /\ \A s \in Steps, k \in Kinds, f \in Nodes \cup {NoNode} :
          [step |-> s, kind |-> k, from |-> f] \in Tasks
    BY DEF Idle, Tasks, Steps, Kinds

LEMMA StopMoves ==
    /\ NoStop \in Stops
    /\ [step |-> "cleanup", owns |-> TRUE] \in Stops
    /\ \A s \in Stops :
          /\ [s EXCEPT !.owns = FALSE] \in Stops
          /\ [s EXCEPT !.owns = FALSE].step = s.step
          /\ ~[s EXCEPT !.owns = FALSE].owns
          /\ [s EXCEPT !.step = "migrate"] \in Stops
          /\ [s EXCEPT !.step = "migrate"].step = "migrate"
          /\ [s EXCEPT !.step = "migrate"].owns = s.owns
    BY DEF NoStop, Stops

-----------------------------------------------------------------------------
(* The running-set writer keeps the record, writes the copy it is given    *)
(* under its own node, or retires the record.                              *)

LEMMA WriteEffect ==
    ASSUME TypeOK, NEW n \in Nodes, NEW copy \in Copies \cup {NoVM}
    PROVE  /\ WriteRunningSet(n, rec, copy).digest \in Copies \cup {NoVM, Unseeded}
           /\ \/ WriteRunningSet(n, rec, copy).rec = rec
              \/ /\ copy # NoVM
                 /\ WriteRunningSet(n, rec, copy).rec = [node |-> n, vm |-> copy]
              \/ /\ rec # NoRecord
                 /\ WriteRunningSet(n, rec, copy).rec = NoRecord
    <1>1. digest[n] \in Copies \cup {NoVM, Unseeded}
        BY DEF TypeOK
    <1>2. seedRunningSet(n, rec) \in Copies \cup {NoVM}
        BY RecordFields DEF TypeOK, seedRunningSet, runsOn
    <1>3. \/ retireRecord(n, rec) = rec
          \/ rec # NoRecord /\ retireRecord(n, rec) = NoRecord
        BY DEF retireRecord
    <1> DEFINE known == IF digest[n] = Unseeded THEN seedRunningSet(n, rec) ELSE digest[n]
    <1>4. known \in Copies \cup {NoVM, Unseeded}
        BY <1>1, <1>2
    <1> HIDE DEF known
    <1>5. WriteRunningSet(n, rec, copy) =
             CASE ~Linked(n) /\ (digest[n] = Unseeded \/ copy \in {NoVM, digest[n]})
                     -> [rec |-> rec, digest |-> digest[n]]
               [] ~Linked(n) /\ digest[n] # Unseeded /\ copy \notin {NoVM, digest[n]}
                     -> [rec |-> rec, digest |-> NoVM]
               [] Linked(n) /\ copy # NoVM /\ copy = known
                     -> [rec |-> rec, digest |-> known]
               [] Linked(n) /\ copy # NoVM /\ copy # known
                     -> [rec |-> [node |-> n, vm |-> copy], digest |-> copy]
               [] Linked(n) /\ copy = NoVM /\ known = NoVM
                     -> [rec |-> rec, digest |-> NoVM]
               [] OTHER -> [rec |-> retireRecord(n, rec), digest |-> NoVM]
        BY DEF WriteRunningSet, known
    <1> QED
        BY <1>1, <1>3, <1>4, <1>5

LEMMA PersistTypes ==
    ASSUME TypeOK, NEW n \in Nodes, NEW copy \in Copies \cup {NoVM},
           Persist(n, rec, copy)
    PROVE  /\ rec' \in Records \cup {NoRecord}
           /\ vms' \in [Nodes -> Copies \cup {NoVM}]
           /\ file' \in [Nodes -> Copies \cup {NoVM}]
           /\ digest' \in [Nodes -> Copies \cup {NoVM, Unseeded}]
           /\ seen' \subseteq Disturbances
    <1>1. rec' \in Records \cup {NoRecord}
      <2>1. rec' = WriteRunningSet(n, rec, copy).rec
          BY DEF Persist
      <2>2. copy # NoVM => [node |-> n, vm |-> copy] \in Records
          BY RecordTypes
      <2> QED
          BY <2>1, <2>2, WriteEffect DEF TypeOK
    <1>2. digest' \in [Nodes -> Copies \cup {NoVM, Unseeded}]
        BY WriteEffect DEF TypeOK, Persist
    <1>3. seen' \subseteq Disturbances
        BY DEF TypeOK, Persist, Disturbances
    <1> QED
        BY <1>1, <1>2, <1>3 DEF TypeOK, Persist

LEMMA PersistEffect ==
    ASSUME TypeOK, NEW n \in Nodes, NEW copy \in Copies \cup {NoVM},
           Persist(n, rec, copy)
    PROVE  /\ vms'[n] = copy /\ \A m \in Nodes \ {n} : vms'[m] = vms[m]
           /\ seen \subseteq seen'
           /\ \/ rec' = rec
              \/ copy # NoVM /\ rec' = [node |-> n, vm |-> copy]
              \/ rec # NoRecord /\ rec' = NoRecord /\ seen' # {}
    BY WriteEffect DEF TypeOK, Persist

-----------------------------------------------------------------------------
(* Type correctness.  A step that writes the running set is split in the   *)
(* five variables Persist assigns and the rest.                            *)

LEMMA InitType == Init => TypeOK
    <1> SUFFICES ASSUME Init PROVE TypeOK
        OBVIOUS
    <1>1. Copy("running", "running") \in Copies
        BY CopyTypes DEF Statuses
    <1>2. rec \in Records
        BY <1>1, RecordTypes DEF Init
    <1>3. vms \in [Nodes -> Copies \cup {NoVM}] /\ file = vms /\ digest = vms
        BY <1>1 DEF Init
    <1>4. stop \in [Nodes -> Stops] /\ task \in [Nodes -> Tasks]
        BY TaskMoves, StopMoves DEF Init
    <1>5. tries \in [Nodes -> 0..MaxAttempts] /\ budget \in 0..MaxEvents
        BY DEF Init
    <1>6. daemon \in [Nodes -> Phases]
        BY DEF Init, Phases
    <1> QED
        BY <1>2, <1>3, <1>4, <1>5, <1>6 DEF Init, TypeOK

\* What a step that persists leaves to be typed.
RestOK ==
    /\ daemon \in [Nodes -> Phases]
    /\ cut \subseteq Nodes /\ fresh \subseteq Nodes
    /\ qemu \subseteq Nodes /\ notice \subseteq Nodes
    /\ lease \in Nodes \cup {NoNode}
    /\ stop \in [Nodes -> Stops]
    /\ task \in [Nodes -> Tasks]
    /\ staleOnce \subseteq Nodes
    /\ tries \in [Nodes -> 0..MaxAttempts]
    /\ budget \in 0..MaxEvents

LEMMA PersistTypeOK ==
    ASSUME TypeOK, NEW n \in Nodes, NEW copy \in Copies \cup {NoVM},
           Persist(n, rec, copy), RestOK'
    PROVE  TypeOK'
    BY PersistTypes DEF TypeOK, RestOK

LEMMA TypeParts ==
    ASSUME TypeOK
    PROVE  /\ RestOK
           /\ \A n \in Nodes :
                 /\ vms[n] \in Copies \cup {NoVM} /\ file[n] \in Copies \cup {NoVM}
                 /\ task[n] \in Tasks /\ stop[n] \in Stops
    BY DEF TypeOK, RestOK

LEMMA TaskFields ==
    ASSUME NEW t \in Tasks
    PROVE  t.step \in Steps /\ t.kind \in Kinds /\ t.from \in Nodes \cup {NoNode}
    BY DEF Tasks

LEMMA CopyFields ==
    ASSUME NEW c \in Copies
    PROVE  /\ c # NoVM
           /\ c.status \in Statuses /\ c.desired \in {"running", "stopped"}
           /\ c.fenced \in BOOLEAN
    BY DEF Copies

LEMMA RecoverType ==
    ASSUME TypeOK, NEW n \in Nodes, TaskInv(n), Recovering(n)
    PROVE  TypeOK'
    <1>1. CASE Pass(n)
      <2>1. Candidate(n) =>
               [step |-> "selected", kind |-> "recover", from |-> rec.node] \in Tasks
          BY RecordFields, TaskMoves DEF Candidate, recoverable, TypeOK, Steps, Kinds
      <2>2. task' \in [Nodes -> Tasks] /\ staleOnce' \subseteq Nodes
          BY <1>1, <2>1 DEF Pass, TypeOK
      <2> QED
          BY <1>1, <2>2 DEF Pass, TypeOK, clusterVars, nodeVars, hostVars
    <1>2. CASE ClaimRecoverableInstance(n)
      <2>1. rec' \in Records \cup {NoRecord}
          BY <1>2, RecordMoves DEF ClaimRecoverableInstance, TypeOK, recoverable
      <2>2. [task[n] EXCEPT !.step = "claimed"] \in Tasks /\ Idle \in Tasks
          BY TaskMoves, TypeParts DEF Steps
      <2>3. task' \in [Nodes -> Tasks]
          BY <1>2, <2>2 DEF ClaimRecoverableInstance, TypeOK
      <2> QED
          BY <1>2, <2>1, <2>3 DEF ClaimRecoverableInstance, TypeOK, nodeVars, hostVars
    <1>3. CASE Undo(n)
      <2>1. task[n].from \in Nodes
          BY <1>3 DEF Undo, TaskInv
      <2>2. ReleaseRecoveredInstance(n) \in Records \cup {NoRecord}
          BY <2>1, RecordMoves DEF ReleaseRecoveredInstance, TypeOK
      <2>3. restoreClaimedStoppedInstance(n) \in Records
          BY <2>1, RecordTypes, CopyTypes DEF restoreClaimedStoppedInstance, Statuses
      <2>4. rec' \in Records \cup {NoRecord}
          BY <1>3, <2>2, <2>3 DEF Undo, TypeOK
      <2>5. tries' \in [Nodes -> 0..MaxAttempts]
        <3>1. tries[n] \in 0..MaxAttempts
            BY DEF TypeOK
        <3>2. (IF tries[n] < MaxAttempts THEN tries[n] + 1 ELSE tries[n]) \in 0..MaxAttempts
            BY <3>1
        <3> QED
            BY <1>3, <3>2 DEF Undo, TypeOK
      <2>6. [task[n] EXCEPT !.step = "giveup"] \in Tasks /\ Idle \in Tasks
          BY TaskMoves, TypeParts DEF Steps
      <2>7. task' \in [Nodes -> Tasks]
          BY <1>3, <2>6 DEF Undo, TypeOK
      <2> QED
          BY <1>3, <2>4, <2>5, <2>7 DEF Undo, TypeOK, nodeVars, hostVars
    <1>4. CASE AbandonRecovery(n)
      <2>1. rec' \in Records \cup {NoRecord}
          BY <1>4, RecordVM, CopyTypes DEF AbandonRecovery, TypeOK, recoverable, Statuses
      <2>2. task' \in [Nodes -> Tasks]
          BY <1>4, TaskMoves DEF AbandonRecovery, TypeOK
      <2>3. tries' \in [Nodes -> 0..MaxAttempts]
          BY <1>4 DEF AbandonRecovery, TypeOK
      <2> QED
          BY <1>4, <2>1, <2>2, <2>3 DEF AbandonRecovery, TypeOK, nodeVars, hostVars
    <1> QED
        BY <1>1, <1>2, <1>3, <1>4 DEF Recovering

LEMMA LaunchType ==
    ASSUME TypeOK, NEW n \in Nodes, TaskInv(n), Launching(n)
    PROVE  TypeOK'
    <1>0. /\ \A s \in Steps : [task[n] EXCEPT !.step = s] \in Tasks
          /\ Idle \in Tasks
        BY TaskMoves, TypeParts
    <1>1. CASE RefuseLaunch(n)
      <2>1. task' \in [Nodes -> Tasks]
          BY <1>0, <1>1 DEF RefuseLaunch, TypeOK, Steps
      <2> QED
          BY <1>1, <2>1 DEF RefuseLaunch, TypeOK, clusterVars, nodeVars, hostVars
    <1>2. CASE InsertClaimed(n)
      <2>1. task' \in [Nodes -> Tasks]
          BY <1>0, <1>2 DEF InsertClaimed, TypeOK, Steps
      <2>2. stop' \in [Nodes -> Stops]
          BY <1>2, StopMoves, TypeParts DEF InsertClaimed, TypeOK
      <2>3. vms' \in [Nodes -> Copies \cup {NoVM}]
        <3>1. Copy("pending", "running") \in Copies /\ Copy("stopped", "running") \in Copies
            BY CopyTypes DEF Statuses
        <3> QED
            BY <1>2, <3>1 DEF InsertClaimed, TypeOK
      <2> QED
          BY <1>2, <2>1, <2>2, <2>3 DEF InsertClaimed, TypeOK, clusterVars, hostVars
    <1>3. CASE MountVolumes(n)
      <2>1. task' \in [Nodes -> Tasks]
          BY <1>0, <1>3 DEF MountVolumes, TypeOK, Steps
      <2> QED
          BY <1>3, <2>1 DEF MountVolumes, TypeOK, nodeVars, hostVars
    <1>4. CASE LaunchSucceeds(n)
      <2>1. vms[n] \in Copies
          BY <1>4, TypeParts DEF LaunchSucceeds, TaskInv
      <2>2. PICK copy : copy = [vms[n] EXCEPT !.status = "running"]
          OBVIOUS
      <2>3. copy \in Copies
          BY <2>1, <2>2, StatusMoves DEF Statuses
      <2>4. Persist(n, rec, copy)
          BY <1>4, <2>2 DEF LaunchSucceeds
      <2>5. task' \in [Nodes -> Tasks]
          BY <1>0, <1>4 DEF LaunchSucceeds, TypeOK
      <2>6. tries' \in [Nodes -> 0..MaxAttempts]
        <3>1. 0 \in 0..MaxAttempts
            OBVIOUS
        <3> QED
            BY <1>4, <3>1 DEF LaunchSucceeds, TypeOK
      <2>7. RestOK'
          BY <1>4, <2>5, <2>6, TypeParts DEF LaunchSucceeds, RestOK
      <2> QED
          BY <2>3, <2>4, <2>7, PersistTypeOK
    <1>5. CASE LaunchOvertaken(n)
      <2>1. task' \in [Nodes -> Tasks]
          BY <1>0, <1>5 DEF LaunchOvertaken, TypeOK
      <2> QED
          BY <1>5, <2>1 DEF LaunchOvertaken, TypeOK, clusterVars, nodeVars, hostVars
    <1>6. CASE LaunchFails(n)
      <2>1. task' \in [Nodes -> Tasks] /\ vms' \in [Nodes -> Copies \cup {NoVM}]
          BY <1>0, <1>6 DEF LaunchFails, TypeOK, Steps
      <2> QED
          BY <1>6, <2>1 DEF LaunchFails, TypeOK, clusterVars, hostVars
    <1> QED
        BY <1>1, <1>2, <1>3, <1>4, <1>5, <1>6 DEF Launching

LEMMA StopType ==
    ASSUME TypeOK, NEW n \in Nodes,
           StopBegin(n) \/ StopCleanup(n) \/ MigrateStopped(n)
    PROVE  TypeOK'
    <1>1. CASE StopBegin(n)
      <2>1. vms[n] \in Copies
          BY <1>1, TypeParts DEF StopBegin
      <2>2. PICK copy : copy = [vms[n] EXCEPT !.status = "stopping", !.desired = "stopped"]
          OBVIOUS
      <2>3. copy \in Copies /\ Persist(n, rec, copy)
          BY <1>1, <2>1, <2>2, CopyMoves DEF StopBegin
      <2>4. stop' \in [Nodes -> Stops]
          BY <1>1, StopMoves DEF StopBegin, TypeOK
      <2>5. budget' \in 0..MaxEvents
          BY <1>1 DEF StopBegin, TypeOK
      <2>6. RestOK'
          BY <1>1, <2>4, <2>5, TypeParts DEF StopBegin, RestOK, hostVars
      <2> QED
          BY <2>3, <2>6, PersistTypeOK
    <1>2. CASE StopCleanup(n)
      <2>1. PICK copy : copy = IF stop[n].owns /\ vms[n] # NoVM /\ vms[n].status = "stopping"
                               THEN [vms[n] EXCEPT !.status = "stopped"] ELSE vms[n]
          OBVIOUS
      <2>2. Persist(n, rec, copy)
          BY <1>2, <2>1 DEF StopCleanup
      <2>3. copy \in Copies \cup {NoVM}
          BY <2>1, TypeParts, StatusMoves DEF Statuses
      <2>4. stop' \in [Nodes -> Stops]
          BY <1>2, StopMoves, TypeParts DEF StopCleanup, TypeOK
      <2>5. RestOK'
          BY <1>2, <2>4, TypeParts DEF StopCleanup, RestOK
      <2> QED
          BY <2>2, <2>3, <2>5, PersistTypeOK
    <1>3. CASE MigrateStopped(n)
      <2>1. stop' \in [Nodes -> Stops]
          BY <1>3, StopMoves DEF MigrateStopped, TypeOK
      <2>2. [node |-> n, vm |-> Copy("stopped", "stopped")] \in Records
          BY RecordTypes, CopyTypes DEF Statuses
      <2>3. rec' \in Records \cup {NoRecord} /\ vms' \in [Nodes -> Copies \cup {NoVM}]
          BY <1>3, <2>2 DEF MigrateStopped, TypeOK
      <2> QED
          BY <1>3, <2>1, <2>3 DEF MigrateStopped, TypeOK, hostVars
    <1> QED
        BY <1>1, <1>2, <1>3

LEMMA LeaseType ==
    ASSUME TypeOK, LeaseExpires
    PROVE  TypeOK'
    BY DEF LeaseExpires, TypeOK, nodeVars, recoveryVars

LEMMA NoticeType ==
    ASSUME TypeOK, NEW n \in Nodes, FenceVolume(n) \/ DropNotice(n)
    PROVE  TypeOK'
    <1>1. CASE FenceVolume(n) /\ (vms[n] = NoVM \/ (vms[n] # NoVM /\ vms[n].status = "error"))
        BY <1>1 DEF FenceVolume, TypeOK, nodeVars, recoveryVars
    <1>2. CASE FenceVolume(n) /\ ~(vms[n] = NoVM \/ (vms[n] # NoVM /\ vms[n].status = "error"))
      <2>1. PICK copy : copy = [vms[n] EXCEPT !.status = "error", !.fenced = TRUE]
          OBVIOUS
      <2>2. copy \in Copies /\ Persist(n, rec, copy)
          BY <1>2, <2>1, TypeParts, CopyMoves DEF FenceVolume
      <2>3. RestOK'
          BY <1>2, TypeParts DEF FenceVolume, RestOK, recoveryVars
      <2> QED
          BY <2>2, <2>3, PersistTypeOK
    <1>3. CASE DropNotice(n)
        BY <1>3 DEF DropNotice, TypeOK, clusterVars, nodeVars, recoveryVars
    <1> QED
        BY <1>1, <1>2, <1>3

LEMMA ForgetType ==
    ASSUME TypeOK, NEW n \in Nodes, Forgets(n)
    PROVE  /\ task' \in [Nodes -> Tasks] /\ stop' \in [Nodes -> Stops]
           /\ staleOnce' \subseteq Nodes /\ tries' \in [Nodes -> 0..MaxAttempts]
           /\ vms' \in [Nodes -> Copies \cup {NoVM}]
           /\ digest' \in [Nodes -> Copies \cup {NoVM, Unseeded}]
    <1>1. task' \in [Nodes -> Tasks] /\ stop' \in [Nodes -> Stops]
        BY TaskMoves, StopMoves DEF Forgets, TypeOK
    <1>2. tries' \in [Nodes -> 0..MaxAttempts]
        BY DEF Forgets, TypeOK
    <1> QED
        BY <1>1, <1>2 DEF Forgets, TypeOK

LEMMA FaultType ==
    ASSUME TypeOK, NEW n \in Nodes,
           DaemonCrash(n) \/ HostCrash(n) \/ CutOff(n) \/ Heal(n) \/ LoadState(n)
    PROVE  TypeOK'
    <1>1. CASE DaemonCrash(n)
      <2>1. budget' \in 0..MaxEvents /\ daemon' \in [Nodes -> Phases]
          BY <1>1 DEF DaemonCrash, TypeOK, Phases
      <2> QED
          BY <1>1, <2>1, ForgetType DEF DaemonCrash, TypeOK, clusterVars
    <1>2. CASE HostCrash(n)
      <2>1. budget' \in 0..MaxEvents /\ daemon' \in [Nodes -> Phases]
          BY <1>2 DEF HostCrash, TypeOK, Phases
      <2> QED
          BY <1>2, <2>1, ForgetType DEF HostCrash, TypeOK, clusterVars
    <1>3. CASE CutOff(n)
      <2>1. budget' \in 0..MaxEvents /\ seen' \subseteq Disturbances
          BY <1>3 DEF CutOff, TypeOK, Disturbances
      <2> QED
          BY <1>3, <2>1 DEF CutOff, TypeOK, clusterVars, nodeVars, recoveryVars
    <1>4. CASE Heal(n)
        BY <1>4 DEF Heal, TypeOK, clusterVars, nodeVars, recoveryVars
    <1>5. CASE LoadState(n)
      <2>1. /\ budget' \in 0..MaxEvents /\ daemon' \in [Nodes -> Phases]
            /\ seen' \subseteq Disturbances
          BY <1>5 DEF LoadState, TypeOK, Phases, Disturbances
      <2> QED
          BY <1>5, <2>1 DEF LoadState, TypeOK, clusterVars, recoveryVars
    <1> QED
        BY <1>1, <1>2, <1>3, <1>4, <1>5

LEMMA AdoptedType ==
    ASSUME TypeOK, NEW n \in Nodes
    PROVE  Adopted(n) \in Copies \cup {NoVM}
    BY RecordFields DEF Adopted, runsOn, TypeOK

LEMMA RestoreType ==
    ASSUME TypeOK, NEW n \in Nodes, Restore(n)
    PROVE  TypeOK'
    <1>0. daemon' \in [Nodes -> Phases]
        BY DEF Restore, TypeOK, Phases
    <1>1. PICK copy : copy = Adopted(n)
        OBVIOUS
    <1>2. copy \in Copies \cup {NoVM}
        BY <1>1, AdoptedType
    <1>3. CASE RestoreStays(n, copy)
        BY <1>0, <1>2, <1>3 DEF RestoreStays, Restore, TypeOK
    <1>4. CASE RestoreStops(n, copy)
      <2>1. rec' \in Records
          BY <1>4, RecordTypes, CopyTypes DEF RestoreStops, Statuses
      <2> QED
          BY <1>0, <1>2, <1>4, <2>1 DEF RestoreStops, Restore, TypeOK
    <1>5. CASE RestoreReconnects(n, copy)
      <2>1. copy \in Copies
          BY <1>2, <1>5 DEF RestoreReconnects
      <2>2. PICK c1, c2 : /\ c1 = [copy EXCEPT !.status = "running"]
                          /\ c2 = [copy EXCEPT !.status = "error"]
          OBVIOUS
      <2>3. c1 \in Copies /\ c2 \in Copies
          BY <2>1, <2>2, StatusMoves DEF Statuses
      <2>4. Persist(n, rec, c1) \/ Persist(n, rec, c2)
          BY <1>5, <2>2 DEF RestoreReconnects
      <2>5. RestOK'
          BY <1>0, <1>5, TypeParts DEF RestoreReconnects, Restore, RestOK
      <2> QED
          BY <2>3, <2>4, <2>5, PersistTypeOK
    <1>6. CASE RestoreRelaunches(n, copy)
      <2>1. [copy EXCEPT !.status = "pending"] \in Copies
          BY <1>2, <1>6, StatusMoves DEF RestoreRelaunches, Statuses
      <2>2. [step |-> "inserted", kind |-> "restore", from |-> NoNode] \in Tasks
          BY DEF Tasks, Steps, Kinds
      <2>3. task' \in [Nodes -> Tasks] /\ vms' \in [Nodes -> Copies \cup {NoVM}]
          BY <1>6, <2>1, <2>2 DEF RestoreRelaunches, TypeOK
      <2> QED
          BY <1>0, <1>6, <2>3 DEF RestoreRelaunches, Restore, TypeOK
    <1> QED
        BY <1>1, <1>3, <1>4, <1>5, <1>6 DEF Restore

LEMMA BootType ==
    ASSUME TypeOK, NEW n \in Nodes, TaskInv(n), Booting(n)
    PROVE  TypeOK'
    <1>1. CASE ForgetSuperseded(n)
      <2>1. daemon' \in [Nodes -> Phases]
          BY <1>1 DEF ForgetSuperseded, TypeOK, Phases
      <2> QED
          BY <1>1, <2>1 DEF ForgetSuperseded, TypeOK, recoveryVars
    <1>2. CASE RelaunchFails(n)
      <2>1. vms[n] \in Copies
          BY <1>2, TypeParts DEF RelaunchFails, TaskInv
      <2>2. PICK copy : copy = [vms[n] EXCEPT !.status = "error"]
          OBVIOUS
      <2>3. copy \in Copies /\ Persist(n, rec, copy)
          BY <1>2, <2>1, <2>2, StatusMoves DEF RelaunchFails, Statuses
      <2>4. task' \in [Nodes -> Tasks]
          BY <1>2, TaskMoves DEF RelaunchFails, TypeOK
      <2>5. RestOK'
          BY <1>2, <2>4, TypeParts DEF RelaunchFails, RestOK, hostVars
      <2> QED
          BY <2>3, <2>5, PersistTypeOK
    <1>3. CASE BootDone(n)
      <2>1. daemon' \in [Nodes -> Phases]
          BY <1>3 DEF BootDone, TypeOK, Phases
      <2>2. PICK copy : copy = vms[n]
          OBVIOUS
      <2>3. copy \in Copies \cup {NoVM} /\ Persist(n, rec, copy)
          BY <1>3, <2>2, TypeParts DEF BootDone
      <2>4. RestOK'
          BY <1>3, <2>1, TypeParts DEF BootDone, RestOK, recoveryVars
      <2> QED
          BY <2>3, <2>4, PersistTypeOK
    <1> QED
        BY <1>1, <1>2, <1>3, RestoreType DEF Booting

LEMMA QuietType ==
    ASSUME TypeOK, NEW n \in Nodes,
           StateWrite(n) \/ Heartbeat(n) \/ HeartbeatLapses(n) \/ ClaimStoppedInstance(n)
    PROVE  TypeOK'
    <1>1. CASE StateWrite(n)
      <2>1. PICK copy : copy = vms[n]
          OBVIOUS
      <2>2. copy \in Copies \cup {NoVM} /\ Persist(n, rec, copy)
          BY <1>1, <2>1, TypeParts DEF StateWrite
      <2>3. RestOK'
          BY <1>1, TypeParts DEF StateWrite, RestOK, hostVars, recoveryVars
      <2> QED
          BY <2>2, <2>3, PersistTypeOK
    <1>2. CASE Heartbeat(n)
        BY <1>2 DEF Heartbeat, TypeOK, nodeVars, hostVars, recoveryVars
    <1>3. CASE HeartbeatLapses(n)
        BY <1>3 DEF HeartbeatLapses, TypeOK, nodeVars, hostVars, recoveryVars
    <1>4. CASE ClaimStoppedInstance(n)
      <2>1. rec \in Records
          BY <1>4 DEF ClaimStoppedInstance, operatorStopped, TypeOK
      <2>2. rec' \in Records
          BY <1>4, <2>1, RecordVM, RecordFields DEF ClaimStoppedInstance
      <2>3. [step |-> "claimed", kind |-> "start", from |-> rec.node] \in Tasks
          BY <2>1, RecordFields DEF Tasks, Steps, Kinds
      <2>4. task' \in [Nodes -> Tasks]
          BY <1>4, <2>3 DEF ClaimStoppedInstance, TypeOK
      <2>5. budget' \in 0..MaxEvents /\ seen' \subseteq Disturbances
          BY <1>4 DEF ClaimStoppedInstance, TypeOK, Disturbances
      <2> QED
          BY <1>4, <2>2, <2>4, <2>5
          DEF ClaimStoppedInstance, TypeOK, nodeVars, hostVars
    <1> QED
        BY <1>1, <1>2, <1>3, <1>4

LEMMA TypeStep ==
    ASSUME TypeOK, \A n \in Nodes : TaskInv(n), [Next]_vars
    PROVE  TypeOK'
    <1>1. CASE UNCHANGED vars
        BY <1>1 DEF vars, TypeOK
    <1>2. CASE Next
        BY <1>2, LeaseType, QuietType, RecoverType, LaunchType, StopType,
           NoticeType, FaultType, BootType
        DEF Next
    <1> QED
        BY <1>1, <1>2

-----------------------------------------------------------------------------
(* A step of one node leaves what the other nodes keep to themselves. *)

NodeStep(n) ==
    \/ StateWrite(n) \/ Heartbeat(n) \/ HeartbeatLapses(n)
    \/ Recovering(n) \/ ClaimStoppedInstance(n) \/ Launching(n)
    \/ StopBegin(n) \/ StopCleanup(n) \/ MigrateStopped(n)
    \/ FenceVolume(n) \/ DropNotice(n)
    \/ DaemonCrash(n) \/ HostCrash(n) \/ CutOff(n) \/ Heal(n)
    \/ LoadState(n) \/ Booting(n)

Untouched(m) ==
    /\ vms'[m] = vms[m] /\ stop'[m] = stop[m]
    /\ task'[m] = task[m] /\ daemon'[m] = daemon[m]
    /\ m \in qemu' <=> m \in qemu

LEMMA BystanderRecovers ==
    ASSUME TypeOK, NEW n \in Nodes, NEW m \in Nodes \ {n},
           Recovering(n) \/ ClaimStoppedInstance(n) \/ Heartbeat(n) \/ HeartbeatLapses(n)
    PROVE  Untouched(m)
    <1>1. CASE Pass(n)
        BY <1>1 DEF Pass, TypeOK, Untouched, nodeVars, hostVars
    <1>2. CASE ClaimRecoverableInstance(n)
        BY <1>2 DEF ClaimRecoverableInstance, TypeOK, Untouched, nodeVars, hostVars
    <1>3. CASE Undo(n)
        BY <1>3 DEF Undo, TypeOK, Untouched, nodeVars, hostVars
    <1>4. CASE AbandonRecovery(n)
        BY <1>4 DEF AbandonRecovery, TypeOK, Untouched, nodeVars, hostVars
    <1>5. CASE ClaimStoppedInstance(n)
        BY <1>5 DEF ClaimStoppedInstance, TypeOK, Untouched, nodeVars, hostVars
    <1>6. CASE Heartbeat(n)
        BY <1>6 DEF Heartbeat, Untouched, nodeVars, hostVars, recoveryVars
    <1>7. CASE HeartbeatLapses(n)
        BY <1>7 DEF HeartbeatLapses, Untouched, nodeVars, hostVars, recoveryVars
    <1> QED
        BY <1>1, <1>2, <1>3, <1>4, <1>5, <1>6, <1>7 DEF Recovering

LEMMA BystanderLaunches ==
    ASSUME TypeOK, NEW n \in Nodes, NEW m \in Nodes \ {n}, Launching(n)
    PROVE  Untouched(m)
    <1>1. CASE RefuseLaunch(n)
        BY <1>1 DEF RefuseLaunch, TypeOK, Untouched, nodeVars, hostVars
    <1>2. CASE InsertClaimed(n)
        BY <1>2 DEF InsertClaimed, TypeOK, Untouched, hostVars
    <1>3. CASE MountVolumes(n)
        BY <1>3 DEF MountVolumes, TypeOK, Untouched, nodeVars, hostVars
    <1>4. CASE LaunchSucceeds(n)
        BY <1>4 DEF LaunchSucceeds, Persist, TypeOK, Untouched
    <1>5. CASE LaunchOvertaken(n)
        BY <1>5 DEF LaunchOvertaken, TypeOK, Untouched, nodeVars, hostVars
    <1>6. CASE LaunchFails(n)
        BY <1>6 DEF LaunchFails, TypeOK, Untouched, hostVars
    <1> QED
        BY <1>1, <1>2, <1>3, <1>4, <1>5, <1>6 DEF Launching

LEMMA BystanderStops ==
    ASSUME TypeOK, NEW n \in Nodes, NEW m \in Nodes \ {n},
           \/ StateWrite(n) \/ StopBegin(n) \/ StopCleanup(n) \/ MigrateStopped(n)
           \/ FenceVolume(n) \/ DropNotice(n)
    PROVE  Untouched(m)
    <1>1. CASE StateWrite(n)
        BY <1>1 DEF StateWrite, Persist, TypeOK, Untouched, hostVars, recoveryVars
    <1>2. CASE StopBegin(n)
        BY <1>2 DEF StopBegin, Persist, TypeOK, Untouched, hostVars
    <1>3. CASE StopCleanup(n)
        BY <1>3 DEF StopCleanup, Persist, TypeOK, Untouched
    <1>4. CASE MigrateStopped(n)
        BY <1>4 DEF MigrateStopped, TypeOK, Untouched, hostVars
    <1>5. CASE FenceVolume(n)
        BY <1>5 DEF FenceVolume, Persist, TypeOK, Untouched, nodeVars, recoveryVars
    <1>6. CASE DropNotice(n)
        BY <1>6 DEF DropNotice, Untouched, nodeVars, recoveryVars
    <1> QED
        BY <1>1, <1>2, <1>3, <1>4, <1>5, <1>6

LEMMA BystanderFaults ==
    ASSUME TypeOK, NEW n \in Nodes, NEW m \in Nodes \ {n},
           DaemonCrash(n) \/ HostCrash(n) \/ CutOff(n) \/ Heal(n) \/ LoadState(n)
    PROVE  Untouched(m)
    <1>1. CASE DaemonCrash(n)
        BY <1>1 DEF DaemonCrash, Forgets, TypeOK, Untouched
    <1>2. CASE HostCrash(n)
        BY <1>2 DEF HostCrash, Forgets, TypeOK, Untouched
    <1>3. CASE CutOff(n)
        BY <1>3 DEF CutOff, Untouched, nodeVars, recoveryVars
    <1>4. CASE Heal(n)
        BY <1>4 DEF Heal, Untouched, nodeVars, recoveryVars
    <1>5. CASE LoadState(n)
        BY <1>5 DEF LoadState, TypeOK, Untouched, recoveryVars
    <1> QED
        BY <1>1, <1>2, <1>3, <1>4, <1>5

LEMMA BystanderBoots ==
    ASSUME TypeOK, NEW n \in Nodes, NEW m \in Nodes \ {n}, Booting(n)
    PROVE  Untouched(m)
    <1>1. CASE ForgetSuperseded(n)
        BY <1>1 DEF ForgetSuperseded, TypeOK, Untouched, recoveryVars
    <1>2. CASE Restore(n)
      <2>1. PICK copy : copy = Adopted(n)
          OBVIOUS
      <2>2. daemon'[m] = daemon[m] /\ stop' = stop
          BY <1>2 DEF Restore, TypeOK
      <2>3. CASE RestoreStays(n, copy)
          BY <2>2, <2>3 DEF RestoreStays, TypeOK, Untouched
      <2>4. CASE RestoreStops(n, copy)
          BY <2>2, <2>4 DEF RestoreStops, TypeOK, Untouched
      <2>5. CASE RestoreReconnects(n, copy)
          BY <2>2, <2>5 DEF RestoreReconnects, Persist, TypeOK, Untouched
      <2>6. CASE RestoreRelaunches(n, copy)
          BY <2>2, <2>6 DEF RestoreRelaunches, TypeOK, Untouched
      <2> QED
          BY <1>2, <2>1, <2>3, <2>4, <2>5, <2>6 DEF Restore
    <1>3. CASE RelaunchFails(n)
        BY <1>3 DEF RelaunchFails, Persist, TypeOK, Untouched, hostVars
    <1>4. CASE BootDone(n)
        BY <1>4 DEF BootDone, Persist, TypeOK, Untouched, recoveryVars
    <1> QED
        BY <1>1, <1>2, <1>3, <1>4 DEF Booting

LEMMA Bystander ==
    ASSUME TypeOK, NEW n \in Nodes, NEW m \in Nodes \ {n}, NodeStep(n)
    PROVE  Untouched(m)
    BY BystanderRecovers, BystanderLaunches, BystanderStops, BystanderFaults,
       BystanderBoots
    DEF NodeStep

LEMMA UntouchedKeeps ==
    ASSUME NEW m \in Nodes, Untouched(m), TaskInv(m), GuestInv(m)
    PROVE  TaskInv(m)' /\ GuestInv(m)'
    BY DEF Untouched, TaskInv, GuestInv

-----------------------------------------------------------------------------
(* The acting node keeps its own launch, stop and guest in step. *)

LEMMA ActorRecovers ==
    ASSUME TypeOK, NEW n \in Nodes, TaskInv(n), GuestInv(n),
           Recovering(n) \/ ClaimStoppedInstance(n) \/ Heartbeat(n) \/ HeartbeatLapses(n)
    PROVE  TaskInv(n)' /\ GuestInv(n)'
    <1>1. CASE Pass(n)
      <2>1. Candidate(n) => rec.node \in Nodes
          BY RecordFields DEF Candidate, recoverable, TypeOK
      <2>2. UNCHANGED <<vms, stop, daemon, qemu>> /\ daemon[n] = "up"
          BY <1>1 DEF Pass, nodeVars, hostVars, Up
      <2>3. \/ task'[n] = task[n]
            \/ /\ task'[n].step = "selected" /\ task'[n].kind = "recover"
               /\ task'[n].from \in Nodes
          BY <1>1, <2>1 DEF Pass, TypeOK
      <2> QED
          BY <2>2, <2>3 DEF TaskInv, GuestInv
    <1>2. CASE ClaimRecoverableInstance(n)
      <2>1. UNCHANGED <<vms, stop, daemon, qemu>> /\ daemon[n] = "up"
          BY <1>2 DEF ClaimRecoverableInstance, nodeVars, hostVars, Up
      <2>2. \/ task'[n] = Idle
            \/ task'[n] = [task[n] EXCEPT !.step = "claimed"]
          BY <1>2 DEF ClaimRecoverableInstance, TypeOK
      <2>3. task[n].step = "selected"
          BY <1>2 DEF ClaimRecoverableInstance
      <2>4. \/ task'[n].step = "idle"
            \/ /\ task'[n].step = "claimed" /\ task'[n].kind = task[n].kind
               /\ task'[n].from = task[n].from
        <3>1. \A s \in Steps :
                 /\ [task[n] EXCEPT !.step = s].step = s
                 /\ [task[n] EXCEPT !.step = s].kind = task[n].kind
                 /\ [task[n] EXCEPT !.step = s].from = task[n].from
            BY TaskMoves, TypeParts
        <3>2. CASE task'[n] = Idle
            BY <3>2 DEF Idle
        <3>3. CASE task'[n] = [task[n] EXCEPT !.step = "claimed"]
          <4>1. "claimed" \in Steps
              BY DEF Steps
          <4> QED
              BY <3>1, <3>3, <4>1
        <3> QED
            BY <2>2, <3>2, <3>3
      <2> QED
          BY <2>1, <2>3, <2>4 DEF TaskInv, GuestInv
    <1>3. CASE Undo(n)
      <2>1. UNCHANGED <<vms, stop, daemon, qemu>> /\ daemon[n] = "up"
          BY <1>3 DEF Undo, nodeVars, hostVars, Up
      <2>2. \/ task'[n] = Idle
            \/ task'[n] = [task[n] EXCEPT !.step = "giveup"]
          BY <1>3 DEF Undo, TypeOK
      <2>3. task[n].step = "undo"
          BY <1>3 DEF Undo
      <2>4. \/ task'[n].step = "idle"
            \/ /\ task'[n].step = "giveup" /\ task'[n].kind = task[n].kind
               /\ task'[n].from = task[n].from
        <3>1. \A s \in Steps :
                 /\ [task[n] EXCEPT !.step = s].step = s
                 /\ [task[n] EXCEPT !.step = s].kind = task[n].kind
                 /\ [task[n] EXCEPT !.step = s].from = task[n].from
            BY TaskMoves, TypeParts
        <3>2. CASE task'[n] = Idle
            BY <3>2 DEF Idle
        <3>3. CASE task'[n] = [task[n] EXCEPT !.step = "giveup"]
          <4>1. "giveup" \in Steps
              BY DEF Steps
          <4> QED
              BY <3>1, <3>3, <4>1
        <3> QED
            BY <2>2, <3>2, <3>3
      <2> QED
          BY <2>1, <2>3, <2>4 DEF TaskInv, GuestInv
    <1>4. CASE AbandonRecovery(n)
      <2>1. UNCHANGED <<vms, stop, daemon, qemu>> /\ daemon[n] = "up" /\ task'[n] = Idle
          BY <1>4 DEF AbandonRecovery, nodeVars, hostVars, Up, TypeOK
      <2> QED
          BY <2>1, TaskMoves DEF TaskInv, GuestInv
    <1>5. CASE ClaimStoppedInstance(n)
      <2>1. rec.node \in Nodes
          BY <1>5, RecordFields DEF ClaimStoppedInstance, operatorStopped, TypeOK
      <2>2. UNCHANGED <<vms, stop, daemon, qemu>> /\ daemon[n] = "up"
          BY <1>5 DEF ClaimStoppedInstance, nodeVars, hostVars, Up
      <2>3. task'[n].step = "claimed" /\ task'[n].kind = "start" /\ task'[n].from \in Nodes
          BY <1>5, <2>1 DEF ClaimStoppedInstance, TypeOK
      <2> QED
          BY <2>2, <2>3 DEF TaskInv, GuestInv
    <1>6. CASE Heartbeat(n) \/ HeartbeatLapses(n)
        BY <1>6 DEF Heartbeat, HeartbeatLapses, nodeVars, hostVars, recoveryVars,
                    TaskInv, GuestInv
    <1> QED
        BY <1>1, <1>2, <1>3, <1>4, <1>5, <1>6 DEF Recovering

LEMMA ActorLaunches ==
    ASSUME TypeOK, NEW n \in Nodes, TaskInv(n), GuestInv(n), Launching(n)
    PROVE  TaskInv(n)' /\ GuestInv(n)'
    <1>0. /\ \A s \in Steps :
                /\ [task[n] EXCEPT !.step = s].step = s
                /\ [task[n] EXCEPT !.step = s].kind = task[n].kind
                /\ [task[n] EXCEPT !.step = s].from = task[n].from
          /\ Idle.step = "idle"
        BY TaskMoves, TypeParts
    <1>1. CASE RefuseLaunch(n)
      <2>1. UNCHANGED <<vms, stop, daemon, qemu>>
          BY <1>1 DEF RefuseLaunch, nodeVars, hostVars
      <2>2. task[n].step = "claimed" /\ task'[n] = [task[n] EXCEPT !.step = "undo"]
          BY <1>1 DEF RefuseLaunch, TypeOK
      <2> QED
          BY <1>0, <2>1, <2>2 DEF TaskInv, GuestInv, Steps
    <1>2. CASE InsertClaimed(n)
      <2>1. UNCHANGED <<daemon, qemu>> /\ daemon[n] = "up"
          BY <1>2 DEF InsertClaimed, hostVars, Up
      <2>2. task[n].step = "claimed" /\ task'[n] = [task[n] EXCEPT !.step = "inserted"]
          BY <1>2 DEF InsertClaimed, TypeOK
      <2>3. vms'[n] # NoVM /\ vms'[n].status \in {"pending", "stopped"}
        <3>1. \A s \in {"pending", "stopped"} :
                 Copy(s, "running") # NoVM /\ Copy(s, "running").status = s
            BY CopyTypes DEF Statuses
        <3> QED
            BY <1>2, <3>1 DEF InsertClaimed, TypeOK
      <2>4. ~stop'[n].owns
          BY <1>2, StopMoves, TypeParts DEF InsertClaimed, TypeOK
      <2> QED
          BY <1>0, <2>1, <2>2, <2>3, <2>4 DEF TaskInv, GuestInv, Steps
    <1>3. CASE MountVolumes(n)
      <2>1. UNCHANGED <<vms, stop, daemon, qemu>>
          BY <1>3 DEF MountVolumes, nodeVars, hostVars
      <2>2. task[n].step = "inserted" /\ task'[n] = [task[n] EXCEPT !.step = "mounted"]
          BY <1>3 DEF MountVolumes, TypeOK
      <2> QED
          BY <1>0, <2>1, <2>2 DEF TaskInv, GuestInv, Steps
    <1>4. CASE LaunchSucceeds(n)
      <2>1. UNCHANGED <<stop, daemon>> /\ task'[n] = Idle /\ task[n].step = "mounted"
          BY <1>4 DEF LaunchSucceeds, TypeOK
      <2> QED
          BY <1>0, <2>1 DEF TaskInv, GuestInv
    <1>5. CASE LaunchOvertaken(n)
      <2>1. UNCHANGED <<stop, daemon, qemu>> /\ task'[n] = Idle
          BY <1>5 DEF LaunchOvertaken, TypeOK, hostVars
      <2> QED
          BY <1>0, <2>1 DEF TaskInv, GuestInv
    <1>6. CASE LaunchFails(n)
      <2>1. UNCHANGED <<stop, daemon, qemu>>
          BY <1>6 DEF LaunchFails, hostVars
      <2>2. /\ task[n].step \in {"inserted", "mounted"} /\ task[n].kind # "restore"
            /\ task'[n] = [task[n] EXCEPT !.step = "undo"]
          BY <1>6 DEF LaunchFails, TypeOK
      <2> QED
          BY <1>0, <2>1, <2>2 DEF TaskInv, GuestInv, Steps
    <1> QED
        BY <1>1, <1>2, <1>3, <1>4, <1>5, <1>6 DEF Launching

LEMMA ActorStops ==
    ASSUME TypeOK, NEW n \in Nodes, TaskInv(n), GuestInv(n),
           \/ StateWrite(n) \/ StopBegin(n) \/ StopCleanup(n) \/ MigrateStopped(n)
           \/ FenceVolume(n) \/ DropNotice(n)
    PROVE  TaskInv(n)' /\ GuestInv(n)'
    <1>1. CASE StateWrite(n)
      <2>1. UNCHANGED <<task, stop, daemon, qemu>> /\ vms'[n] = vms[n]
          BY <1>1 DEF StateWrite, Persist, TypeOK, hostVars, recoveryVars
      <2> QED
          BY <2>1 DEF TaskInv, GuestInv
    <1>2. CASE StopBegin(n)
      <2>1. UNCHANGED <<task, daemon, qemu>> /\ daemon[n] = "up"
          BY <1>2 DEF StopBegin, hostVars, Up
      <2>2. task[n].step \notin {"inserted", "mounted"}
          BY <1>2 DEF StopBegin, TaskInv
      <2> QED
          BY <2>1, <2>2 DEF TaskInv, GuestInv
    <1>3. CASE StopCleanup(n)
      <2>1. UNCHANGED <<task, daemon>> /\ qemu' \subseteq qemu /\ daemon[n] = "up"
          BY <1>3 DEF StopCleanup, TaskInv, NoStop
      <2>2. stop'[n] = [stop[n] EXCEPT !.step = "migrate"]
          BY <1>3 DEF StopCleanup, TypeOK
      <2>3. stop'[n].owns = stop[n].owns
          BY <2>2, StopMoves, TypeParts
      <2>4. ~stop[n].owns => vms'[n] = vms[n]
          BY <1>3 DEF StopCleanup, Persist, TypeOK
      <2> QED
          BY <2>1, <2>3, <2>4 DEF TaskInv, GuestInv
    <1>4. CASE MigrateStopped(n)
      <2>1. UNCHANGED <<task, daemon, qemu>> /\ stop'[n] = NoStop
          BY <1>4 DEF MigrateStopped, hostVars, TypeOK
      <2>2. ~stop[n].owns => vms'[n] = vms[n]
          BY <1>4 DEF MigrateStopped, TypeOK
      <2> QED
          BY <2>1, <2>2 DEF TaskInv, GuestInv, NoStop
    <1>5. CASE FenceVolume(n)
      <2>1. UNCHANGED <<task, stop, daemon>> /\ qemu' \subseteq qemu
          BY <1>5 DEF FenceVolume, recoveryVars
      <2>2. \/ vms'[n] = vms[n]
            \/ /\ vms[n] # NoVM
               /\ vms'[n] = [vms[n] EXCEPT !.status = "error", !.fenced = TRUE]
          BY <1>5 DEF FenceVolume, Persist, nodeVars, TypeOK
      <2>3. \/ vms'[n] = vms[n]
            \/ vms'[n] # NoVM /\ vms'[n].status = "error"
          BY <2>2, CopyMoves, CopyFields, TypeParts
      <2> QED
          BY <2>1, <2>3 DEF TaskInv, GuestInv
    <1>6. CASE DropNotice(n)
        BY <1>6 DEF DropNotice, nodeVars, recoveryVars, TaskInv, GuestInv
    <1> QED
        BY <1>1, <1>2, <1>3, <1>4, <1>5, <1>6

LEMMA ActorFaults ==
    ASSUME TypeOK, NEW n \in Nodes, TaskInv(n), GuestInv(n),
           DaemonCrash(n) \/ HostCrash(n) \/ CutOff(n) \/ Heal(n) \/ LoadState(n)
    PROVE  TaskInv(n)' /\ GuestInv(n)'
    <1>1. CASE DaemonCrash(n) \/ HostCrash(n)
      <2>1. task'[n] = Idle /\ stop'[n] = NoStop
          BY <1>1 DEF DaemonCrash, HostCrash, Forgets, TypeOK
      <2>2. daemon'[n] = "dead" => n \notin qemu'
          BY <1>1 DEF DaemonCrash, HostCrash, TypeOK
      <2> QED
          BY <2>1, <2>2 DEF TaskInv, GuestInv, Idle
    <1>2. CASE CutOff(n) \/ Heal(n)
        BY <1>2 DEF CutOff, Heal, nodeVars, recoveryVars, TaskInv, GuestInv
    <1>3. CASE LoadState(n)
      <2>1. UNCHANGED <<task, stop, qemu>> /\ daemon'[n] = "loaded"
          BY <1>3 DEF LoadState, TypeOK, recoveryVars
      <2>2. task[n].step = "idle" /\ stop[n] = NoStop
          BY <1>3 DEF LoadState, TaskInv
      <2> QED
          BY <2>1, <2>2 DEF TaskInv, GuestInv
    <1> QED
        BY <1>1, <1>2, <1>3

LEMMA ActorBoots ==
    ASSUME TypeOK, NEW n \in Nodes, TaskInv(n), GuestInv(n), Booting(n)
    PROVE  TaskInv(n)' /\ GuestInv(n)'
    <1>1. CASE ForgetSuperseded(n)
      <2>1. UNCHANGED <<task, stop>> /\ daemon'[n] = "forgot"
          BY <1>1 DEF ForgetSuperseded, TypeOK, recoveryVars
      <2>2. task[n].step = "idle" /\ stop[n] = NoStop
          BY <1>1 DEF ForgetSuperseded, TaskInv
      <2> QED
          BY <2>1, <2>2 DEF TaskInv, GuestInv
    <1>2. CASE Restore(n)
      <2>1. PICK copy : copy = Adopted(n)
          OBVIOUS
      <2>2. UNCHANGED stop /\ daemon'[n] = "restored"
          BY <1>2 DEF Restore, TypeOK
      <2>3. task[n].step = "idle" /\ stop[n] = NoStop
          BY <1>2 DEF Restore, TaskInv
      <2>4. CASE RestoreStays(n, copy) \/ RestoreStops(n, copy) \/ RestoreReconnects(n, copy)
        <3>1. task' = task
            BY <2>4 DEF RestoreStays, RestoreStops, RestoreReconnects
        <3> QED
            BY <2>2, <2>3, <3>1 DEF TaskInv, GuestInv
      <2>5. CASE RestoreRelaunches(n, copy)
        <3>1. copy \in Copies
            BY <2>1, <2>5, AdoptedType DEF RestoreRelaunches
        <3>2. vms'[n] = [copy EXCEPT !.status = "pending"] /\ n \notin qemu'
            BY <2>5 DEF RestoreRelaunches, TypeOK
        <3>3. vms'[n] # NoVM /\ vms'[n].status = "pending"
            BY <3>1, <3>2, StatusMoves DEF Statuses
        <3>4. task'[n].step = "inserted" /\ task'[n].kind = "restore"
            BY <2>5 DEF RestoreRelaunches, TypeOK
        <3> QED
            BY <2>2, <2>3, <3>2, <3>3, <3>4 DEF TaskInv, GuestInv, NoStop
      <2> QED
          BY <1>2, <2>1, <2>4, <2>5 DEF Restore
    <1>3. CASE RelaunchFails(n)
      <2>1. UNCHANGED <<stop, daemon, qemu>> /\ task'[n] = Idle
          BY <1>3 DEF RelaunchFails, hostVars, TypeOK
      <2> QED
          BY <2>1 DEF TaskInv, GuestInv, Idle
    <1>4. CASE BootDone(n)
      <2>1. UNCHANGED <<stop, task, qemu>> /\ daemon'[n] = "up" /\ task[n].step = "idle"
          BY <1>4 DEF BootDone, recoveryVars, TypeOK
      <2> QED
          BY <2>1 DEF TaskInv, GuestInv
    <1> QED
        BY <1>1, <1>2, <1>3, <1>4 DEF Booting

LEMMA NodesStep ==
    ASSUME TypeOK, \A n \in Nodes : TaskInv(n) /\ GuestInv(n), [Next]_vars
    PROVE  \A m \in Nodes : TaskInv(m)' /\ GuestInv(m)'
    <1> SUFFICES ASSUME NEW m \in Nodes PROVE TaskInv(m)' /\ GuestInv(m)'
        OBVIOUS
    <1>1. CASE UNCHANGED vars
        BY <1>1 DEF vars, TaskInv, GuestInv
    <1>2. CASE LeaseExpires
        BY <1>2 DEF LeaseExpires, nodeVars, recoveryVars, TaskInv, GuestInv
    <1>3. ASSUME NEW n \in Nodes, NodeStep(n)
          PROVE  TaskInv(m)' /\ GuestInv(m)'
      <2>1. CASE m = n
          BY <1>3, <2>1, ActorRecovers, ActorLaunches, ActorStops, ActorFaults, ActorBoots
          DEF NodeStep
      <2>2. CASE m # n
          BY <1>3, <2>2, Bystander, UntouchedKeeps
      <2> QED
          BY <2>1, <2>2
    <1> QED
        BY <1>1, <1>2, <1>3 DEF Next, NodeStep

-----------------------------------------------------------------------------
(* The guest has the disk.  A step either leaves guests and lease alone,   *)
(* takes a guest down, or launches one under the lease.                    *)

LEMMA DiskFrame ==
    ASSUME DiskInv, seen \subseteq seen', cut' = cut, lease' = lease,
           qemu' \subseteq qemu
    PROVE  DiskInv'
    BY DEF DiskInv

\* The guest of n goes down before the lease does.
LEMMA DiskTeardown ==
    ASSUME DiskInv, NEW n \in Nodes, seen \subseteq seen', cut' = cut,
           lease' = lease \/ (lease = n /\ n \notin qemu'), qemu' \subseteq qemu
    PROVE  DiskInv'
    BY DEF DiskInv

LEMMA PersistSeen ==
    ASSUME NEW n, NEW copy, Persist(n, rec, copy)
    PROVE  seen \subseteq seen'
    BY DEF Persist

LEMMA DiskStep ==
    ASSUME TypeOK, DiskInv, \A n \in Nodes : TaskInv(n) /\ GuestInv(n), [Next]_vars
    PROVE  DiskInv'
    <1>1. CASE UNCHANGED vars
        BY <1>1, DiskFrame DEF vars
    <1>2. CASE LeaseExpires
      <2>1. UNCHANGED <<cut, qemu, seen>>
          BY <1>2 DEF LeaseExpires
      <2>2. SUFFICES ASSUME "cut" \notin seen PROVE qemu = {} /\ cut = {}
          BY <2>1 DEF DiskInv
      <2>3. cut = {} /\ qemu \subseteq {lease}
          BY <2>2 DEF DiskInv
      <2>4. lease \in Nodes /\ daemon[lease] = "dead"
          BY <1>2, <2>3 DEF LeaseExpires, Linked, TypeOK
      <2> QED
          BY <2>3, <2>4 DEF GuestInv
    <1>3. ASSUME NEW n \in Nodes, NodeStep(n)
          PROVE  DiskInv'
      <2>1. CASE \/ Heartbeat(n) \/ HeartbeatLapses(n) \/ Pass(n)
                 \/ ClaimRecoverableInstance(n) \/ Undo(n) \/ AbandonRecovery(n)
                 \/ ClaimStoppedInstance(n) \/ RefuseLaunch(n) \/ InsertClaimed(n)
                 \/ LaunchOvertaken(n) \/ LaunchFails(n) \/ MigrateStopped(n)
                 \/ DropNotice(n) \/ DaemonCrash(n) \/ LoadState(n)
        <3>1. UNCHANGED <<cut, lease, qemu>> /\ seen \subseteq seen'
            BY <2>1 DEF Heartbeat, HeartbeatLapses, Pass, ClaimRecoverableInstance, Undo,
               AbandonRecovery, ClaimStoppedInstance, RefuseLaunch, InsertClaimed,
               LaunchOvertaken, LaunchFails, MigrateStopped, DropNotice, DaemonCrash,
               LoadState, hostVars, clusterVars
        <3> QED
            BY <3>1, DiskFrame
      <2>2. CASE StateWrite(n) \/ StopBegin(n) \/ BootDone(n)
        <3>1. UNCHANGED <<cut, lease, qemu>>
            BY <2>2 DEF StateWrite, StopBegin, BootDone, hostVars
        <3>2. seen \subseteq seen'
            BY <2>2, PersistSeen DEF StateWrite, StopBegin, BootDone
        <3> QED
            BY <3>1, <3>2, DiskFrame
      <2>3. CASE MountVolumes(n)
        <3>1. UNCHANGED <<cut, qemu, seen>> /\ lease' = n /\ lease \in {NoNode, n}
            BY <2>3 DEF MountVolumes, hostVars
        <3> QED
            BY <3>1 DEF DiskInv, TypeOK
      <2>4. CASE LaunchSucceeds(n)
        <3>1. UNCHANGED <<cut, lease>> /\ qemu' = qemu \cup {n} /\ lease = n
            BY <2>4 DEF LaunchSucceeds
        <3>2. seen \subseteq seen'
            BY <2>4, PersistSeen DEF LaunchSucceeds
        <3> QED
            BY <3>1, <3>2 DEF DiskInv
      <2>5. CASE StopCleanup(n)
        <3>1. /\ cut' = cut /\ qemu' = qemu \ {n}
              /\ lease' = IF lease = n THEN NoNode ELSE lease
            BY <2>5 DEF StopCleanup
        <3>2. seen \subseteq seen'
            BY <2>5, PersistSeen DEF StopCleanup
        <3> QED
            BY <3>1, <3>2, DiskTeardown
      <2>6. CASE FenceVolume(n)
        <3>1. UNCHANGED <<cut, lease>> /\ qemu' \subseteq qemu
            BY <2>6 DEF FenceVolume
        <3>2. seen \subseteq seen'
            BY <2>6, PersistSeen DEF FenceVolume
        <3> QED
            BY <3>1, <3>2, DiskFrame
      <2>7. CASE HostCrash(n)
        <3>1. UNCHANGED <<cut, lease, seen>> /\ qemu' \subseteq qemu
            BY <2>7 DEF HostCrash, clusterVars
        <3> QED
            BY <3>1, DiskFrame
      <2>8. CASE CutOff(n)
        <3>1. "cut" \in seen'
            BY <2>8 DEF CutOff
        <3> QED
            BY <3>1 DEF DiskInv
      <2>9. CASE Heal(n)
        <3>1. cut' \subseteq cut /\ UNCHANGED <<lease, qemu, seen>>
            BY <2>9 DEF Heal, clusterVars
        <3> QED
            BY <3>1 DEF DiskInv
      <2>10. CASE ForgetSuperseded(n)
        <3>1. /\ UNCHANGED <<cut, seen>> /\ qemu' \subseteq qemu
              /\ lease' = lease \/ (lease = n /\ n \notin qemu')
            BY <2>10 DEF ForgetSuperseded
        <3> QED
            BY <3>1, DiskTeardown
      <2>11. CASE Restore(n)
        <3>1. PICK copy : copy = Adopted(n)
            OBVIOUS
        <3>2. cut' = cut
            BY <2>11 DEF Restore
        <3>3. CASE RestoreStays(n, copy) \/ RestoreStops(n, copy) \/ RestoreRelaunches(n, copy)
          <4>1. UNCHANGED <<lease, seen>> /\ qemu' \subseteq qemu
              BY <3>3 DEF RestoreStays, RestoreStops, RestoreRelaunches
          <4> QED
              BY <3>2, <4>1, DiskFrame
        <3>4. CASE RestoreReconnects(n, copy)
          <4>1. /\ qemu' \subseteq qemu
                /\ lease' = lease \/ (lease = n /\ n \notin qemu')
              BY <3>4 DEF RestoreReconnects
          <4>2. seen \subseteq seen'
              BY <3>4, PersistSeen DEF RestoreReconnects
          <4> QED
              BY <3>2, <4>1, <4>2, DiskTeardown
        <3> QED
            BY <2>11, <3>1, <3>3, <3>4 DEF Restore
      <2>12. CASE RelaunchFails(n)
        <3>1. /\ UNCHANGED <<cut, qemu>>
              /\ lease' = lease \/ (lease = n /\ lease' = NoNode)
            BY <2>12 DEF RelaunchFails, hostVars
        <3>2. n \notin qemu
            BY <2>12 DEF RelaunchFails, GuestInv
        <3>3. seen \subseteq seen'
            BY <2>12, PersistSeen DEF RelaunchFails
        <3> QED
            BY <3>1, <3>2, <3>3, DiskTeardown
      <2> QED
          BY <1>3, <2>1, <2>2, <2>3, <2>4, <2>5, <2>6, <2>7, <2>8, <2>9, <2>10, <2>11,
             <2>12
          DEF NodeStep, Recovering, Launching, Booting
    <1> QED
        BY <1>1, <1>2, <1>3 DEF Next, NodeStep

-----------------------------------------------------------------------------
(* While nodes only crash. *)

LEMMA SeenGrows ==
    ASSUME TypeOK, [Next]_vars
    PROVE  seen \subseteq seen'
    <1>1. CASE UNCHANGED vars
        BY <1>1 DEF vars
    <1>2. CASE LeaseExpires
        BY <1>2 DEF LeaseExpires
    <1>3. ASSUME NEW n \in Nodes, NodeStep(n)
          PROVE  seen \subseteq seen'
      <2>1. CASE Recovering(n) \/ Heartbeat(n) \/ HeartbeatLapses(n) \/ ClaimStoppedInstance(n)
          BY <2>1 DEF Recovering, Pass, ClaimRecoverableInstance, Undo, AbandonRecovery,
             Heartbeat, HeartbeatLapses, ClaimStoppedInstance
      <2>2. CASE Launching(n)
          BY <2>2, PersistSeen DEF Launching, RefuseLaunch, InsertClaimed, MountVolumes,
             LaunchSucceeds, LaunchOvertaken, LaunchFails
      <2>3. CASE \/ StateWrite(n) \/ StopBegin(n) \/ StopCleanup(n) \/ MigrateStopped(n)
                 \/ FenceVolume(n) \/ DropNotice(n)
          BY <2>3, PersistSeen DEF StateWrite, StopBegin, StopCleanup, MigrateStopped,
             FenceVolume, DropNotice
      <2>4. CASE DaemonCrash(n) \/ HostCrash(n) \/ CutOff(n) \/ Heal(n) \/ LoadState(n)
          BY <2>4 DEF DaemonCrash, HostCrash, CutOff, Heal, LoadState
      <2>5. CASE Booting(n)
        <3>1. CASE Restore(n)
          <4>1. PICK copy : copy = Adopted(n)
              OBVIOUS
          <4> QED
              BY <3>1, <4>1, PersistSeen DEF Restore, RestoreStays, RestoreStops,
                 RestoreReconnects, RestoreRelaunches
        <3> QED
            BY <2>5, <3>1, PersistSeen DEF Booting, ForgetSuperseded, RelaunchFails, BootDone
      <2> QED
          BY <1>3, <2>1, <2>2, <2>3, <2>4, <2>5 DEF NodeStep
    <1> QED
        BY <1>1, <1>2, <1>3 DEF Next, NodeStep

Calm ==
    /\ cut = {} /\ notice = {} /\ rec # NoRecord
    /\ \A m \in Nodes : QuietNode(m)

\* What a step of n owes the other nodes, and itself.
CalmAfter(n) ==
    /\ cut' = {} /\ notice' = {} /\ rec' # NoRecord
    /\ \A k \in Nodes : Up(k)' => Up(k) /\ k \in fresh'
    /\ \A m \in Nodes \ {n} : Engaged(m) => rec' = rec
    /\ QuietNode(n)'

LEMMA OneEngaged ==
    ASSUME Calm, NEW n \in Nodes
    PROVE  /\ Engaged(n) => rec.node = n /\ \A m \in Nodes \ {n} : ~Engaged(m)
           /\ n = rec.node /\ ~Up(n) => \A m \in Nodes : ~Engaged(m)
    BY DEF Calm, QuietNode, Engaged

LEMMA CalmKeeps ==
    ASSUME TypeOK, Calm, NEW n \in Nodes, NodeStep(n), CalmAfter(n)
    PROVE  Calm'
    <1> SUFFICES ASSUME NEW m \in Nodes \ {n} PROVE QuietNode(m)'
        BY DEF Calm, CalmAfter
    <1>1. Untouched(m)
        BY Bystander
    <1>2. Engaged(m)' => Engaged(m)
        BY <1>1 DEF Untouched, Engaged, Up
    <1>3. Engaged(m) => rec' = rec
        BY DEF CalmAfter
    <1>4. \A k \in Nodes : Up(k)' => Up(k) /\ k \in fresh'
        BY DEF CalmAfter
    <1>5. QuietNode(m)
        BY DEF Calm
    <1>6. Engaged(m)' =>
             rec'.node = m /\ (stop'[m].step # "migrate" => ~operatorStopped(rec'))
        BY <1>1, <1>2, <1>3, <1>5 DEF QuietNode, Untouched
    <1> QED
        BY <1>1, <1>4, <1>5, <1>6 DEF QuietNode, Untouched, operatorStopped, Up

\* What persisting does to the record while nothing is retired.
LEMMA CalmPersist ==
    ASSUME TypeOK, Calm, seen' = {}, NEW n \in Nodes, NEW copy \in Copies \cup {NoVM},
           Persist(n, rec, copy)
    PROVE  /\ vms'[n] = copy
           /\ rec' # NoRecord
           /\ \/ rec' = rec
              \/ copy # NoVM /\ rec' = [node |-> n, vm |-> copy]
    BY PersistEffect, RecordTypes DEF Calm

\* A persisted copy of an engaged node is the node's record or not written.
LEMMA CalmPersistOwner ==
    ASSUME TypeOK, Calm, seen' = {}, NEW n \in Nodes, NEW copy \in Copies,
           Persist(n, rec, copy), Engaged(n)
    PROVE  /\ vms'[n] = copy /\ rec' # NoRecord /\ rec'.node = n
           /\ rec' = rec \/ rec'.vm = copy
    <1>1. rec.node = n
        BY OneEngaged
    <1> QED
        BY <1>1, CalmPersist, RecordFields, RecordTypes DEF Calm, TypeOK

LEMMA CalmRecovers ==
    ASSUME TypeOK, TypeOK', Calm, seen' = {}, NEW n \in Nodes, TaskInv(n),
           Recovering(n)
    PROVE  CalmAfter(n)
    <1>0. QuietNode(n) /\ \A k \in Nodes : Up(k) => k \in fresh
        BY DEF Calm, QuietNode
    <1>1. UNCHANGED <<cut, notice, fresh, daemon, vms, stop>> /\ Up(n)
        BY DEF Recovering, Pass, ClaimRecoverableInstance, Undo, AbandonRecovery,
               hostVars, nodeVars, clusterVars
    <1>2. /\ cut' = {} /\ notice' = {}
          /\ \A k \in Nodes : (Up(k)' <=> Up(k)) /\ (Up(k)' => k \in fresh')
        BY <1>0, <1>1 DEF Calm, Up
    <1>3. CASE Pass(n)
      <2>1. rec' = rec
          BY <1>3 DEF Pass, clusterVars
      <2>2. CASE task' = task
          BY <1>0, <1>1, <1>2, <2>1, <2>2
          DEF CalmAfter, QuietNode, Engaged, Calm, operatorStopped, Up
      <2>3. CASE /\ Candidate(n)
                 /\ task' = [task EXCEPT ![n] = [step |-> "selected", kind |-> "recover",
                                                 from |-> rec.node]]
        <3>1. rec.node \in Nodes /\ rec.node # n /\ ~Up(rec.node)
            BY <1>0, <2>3, RecordFields DEF Candidate, Calm, TypeOK
        <3>2. vms[n] = NoVM
            BY <1>1, <3>1, OneEngaged DEF Engaged
        <3>3. /\ task'[n].step = "selected" /\ task'[n].kind = "recover"
              /\ task'[n].from = rec.node
            BY <2>3 DEF TypeOK
        <3>4. ~Engaged(n)'
            BY <1>1, <3>2, <3>3 DEF Engaged
        <3>5. QuietNode(n)'
            BY <1>0, <1>1, <1>2, <3>1, <3>2, <3>3, <3>4 DEF QuietNode
        <3> QED
            BY <1>2, <2>1, <3>5 DEF CalmAfter, Calm
      <2> QED
          BY <1>3, <2>2, <2>3 DEF Pass
    <1>4. CASE ClaimRecoverableInstance(n)
      <2>1. task[n].step = "selected"
          BY <1>4 DEF ClaimRecoverableInstance
      <2>2. CASE rec' = rec /\ task'[n] = Idle
          BY <1>0, <1>1, <1>2, <2>1, <2>2
          DEF CalmAfter, QuietNode, Engaged, Calm, Idle, operatorStopped, Up
      <2>3. CASE /\ recoverable(rec) /\ rec.node = task[n].from
                 /\ rec' = [rec EXCEPT !.node = n]
                 /\ task'[n] = [task[n] EXCEPT !.step = "claimed"]
        <3>1. rec \in Records
            BY DEF Calm, TypeOK
        <3>2. rec'.node = n /\ rec'.vm = rec.vm /\ rec' # NoRecord
            BY <2>3, <3>1, RecordMoves, RecordFields
        <3>3. ~operatorStopped(rec')
            BY <2>3, <3>2 DEF recoverable, operatorStopped
        <3>4. rec.node \in Nodes /\ ~Up(rec.node)
            BY <1>0, <2>1, <2>3 DEF QuietNode
        <3>5. \A m \in Nodes : ~Engaged(m)
            BY <3>4, OneEngaged
        <3>6. /\ task'[n].step = "claimed" /\ task'[n].kind = task[n].kind
              /\ task'[n].from = task[n].from
          <4>1. "claimed" \in Steps
              BY DEF Steps
          <4> QED
              BY <2>3, <4>1, TaskMoves, TypeParts
        <3>7. QuietNode(n)'
            BY <1>0, <1>1, <1>2, <2>1, <3>2, <3>3, <3>6 DEF QuietNode
        <3> QED
            BY <1>2, <3>2, <3>5, <3>7 DEF CalmAfter
      <2> QED
          BY <1>4, <2>2, <2>3 DEF ClaimRecoverableInstance, TypeOK
    <1>5. CASE Undo(n)
      <2>1. task[n].step = "undo" /\ task[n].kind = "recover"
          BY <1>0, <1>5 DEF Undo, QuietNode
      <2>2. Engaged(n)
          BY <1>1, <2>1 DEF Engaged
      <2>3. /\ rec.node = n /\ rec \in Records
            /\ task[n].from \in Nodes /\ ~Up(task[n].from)
          BY <1>0, <2>1, <2>2, OneEngaged DEF QuietNode, Calm, TypeOK
      <2>4. rec' = [rec EXCEPT !.node = task[n].from]
          BY <1>5, <2>1, <2>3, RecordFields
          DEF Undo, Calm, Linked, ReleaseRecoveredInstance
      <2>5. rec' # NoRecord
          BY <2>3, <2>4, RecordMoves, RecordFields
      <2>6. \A m \in Nodes \ {n} : ~Engaged(m)
          BY <2>2, OneEngaged
      <2>7. task'[n] = Idle \/ task'[n] = [task[n] EXCEPT !.step = "giveup"]
          BY <1>5 DEF Undo, TypeOK
      <2>8. \/ task'[n].step = "idle"
            \/ /\ task'[n].step = "giveup" /\ task'[n].kind = task[n].kind
               /\ task'[n].from = task[n].from
        <3>1. CASE task'[n] = Idle
            BY <3>1 DEF Idle
        <3>2. CASE task'[n] = [task[n] EXCEPT !.step = "giveup"]
          <4>1. "giveup" \in Steps
              BY DEF Steps
          <4> QED
              BY <3>2, <4>1, TaskMoves, TypeParts
        <3> QED
            BY <2>7, <3>1, <3>2
      <2>9. vms[n] = NoVM
          BY <1>0, <2>1 DEF QuietNode
      <2>10. ~Engaged(n)'
          BY <1>1, <2>8, <2>9 DEF Engaged
      <2>11. QuietNode(n)'
          BY <1>0, <1>1, <1>2, <2>1, <2>3, <2>8, <2>9, <2>10 DEF QuietNode
      <2> QED
          BY <1>2, <2>5, <2>6, <2>11 DEF CalmAfter
    <1>6. CASE AbandonRecovery(n)
      <2>1. task[n].step = "giveup" /\ vms[n] = NoVM /\ task'[n] = Idle
          BY <1>0, <1>6 DEF AbandonRecovery, QuietNode, TypeOK
      <2>2. ~Engaged(n)'
          BY <1>1, <2>1 DEF Engaged, Idle
      <2>3. QuietNode(n)'
          BY <1>0, <1>1, <1>2, <2>1, <2>2 DEF QuietNode, Idle
      <2>4. CASE rec' = rec
          BY <1>2, <2>3, <2>4 DEF CalmAfter, Calm
      <2>5. CASE /\ rec.node = task[n].from
                 /\ rec' = [rec EXCEPT !.vm = Copy("stopped", "stopped")]
        <3>1. rec' # NoRecord
          <4>1. Copy("stopped", "stopped") \in Copies
              BY CopyTypes DEF Statuses
          <4> QED
              BY <2>5, <4>1, RecordVM, RecordFields DEF Calm, TypeOK
        <3>2. rec.node \in Nodes /\ ~Up(rec.node)
            BY <1>0, <2>1, <2>5 DEF QuietNode
        <3>3. \A m \in Nodes : ~Engaged(m)
            BY <3>2, OneEngaged
        <3> QED
            BY <1>2, <2>3, <3>1, <3>3 DEF CalmAfter
      <2> QED
          BY <1>6, <2>4, <2>5 DEF AbandonRecovery
    <1> QED
        BY <1>3, <1>4, <1>5, <1>6 DEF Recovering

LEMMA CalmLaunches ==
    ASSUME TypeOK, Calm, seen' = {}, NEW n \in Nodes, TaskInv(n), Launching(n)
    PROVE  CalmAfter(n)
    <1>0. QuietNode(n) /\ \A k \in Nodes : Up(k) => k \in fresh
        BY DEF Calm, QuietNode
    <1>1. UNCHANGED <<cut, notice, fresh, daemon>>
        BY DEF Launching, RefuseLaunch, InsertClaimed, MountVolumes, LaunchSucceeds,
               LaunchOvertaken, LaunchFails, hostVars, clusterVars
    <1>2. task[n].step \in {"claimed", "inserted", "mounted"}
        BY DEF Launching, RefuseLaunch, InsertClaimed, MountVolumes, LaunchSucceeds,
               LaunchOvertaken, LaunchFails
    <1>3. /\ cut' = {} /\ notice' = {}
          /\ \A k \in Nodes : (Up(k)' <=> Up(k)) /\ (Up(k)' => k \in fresh')
        BY <1>0, <1>1 DEF Calm, Up
    <1>4. Up(n) /\ stop[n].step = "no" /\ Engaged(n)
      <2>1. Up(n)
          BY <1>0, <1>2 DEF TaskInv, QuietNode, Up
      <2>2. stop[n].step = "no"
        <3>1. stop[n].step \in {"no", "cleanup", "migrate"}
            BY TypeParts DEF Stops
        <3> QED
            BY <1>0, <1>2, <3>1 DEF QuietNode
      <2> QED
          BY <1>0, <1>2, <2>1, <2>2 DEF Engaged, QuietNode
    <1>5. rec.node = n /\ \A m \in Nodes \ {n} : ~Engaged(m)
        BY <1>4, OneEngaged
    <1>6. /\ ~operatorStopped(rec) /\ task[n].kind = "recover"
          /\ task[n].from \in Nodes /\ ~Up(task[n].from)
        BY <1>0, <1>2, <1>4 DEF QuietNode
    <1>7. /\ \A s \in Steps :
                /\ [task[n] EXCEPT !.step = s].step = s
                /\ [task[n] EXCEPT !.step = s].kind = task[n].kind
                /\ [task[n] EXCEPT !.step = s].from = task[n].from
          /\ Idle.step = "idle"
        BY TaskMoves, TypeParts
    <1>8. CASE RefuseLaunch(n)
      <2>1. UNCHANGED <<rec, vms, stop>> /\ task[n].step = "claimed"
          BY <1>8 DEF RefuseLaunch, clusterVars, nodeVars
      <2>2. task'[n] = [task[n] EXCEPT !.step = "undo"]
          BY <1>8 DEF RefuseLaunch, TypeOK
      <2>3. task'[n].step = "undo" /\ task'[n].kind = "recover" /\ task'[n].from = task[n].from
          BY <1>6, <1>7, <2>2 DEF Steps
      <2>4. QuietNode(n)'
          BY <1>0, <1>1, <1>3, <1>4, <1>5, <1>6, <2>1, <2>3
          DEF QuietNode, operatorStopped
      <2> QED
          BY <1>3, <2>1, <2>4 DEF CalmAfter, Calm
    <1>9. CASE InsertClaimed(n)
      <2>1. rec' = rec
          BY <1>9 DEF InsertClaimed, clusterVars
      <2>2. task'[n] = [task[n] EXCEPT !.step = "inserted"]
          BY <1>9 DEF InsertClaimed, TypeOK
      <2>3. /\ task'[n].step = "inserted" /\ task'[n].kind = "recover"
            /\ task'[n].from = task[n].from
          BY <1>6, <1>7, <2>2 DEF Steps
      <2>4. vms'[n] = Copy("pending", "running")
          BY <1>6, <1>9 DEF InsertClaimed, TypeOK
      <2>5. vms'[n] # NoVM /\ vms'[n].status = "pending"
          BY <2>4, CopyTypes DEF Statuses
      <2>6. stop'[n].step = "no"
          BY <1>4, <1>9, StopMoves, TypeParts DEF InsertClaimed, TypeOK
      <2>7. QuietNode(n)'
          BY <1>0, <1>1, <1>3, <1>5, <1>6, <2>1, <2>3, <2>5, <2>6
          DEF QuietNode, operatorStopped
      <2> QED
          BY <1>3, <2>1, <2>7 DEF CalmAfter, Calm
    <1>10. CASE MountVolumes(n)
      <2>1. UNCHANGED <<rec, vms, stop>> /\ task[n].step = "inserted"
          BY <1>10 DEF MountVolumes, nodeVars
      <2>2. task'[n] = [task[n] EXCEPT !.step = "mounted"]
          BY <1>10 DEF MountVolumes, TypeOK
      <2>3. task'[n].step = "mounted" /\ task'[n].kind = "recover" /\ task'[n].from = task[n].from
          BY <1>6, <1>7, <2>2 DEF Steps
      <2>4. QuietNode(n)'
          BY <1>0, <1>1, <1>3, <1>4, <1>5, <1>6, <2>1, <2>3
          DEF QuietNode, operatorStopped
      <2> QED
          BY <1>3, <2>1, <2>4 DEF CalmAfter, Calm
    <1>11. CASE LaunchSucceeds(n)
      <2>1. stop' = stop /\ task'[n].step = "idle"
          BY <1>7, <1>11 DEF LaunchSucceeds, TypeOK
      <2>2. vms[n] \in Copies
          BY <1>11, TypeParts DEF LaunchSucceeds, TaskInv
      <2>3. PICK copy : copy = [vms[n] EXCEPT !.status = "running"]
          OBVIOUS
      <2>4. copy \in Copies /\ copy # NoVM /\ copy.status = "running"
          BY <2>2, <2>3, StatusMoves DEF Statuses
      <2>5. Persist(n, rec, copy)
          BY <1>11, <2>3 DEF LaunchSucceeds
      <2>6. vms'[n] = copy /\ rec' # NoRecord /\ rec'.node = n /\ (rec' = rec \/ rec'.vm = copy)
          BY <1>4, <2>4, <2>5, CalmPersistOwner
      <2>7. ~operatorStopped(rec')
          BY <1>6, <2>4, <2>6 DEF operatorStopped
      <2>8. QuietNode(n)'
          BY <1>0, <1>1, <1>3, <1>4, <2>1, <2>4, <2>6, <2>7 DEF QuietNode
      <2> QED
          BY <1>3, <1>5, <2>6, <2>8 DEF CalmAfter
    <1>12. CASE LaunchOvertaken(n)
        BY <1>0, <1>12 DEF LaunchOvertaken, launchStillValid, QuietNode
    <1>13. CASE LaunchFails(n)
      <2>1. UNCHANGED <<rec, stop>> /\ vms'[n] = NoVM
          BY <1>13 DEF LaunchFails, clusterVars, TypeOK
      <2>2. task'[n] = [task[n] EXCEPT !.step = "undo"]
          BY <1>13 DEF LaunchFails, TypeOK
      <2>3. task'[n].step = "undo" /\ task'[n].kind = "recover" /\ task'[n].from = task[n].from
          BY <1>6, <1>7, <2>2 DEF Steps
      <2>4. QuietNode(n)'
          BY <1>0, <1>1, <1>3, <1>4, <1>5, <1>6, <2>1, <2>3
          DEF QuietNode, operatorStopped
      <2> QED
          BY <1>3, <2>1, <2>4 DEF CalmAfter, Calm
    <1> QED
        BY <1>8, <1>9, <1>10, <1>11, <1>12, <1>13 DEF Launching

LEMMA CalmStops ==
    ASSUME TypeOK, Calm, seen' = {}, NEW n \in Nodes, TaskInv(n),
           StateWrite(n) \/ StopBegin(n) \/ StopCleanup(n) \/ MigrateStopped(n)
    PROVE  CalmAfter(n)
    <1>0. QuietNode(n) /\ \A k \in Nodes : Up(k) => k \in fresh
        BY DEF Calm, QuietNode
    <1>1. UNCHANGED <<cut, notice, fresh, daemon, task>>
        BY DEF StateWrite, StopBegin, StopCleanup, MigrateStopped, hostVars, recoveryVars
    <1>2. /\ cut' = {} /\ notice' = {}
          /\ \A k \in Nodes : (Up(k)' <=> Up(k)) /\ (Up(k)' => k \in fresh')
        BY <1>0, <1>1 DEF Calm, Up
    <1>3. Up(n)
        BY <1>0 DEF StateWrite, StopBegin, StopCleanup, MigrateStopped, TaskInv, QuietNode,
                    Up, NoStop
    <1>4. stop[n].step \in {"no", "cleanup", "migrate"}
        BY TypeParts DEF Stops
    <1>5. CASE StateWrite(n)
      <2>1. stop' = stop
          BY <1>5 DEF StateWrite, recoveryVars
      <2>2. PICK copy : copy = vms[n]
          OBVIOUS
      <2>3. copy \in Copies \cup {NoVM} /\ Persist(n, rec, copy)
          BY <1>5, <2>2, TypeParts DEF StateWrite
      <2>4. vms'[n] = vms[n] /\ rec' # NoRecord
          BY <2>2, <2>3, CalmPersist
      <2>5. CASE copy = NoVM
        <3>1. rec' = rec
            BY <2>3, <2>5, CalmPersist
        <3>2. QuietNode(n)'
            BY <1>0, <1>1, <1>2, <2>1, <2>4, <3>1
            DEF QuietNode, Engaged, operatorStopped, Up
        <3> QED
            BY <1>2, <2>4, <3>1, <3>2 DEF CalmAfter
      <2>6. CASE copy # NoVM
        <3>1. Engaged(n)
            BY <1>3, <2>2, <2>6 DEF Engaged
        <3>2. rec'.node = n /\ (rec' = rec \/ rec'.vm = copy)
            BY <2>3, <2>6, <3>1, CalmPersistOwner
        <3>3. stop[n].step # "migrate" => ~operatorStopped(rec')
            BY <1>0, <1>4, <2>2, <2>6, <3>1, <3>2 DEF QuietNode, operatorStopped
        <3>4. QuietNode(n)'
            BY <1>0, <1>1, <1>2, <2>1, <2>4, <3>2, <3>3 DEF QuietNode
        <3>5. \A m \in Nodes \ {n} : ~Engaged(m)
            BY <3>1, OneEngaged
        <3> QED
            BY <1>2, <2>4, <3>4, <3>5 DEF CalmAfter
      <2> QED
          BY <2>5, <2>6
    <1>6. CASE StopBegin(n)
      <2>1. stop'[n].step = "cleanup" /\ stop'[n].owns
          BY <1>6 DEF StopBegin, TypeOK
      <2>2. vms[n] \in Copies /\ vms[n].status = "running" /\ vms[n] # NoVM
          BY <1>6, TypeParts DEF StopBegin
      <2>3. Engaged(n)
          BY <1>3, <2>2 DEF Engaged
      <2>4. task[n].step = "idle"
        <3>1. task[n].step \in Steps
            BY TypeParts, TaskFields
        <3> QED
            BY <1>0, <2>2, <3>1 DEF QuietNode, Steps
      <2>5. PICK copy : copy = [vms[n] EXCEPT !.status = "stopping", !.desired = "stopped"]
          OBVIOUS
      <2>6. copy \in Copies /\ copy # NoVM /\ copy.status = "stopping"
          BY <2>2, <2>5, CopyMoves, CopyFields
      <2>7. Persist(n, rec, copy)
          BY <1>6, <2>5 DEF StopBegin
      <2>8. vms'[n] = copy /\ rec' # NoRecord /\ rec'.node = n /\ (rec' = rec \/ rec'.vm = copy)
          BY <2>3, <2>6, <2>7, CalmPersistOwner
      <2>9. ~operatorStopped(rec')
          BY <1>0, <1>6, <2>3, <2>6, <2>8 DEF QuietNode, operatorStopped, StopBegin
      <2>10. QuietNode(n)'
          BY <1>0, <1>1, <1>2, <2>1, <2>4, <2>6, <2>8, <2>9 DEF QuietNode
      <2>11. \A m \in Nodes \ {n} : ~Engaged(m)
          BY <2>3, OneEngaged
      <2> QED
          BY <1>2, <2>8, <2>10, <2>11 DEF CalmAfter
    <1>7. CASE StopCleanup(n)
      <2>1. stop[n].step = "cleanup" /\ stop[n].owns /\ vms[n] # NoVM
          BY <1>0, <1>7 DEF StopCleanup, QuietNode
      <2>2. vms[n].status = "stopping" /\ vms[n] \in Copies
          BY <1>0, <2>1, TypeParts DEF QuietNode
      <2>3. stop'[n].step = "migrate" /\ stop'[n].owns
          BY <1>7, <2>1, StopMoves, TypeParts DEF StopCleanup, TypeOK
      <2>4. Engaged(n)
          BY <1>3, <2>1 DEF Engaged
      <2>5. PICK copy : copy = [vms[n] EXCEPT !.status = "stopped"]
          OBVIOUS
      <2>6. copy \in Copies /\ copy # NoVM /\ copy.status = "stopped"
          BY <2>2, <2>5, StatusMoves DEF Statuses
      <2>7. Persist(n, rec, copy)
          BY <1>7, <2>1, <2>2, <2>5 DEF StopCleanup
      <2>8. vms'[n] = copy /\ rec' # NoRecord /\ rec'.node = n
          BY <2>4, <2>6, <2>7, CalmPersistOwner
      <2>9. task[n].step = "idle"
        <3>1. task[n].step \in Steps
            BY TypeParts, TaskFields
        <3> QED
            BY <1>0, <2>1, <2>2, <3>1 DEF QuietNode, Steps
      <2>10. QuietNode(n)'
          BY <1>0, <1>1, <1>2, <2>3, <2>6, <2>8, <2>9 DEF QuietNode
      <2>11. \A m \in Nodes \ {n} : ~Engaged(m)
          BY <2>4, OneEngaged
      <2> QED
          BY <1>2, <2>8, <2>10, <2>11 DEF CalmAfter
    <1>8. CASE MigrateStopped(n)
      <2>1. stop[n].step = "migrate" /\ stop[n].owns /\ vms[n] # NoVM
          BY <1>0, <1>8 DEF MigrateStopped, QuietNode
      <2>2. Engaged(n) /\ vms[n].status = "stopped"
          BY <1>0, <1>3, <2>1 DEF Engaged, QuietNode
      <2>3. task[n].step = "idle"
        <3>1. task[n].step \in Steps
            BY TypeParts, TaskFields
        <3> QED
            BY <1>0, <2>1, <2>2, <3>1 DEF QuietNode, Steps
      <2>4. stop'[n].step = "no" /\ vms'[n] = NoVM
          BY <1>8, <2>1 DEF MigrateStopped, TypeOK, Calm, Linked, NoStop
      <2>5. rec' # NoRecord
          BY <1>8, RecordTypes, CopyTypes DEF MigrateStopped, Calm, Linked, Statuses
      <2>6. ~Engaged(n)'
          BY <1>1, <2>3, <2>4 DEF Engaged
      <2>7. QuietNode(n)'
          BY <1>0, <1>1, <1>2, <2>3, <2>4, <2>6 DEF QuietNode
      <2>8. \A m \in Nodes \ {n} : ~Engaged(m)
          BY <2>2, OneEngaged
      <2> QED
          BY <1>2, <2>5, <2>7, <2>8 DEF CalmAfter
    <1> QED
        BY <1>5, <1>6, <1>7, <1>8

LEMMA CalmFaults ==
    ASSUME TypeOK, Calm, seen' = {}, NEW n \in Nodes, TaskInv(n),
           DaemonCrash(n) \/ HostCrash(n) \/ Heartbeat(n) \/ HeartbeatLapses(n)
    PROVE  CalmAfter(n)
    <1>0. QuietNode(n) /\ \A k \in Nodes : Up(k) => k \in fresh
        BY DEF Calm, QuietNode
    <1>1. CASE DaemonCrash(n) \/ HostCrash(n)
      <2>1. /\ UNCHANGED <<rec, cut, fresh>> /\ notice' = {}
            /\ task'[n] = Idle /\ stop'[n] = NoStop /\ vms'[n] = NoVM
            /\ daemon'[n] \in {"down", "dead"}
            /\ \A k \in Nodes \ {n} : daemon'[k] = daemon[k]
          BY <1>1 DEF DaemonCrash, HostCrash, Forgets, clusterVars, TypeOK, Calm
      <2>2. ~Up(n)' /\ \A k \in Nodes : Up(k)' => Up(k) /\ k \in fresh'
          BY <1>0, <2>1 DEF Up
      <2>3. ~Engaged(n)'
          BY <2>2 DEF Engaged
      <2>4. QuietNode(n)'
          BY <2>1, <2>2, <2>3 DEF QuietNode, Idle, NoStop
      <2> QED
          BY <2>1, <2>2, <2>4 DEF CalmAfter, Calm
    <1>2. CASE Heartbeat(n) \/ HeartbeatLapses(n)
      <2>1. UNCHANGED <<rec, cut, notice, task, stop, vms, daemon>>
          BY <1>2 DEF Heartbeat, HeartbeatLapses, nodeVars, hostVars, recoveryVars
      <2>2. \A k \in Nodes : Up(k) => k \in fresh'
          BY <1>0, <1>2 DEF Heartbeat, HeartbeatLapses, Calm, Linked
      <2>3. \A k \in Nodes : Up(k)' <=> Up(k)
          BY <2>1 DEF Up
      <2>4. QuietNode(n)'
          BY <1>0, <2>1, <2>2, <2>3 DEF QuietNode, Engaged, operatorStopped
      <2> QED
          BY <2>1, <2>2, <2>3, <2>4 DEF CalmAfter, Calm
    <1> QED
        BY <1>1, <1>2

\* The other steps disturb the calm, or cannot happen in it.
LEMMA CalmOthers ==
    ASSUME TypeOK, Calm, seen' = {}, NEW n \in Nodes, TaskInv(n),
           \/ ClaimStoppedInstance(n) \/ FenceVolume(n) \/ DropNotice(n)
           \/ CutOff(n) \/ Heal(n) \/ LoadState(n) \/ Booting(n)
    PROVE  FALSE
    <1>1. ~ClaimStoppedInstance(n) /\ ~CutOff(n) /\ ~LoadState(n)
        BY DEF ClaimStoppedInstance, CutOff, LoadState
    <1>2. ~FenceVolume(n) /\ ~DropNotice(n) /\ ~Heal(n)
        BY DEF FenceVolume, DropNotice, Heal, Calm
    <1>3. ~Booting(n)
        BY DEF Booting, ForgetSuperseded, Restore, RelaunchFails, BootDone, Calm, QuietNode
    <1> QED
        BY <1>1, <1>2, <1>3

LEMMA QuietStep ==
    ASSUME TypeOK, TypeOK', QuietInv, \A n \in Nodes : TaskInv(n), [Next]_vars
    PROVE  QuietInv'
    <1> SUFFICES ASSUME seen' = {} PROVE Calm'
        BY DEF QuietInv, Calm
    <1>0. Calm
        BY SeenGrows DEF QuietInv, Calm
    <1>1. CASE UNCHANGED vars
        BY <1>0, <1>1 DEF vars, Calm, QuietNode, Engaged, Up, operatorStopped
    <1>2. CASE LeaseExpires
      <2>1. UNCHANGED <<rec, cut, notice, fresh, vms, daemon, stop, task>>
          BY <1>0, <1>2 DEF LeaseExpires, nodeVars, recoveryVars, Calm, Linked
      <2> QED
          BY <1>0, <2>1 DEF Calm, QuietNode, Engaged, Up, operatorStopped
    <1>3. ASSUME NEW n \in Nodes, NodeStep(n)
          PROVE  Calm'
      <2>1. CalmAfter(n)
          BY <1>0, <1>3, CalmRecovers, CalmLaunches, CalmStops, CalmFaults, CalmOthers
          DEF NodeStep
      <2> QED
          BY <1>0, <1>3, <2>1, CalmKeeps
    <1> QED
        BY <1>1, <1>2, <1>3 DEF Next, NodeStep

-----------------------------------------------------------------------------
(* The theorems. *)

LEMMA InitInv == Init => IInv
    <1> SUFFICES ASSUME Init PROVE IInv
        OBVIOUS
    <1>1. TypeOK
        BY InitType
    <1>2. /\ cut = {} /\ notice = {} /\ qemu = {First} /\ lease = First /\ fresh = Nodes
          /\ \A n \in Nodes : /\ daemon[n] = "up" /\ stop[n] = NoStop /\ task[n] = Idle
                              /\ n # First => vms[n] = NoVM
          /\ vms[First] = Copy("running", "running")
          /\ rec = [node |-> First, vm |-> Copy("running", "running")]
        BY DEF Init
    <1>3. /\ Copy("running", "running") \in Copies
          /\ Copy("running", "running").status = "running"
        BY CopyTypes DEF Statuses
    <1>4. rec # NoRecord /\ rec.node = First /\ ~operatorStopped(rec)
        BY <1>2, <1>3, RecordTypes DEF operatorStopped
    <1>5. ASSUME NEW n \in Nodes
          PROVE  TaskInv(n) /\ GuestInv(n) /\ QuietNode(n)
      <2>1. TaskInv(n) /\ GuestInv(n)
          BY <1>2 DEF TaskInv, GuestInv, Idle
      <2>2. Engaged(n) => n = First
          BY <1>2 DEF Engaged, Idle
      <2>3. vms[n] # NoVM => vms[n].status = "running"
          BY <1>2, <1>3
      <2> QED
          BY <1>2, <1>4, <2>1, <2>2, <2>3 DEF QuietNode, Idle, NoStop, Up
    <1> QED
        BY <1>1, <1>2, <1>4, <1>5 DEF IInv, DiskInv, QuietInv

LEMMA NextInv == IInv /\ [Next]_vars => IInv'
    <1> SUFFICES ASSUME IInv, [Next]_vars PROVE IInv'
        OBVIOUS
    <1>1. TypeOK'
        BY TypeStep DEF IInv
    <1>2. DiskInv' /\ \A n \in Nodes : TaskInv(n)' /\ GuestInv(n)'
        BY DiskStep, NodesStep DEF IInv
    <1>3. QuietInv'
        BY <1>1, QuietStep DEF IInv
    <1> QED
        BY <1>1, <1>2, <1>3 DEF IInv

LEMMA Invariance == Spec => []IInv
    BY InitInv, NextInv, PTL DEF Spec

\* At most one element.
LEMMA AtMostOne ==
    ASSUME NEW S, \A x, y \in S : x = y
    PROVE  Cardinality(S) <= 1
    <1>1. CASE S = {}
        BY <1>1, FS_EmptySet
    <1>2. CASE S # {}
      <2>1. PICK x : x \in S
          BY <1>2
      <2>2. S = {x}
          BY <2>1
      <2>3. Cardinality({x}) = 1
          BY FS_Singleton, Zenon
      <2> QED
          BY <2>2, <2>3
    <1> QED
        BY <1>1, <1>2

\* The state of InstanceOwnership stays what the code's record, VM map, local
\* state file and recovery loop can hold, on any number of nodes.
THEOREM TypeCorrect == Spec => []TypeOK
    <1>1. IInv => TypeOK
        BY DEF IInv
    <1> QED
        BY <1>1, Invariance, PTL

\* A guest never runs twice: as long as no node was cut off from the store,
\* whatever crashes, returns, stops and starts happen, in any order, mounting
\* before launching and killing before releasing leave at most one QEMU.
THEOREM GuestIsSingle == Spec => []OneGuest
    <1>1. IInv => OneGuest
      <2> SUFFICES ASSUME IInv, "cut" \notin seen PROVE Cardinality(qemu) <= 1
          BY DEF OneGuest
      <2>1. \A x, y \in qemu : x = y
          BY DEF IInv, DiskInv
      <2> QED
          BY <2>1, AtMostOne
    <1> QED
        BY <1>1, Invariance, PTL

\* While nodes only crash, the claim's compare-and-set and the hand-back of
\* launchClaimedInstance leave the instance to one live node at a time.
THEOREM ClaimantIsSingle == Spec => []OneClaimant
    <1>1. IInv => OneClaimant
      <2> SUFFICES ASSUME IInv, seen = {}
                   PROVE  Cardinality({n \in Nodes : Engaged(n)}) <= 1
          BY DEF OneClaimant
      <2>1. \A x, y \in {n \in Nodes : Engaged(n)} : x = y
          BY DEF IInv, QuietInv, QuietNode
      <2> QED
          BY <2>1, AtMostOne
    <1> QED
        BY <1>1, Invariance, PTL

\* ... the node that runs the guest is the one the record names, so that no
\* survivor takes it for a candidate and its own restart does not drop it.
THEOREM OwnerRuns == Spec => []RunningIsOwned
    <1>1. IInv => RunningIsOwned
        BY DEF IInv, QuietInv, QuietNode, RunningIsOwned, Runs, Engaged
    <1> QED
        BY <1>1, Invariance, PTL

\* ... and a record that says stopped is not contradicted by a live node that
\* still launches or runs the guest.
THEOREM StoppedStaysDown == Spec => []StoppedIsDown
    <1>1. IInv => StoppedIsDown
      <2> SUFFICES ASSUME IInv, seen = {}, operatorStopped(rec), NEW n \in Nodes, Up(n),
                          \/ vms[n] # NoVM /\ vms[n].status = "running"
                          \/ task[n].step \in {"inserted", "mounted"}
                   PROVE  FALSE
          BY DEF StoppedIsDown, Runs
      <2>1. QuietNode(n)
          BY DEF IInv, QuietInv
      <2>2. Engaged(n)
          BY <2>1 DEF QuietNode, Engaged
      <2>3. stop[n].step = "migrate" => vms[n].status = "stopped"
          BY <2>1 DEF QuietNode
      <2> QED
          BY <2>1, <2>2, <2>3 DEF QuietNode
    <1> QED
        BY <1>1, Invariance, PTL
=============================================================================
