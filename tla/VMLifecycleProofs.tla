------------------------- MODULE VMLifecycleProofs -------------------------
(***************************************************************************)
(* The proofs about VMLifecycle, for any number of requests, deaths,       *)
(* faults and restarts: its type invariant, and that no handler brings     *)
(* back an instance whose terminated record was written.                   *)
(***************************************************************************)
EXTENDS VMLifecycle, TLAPS

USE LifecycleBounds

-----------------------------------------------------------------------------
(* What the helpers of the actions do to what they write. *)

LEMMA TransitionType ==
    ASSUME TypeOK, NEW target \in Statuses
    PROVE  TransitionState(target) \in Statuses
    BY DEF TransitionState, TypeOK

\* Nothing leads out of terminated.
LEMMA TerminatedIsLast ==
    ASSUME status = "terminated", NEW target
    PROVE  ~IsValidTransition(target) /\ TransitionState(target) = "terminated"
    <1>1. "terminated" \in Statuses
        BY DEF Statuses
    <1>2. ValidTransitions["terminated"] = {}
        BY <1>1 DEF ValidTransitions
    <1> QED BY <1>2 DEF IsValidTransition, TransitionState

LEMMA GotoType ==
    ASSUME TypeOK, NEW l \in Launchers, NEW step \in LaunchSteps, Goto(l, step)
    PROVE  launch' \in [Launchers -> LaunchSteps]
    BY DEF Goto, TypeOK

LEMMA ErrorType ==
    ASSUME TypeOK, NEW l \in Launchers, LaunchError(l)
    PROVE  /\ launch' \in [Launchers -> LaunchSteps]
           /\ mark' \in [Markers -> {"idle", "called", "terminate", "recover"}]
           /\ charge' \in Int /\ status' \in Statuses
    <1>1. launch' \in [Launchers -> LaunchSteps]
        BY GotoType DEF LaunchError, LaunchSteps
    <1>2. mark' \in [Markers -> {"idle", "called", "terminate", "recover"}]
        BY DEF LaunchError, TypeOK
    <1>3. charge' \in Int
        BY DEF LaunchError, TypeOK
    <1>4. status' \in Statuses
        BY TransitionType DEF LaunchError, TypeOK, Statuses
    <1> QED BY <1>1, <1>2, <1>3, <1>4

LEMMA GoesType ==
    ASSUME TypeOK, NEW l \in Launchers, NEW step \in LaunchSteps, LaunchGoes(l, step)
    PROVE  /\ launch' \in [Launchers -> LaunchSteps]
           /\ mark' \in [Markers -> {"idle", "called", "terminate", "recover"}]
           /\ charge' \in Int /\ status' \in Statuses
    BY GotoType DEF LaunchGoes, TypeOK

LEMMA EndsType ==
    ASSUME TypeOK, NEW how, QemuEnds(how)
    PROVE  qemu' \in BOOLEAN /\ crash' \in [Handlers -> {"idle", "called", "checked", "unmount"}]
    BY DEF QemuEnds, TypeOK

LEMMA BoundsType ==
    ASSUME TypeOK, Call \/ Death \/ Fault \/ UNCHANGED bounds
    PROVE  calls' \in 0 .. MaxCalls /\ deaths' \in 0 .. MaxDeaths /\ faults' \in 0 .. MaxFaults
    BY DEF Call, Death, Fault, bounds, TypeOK

LEMMA ShutdownType ==
    ASSUME TypeOK, ShutdownQEMU
    PROVE  /\ qemu' \in BOOLEAN /\ crash' \in [Handlers -> {"idle", "called", "checked", "unmount"}]
           /\ calls' \in 0 .. MaxCalls /\ deaths' \in 0 .. MaxDeaths /\ faults' \in 0 .. MaxFaults
    <1>1. CASE \E how \in {"quit", "killed"} : QemuEnds(how) /\ UNCHANGED bounds
        BY <1>1, EndsType, BoundsType
    <1>2. CASE qemu /\ Fault /\ UNCHANGED <<qemu, crash>>
        <2>1. calls' \in 0 .. MaxCalls /\ deaths' \in 0 .. MaxDeaths /\ faults' \in 0 .. MaxFaults
            BY <1>2, BoundsType
        <2> QED BY <1>2, <2>1 DEF TypeOK
    <1> QED BY <1>1, <1>2 DEF ShutdownQEMU

LEMMA DeleteType ==
    ASSUME TypeOK, DeleteVolumes
    PROVE  /\ volumes' \in {"kept", "deleted"} /\ owed' \in {"none", "failed", "done"}
           /\ calls' \in 0 .. MaxCalls /\ deaths' \in 0 .. MaxDeaths /\ faults' \in 0 .. MaxFaults
    <1>1. calls' \in 0 .. MaxCalls /\ deaths' \in 0 .. MaxDeaths /\ faults' \in 0 .. MaxFaults
        BY BoundsType DEF DeleteVolumes
    <1> QED BY <1>1 DEF DeleteVolumes, TypeOK

-----------------------------------------------------------------------------
(* Every step keeps the types. *)

LEMMA LaunchType ==
    ASSUME TypeOK, NEW l \in Launchers, Launching(l) \/ LaunchWedges(l)
    PROVE  TypeOK'
    <1> USE DEF health, ends, bounds
    <1>0. {"idle", "mount", "exec", "connect", "commit", "persist", "wedged"} \subseteq LaunchSteps
        BY DEF LaunchSteps
    <1>1. CASE LaunchCheck(l)
        <2>1. LaunchError(l) \/ \E step \in LaunchSteps : LaunchGoes(l, step)
            BY <1>0, <1>1 DEF LaunchCheck
        <2> QED BY <1>1, <2>1, ErrorType, GoesType DEF LaunchCheck, TypeOK
    <1>2. CASE Mount(l)
        <2>1. \E step \in LaunchSteps : LaunchGoes(l, step)
            BY <1>0, <1>2 DEF Mount
        <2> QED BY <1>2, <2>1, GoesType DEF Mount, TypeOK
    <1>3. CASE startQEMU(l)
        <2>1. \E step \in LaunchSteps : LaunchGoes(l, step)
            BY <1>0, <1>3 DEF startQEMU
        <2> QED BY <1>3, <2>1, GoesType DEF startQEMU, TypeOK
    <1>4. CASE Connect(l)
        <2>1. \E step \in LaunchSteps : LaunchGoes(l, step)
            BY <1>0, <1>4 DEF Connect
        <2> QED BY <1>4, <2>1, GoesType DEF Connect, TypeOK
    <1>5. CASE Commit(l)
        <2>1. \E step \in LaunchSteps : LaunchGoes(l, step)
            BY <1>0, <1>5 DEF Commit
        <2>2. first' \in BOOLEAN
            BY <1>5 DEF Commit
        <2> QED BY <1>5, <2>1, <2>2, GoesType DEF Commit, TypeOK
    <1>6. CASE LaunchPersist(l)
        <2>1. /\ launch' \in [Launchers -> LaunchSteps]
              /\ mark' \in [Markers -> {"idle", "called", "terminate", "recover"}]
              /\ charge' \in Int /\ status' \in Statuses
            <3>1. CASE IsValidTransition("running")
                BY <1>0, <1>6, <3>1, GotoType DEF LaunchPersist, TypeOK, Statuses
            <3>2. CASE ~IsValidTransition("running")
                BY <1>6, <3>2, ErrorType DEF LaunchPersist
            <3> QED BY <3>1, <3>2
        <2>2. overtaken' \in BOOLEAN
            BY <1>6 DEF LaunchPersist
        <2> QED BY <1>6, <2>1, <2>2 DEF LaunchPersist, TypeOK
    <1>7. CASE LaunchFails(l)
        <2>1. /\ launch' \in [Launchers -> LaunchSteps]
              /\ mark' \in [Markers -> {"idle", "called", "terminate", "recover"}]
              /\ charge' \in Int /\ status' \in Statuses
            BY <1>7, ErrorType DEF LaunchFails
        <2>2. qemu' \in BOOLEAN /\ crash' \in [Handlers -> {"idle", "called", "checked", "unmount"}]
            BY <1>7, EndsType DEF LaunchFails, TypeOK
        <2>3. mounted' \in BOOLEAN
            BY <1>7 DEF LaunchFails, TypeOK
        <2> QED BY <1>7, <2>1, <2>2, <2>3 DEF LaunchFails, TypeOK
    <1>8. CASE LaunchWedges(l)
        <2>1. launch' \in [Launchers -> LaunchSteps]
            BY <1>0, <1>8, GotoType DEF LaunchWedges
        <2>2. calls' \in 0 .. MaxCalls /\ deaths' \in 0 .. MaxDeaths /\ faults' \in 0 .. MaxFaults
            BY <1>8, BoundsType DEF LaunchWedges
        <2> QED BY <1>8, <2>1, <2>2 DEF LaunchWedges, TypeOK, entry, guest
    <1> QED BY <1>1, <1>2, <1>3, <1>4, <1>5, <1>6, <1>7, <1>8 DEF Launching

LEMMA MarkType ==
    ASSUME TypeOK, NEW m \in Markers, Marking(m)
    PROVE  TypeOK'
    <1> USE DEF health, ends, bounds, entry, guest
    <1>1. CASE MarkFailed(m)
        <2>1. mark' \in [Markers -> {"idle", "called", "terminate", "recover"}]
            BY <1>1 DEF MarkFailed, TypeOK
        <2> QED BY <1>1, <2>1 DEF MarkFailed, TypeOK
    <1>2. CASE MarkFailedTerminates(m)
        <2>1. status' \in Statuses
            BY <1>2, TransitionType DEF MarkFailedTerminates, Statuses
        <2> QED BY <1>2, <2>1 DEF MarkFailedTerminates, TypeOK
    <1>3. CASE MarkRecoveryFailed(m)
        <2>1. status' \in Statuses
            BY <1>3, TransitionType DEF MarkRecoveryFailed, Statuses
        <2>2. clean' \in [Cleaners -> {"idle", "asked", "kill", "unmount", "finish"}]
            BY <1>3 DEF MarkRecoveryFailed, TypeOK
        <2>3. crashes' \in Nat
            BY <1>3 DEF MarkRecoveryFailed, TypeOK
        <2> QED BY <1>3, <2>1, <2>2, <2>3 DEF MarkRecoveryFailed, TypeOK
    <1> QED BY <1>1, <1>2, <1>3 DEF Marking

LEMMA CrashType ==
    ASSUME TypeOK, NEW h \in Handlers, Crashing(h)
    PROVE  TypeOK'
    <1> USE DEF health, ends, bounds, entry, guest
    <1>1. CASE HandleCrash(h)
        BY <1>1 DEF HandleCrash, TypeOK
    <1>2. CASE CrashErrors(h)
        <2>1. status' \in Statuses
            BY <1>2, TransitionType DEF CrashErrors, Statuses
        <2> QED BY <1>2, <2>1 DEF CrashErrors, TypeOK
    <1>3. CASE CrashUnmounts(h)
        <2>1. timers' \in Nat
            BY <1>3 DEF CrashUnmounts, TypeOK
        <2>2. mounted' \in BOOLEAN
            BY <1>3 DEF CrashUnmounts
        <2>3. crash' \in [Handlers -> {"idle", "called", "checked", "unmount"}]
            BY <1>3 DEF CrashUnmounts, TypeOK
        <2> QED BY <1>3, <2>1, <2>2, <2>3 DEF CrashUnmounts, TypeOK
    <1> QED BY <1>1, <1>2, <1>3 DEF Crashing

LEMMA CleanType ==
    ASSUME TypeOK, NEW c \in Cleaners, Cleaning(c)
    PROVE  TypeOK'
    <1> USE DEF health, ends, entry, guest
    <1>1. CASE CleanKills(c)
        BY <1>1, ShutdownType DEF CleanKills, TypeOK
    <1>2. CASE CleanUnmounts(c)
        <2>1. clean' \in [Cleaners -> {"idle", "asked", "kill", "unmount", "finish"}]
            BY <1>2 DEF CleanUnmounts, TypeOK
        <2>2. mounted' \in BOOLEAN
            BY <1>2 DEF CleanUnmounts
        <2>3. charge' \in Int
            BY <1>2 DEF CleanUnmounts, TypeOK
        <2> QED BY <1>2, <2>1, <2>2, <2>3 DEF CleanUnmounts, TypeOK, bounds
    <1> QED BY <1>1, <1>2 DEF Cleaning

LEMMA StopType ==
    ASSUME TypeOK, Stopping \/ StopInstance \/ GuestPowersOff
    PROVE  TypeOK'
    <1> USE DEF health, ends, entry, guest
    <1>1. CASE StopBegins
        <2>1. status' \in Statuses
            BY <1>1 DEF StopBegins, TypeOK, Statuses
        <2>2. clean' \in [Cleaners -> {"idle", "asked", "kill", "unmount", "finish"}]
            BY <1>1 DEF StopBegins, TypeOK
        <2> QED BY <1>1, <2>1, <2>2 DEF StopBegins, TypeOK, bounds
    <1>2. CASE StopFinishes
        <2>1. status' \in Statuses
            BY <1>2, TransitionType DEF StopFinishes, Statuses
        <2>2. inMap' \in BOOLEAN
            BY <1>2 DEF StopFinishes, TypeOK
        <2>3. calls' \in 0 .. MaxCalls /\ deaths' \in 0 .. MaxDeaths /\ faults' \in 0 .. MaxFaults
            BY <1>2, BoundsType DEF StopFinishes
        <2>4. clean' \in [Cleaners -> {"idle", "asked", "kill", "unmount", "finish"}]
            BY <1>2 DEF StopFinishes, TypeOK
        <2> QED BY <1>2, <2>1, <2>2, <2>3, <2>4 DEF StopFinishes, TypeOK
    <1>3. CASE StopInstance \/ GuestPowersOff
        <2>1. calls' \in 0 .. MaxCalls /\ deaths' \in 0 .. MaxDeaths /\ faults' \in 0 .. MaxFaults
            BY <1>3, BoundsType DEF StopInstance, GuestPowersOff
        <2>2. clean' \in [Cleaners -> {"idle", "asked", "kill", "unmount", "finish"}] /\ desired' \in {"running", "stopped"}
            BY <1>3 DEF StopInstance, GuestPowersOff, TypeOK
        <2>3. CASE StopInstance
            BY <2>1, <2>2, <2>3 DEF StopInstance, TypeOK
        <2>4. CASE GuestPowersOff
            BY <2>1, <2>2, <2>4, ZenonT(30) DEF GuestPowersOff, TypeOK
        <2> QED BY <1>3, <2>3, <2>4
    <1> QED BY <1>1, <1>2, <1>3 DEF Stopping

LEMMA TearType ==
    ASSUME TypeOK, Tearing \/ TerminateWedges \/ TerminateInstance
    PROVE  TypeOK'
    <1> USE DEF health, ends, entry, guest
    <1>1. CASE TerminateInstance \/ TerminateWedges
        <2>1. calls' \in 0 .. MaxCalls /\ deaths' \in 0 .. MaxDeaths /\ faults' \in 0 .. MaxFaults
            BY <1>1, BoundsType DEF TerminateInstance, TerminateWedges
        <2>2. CASE TerminateInstance
            BY <2>1, <2>2 DEF TerminateInstance, TypeOK
        <2>3. CASE TerminateWedges
            BY <2>1, <2>3 DEF TerminateWedges, TypeOK
        <2> QED BY <1>1, <2>2, <2>3
    <1>2. CASE Terminate
        <2>1. status' \in Statuses
            BY <1>2 DEF Terminate, TypeOK, Statuses
        <2> QED BY <1>2, <2>1 DEF Terminate, TypeOK, bounds
    <1>3. CASE TerminateKills
        BY <1>3, ShutdownType DEF TerminateKills, TypeOK
    <1>4. CASE TerminatePurges
        <2>1. /\ volumes' \in {"kept", "deleted"} /\ owed' \in {"none", "failed", "done"}
              /\ calls' \in 0 .. MaxCalls /\ deaths' \in 0 .. MaxDeaths /\ faults' \in 0 .. MaxFaults
            BY <1>4, DeleteType DEF TerminatePurges
        <2>2. mounted' \in BOOLEAN
            BY <1>4 DEF TerminatePurges
        <2>3. charge' \in Int
            BY <1>4 DEF TerminatePurges, TypeOK
        <2> QED BY <1>4, <2>1, <2>2, <2>3 DEF TerminatePurges, TypeOK
    <1>5. CASE TerminateFinalizes
        <2>1. status' \in Statuses
            BY <1>5, TransitionType DEF TerminateFinalizes, FinalizeTerminated, Statuses
        <2>2. record' \in BOOLEAN /\ inMap' \in BOOLEAN
            BY <1>5 DEF TerminateFinalizes, FinalizeTerminated, TypeOK
        <2>3. faults' \in 0 .. MaxFaults
            <3>1. status' = "terminated" /\ ~record' => faults > 0
                BY <1>5 DEF TerminateFinalizes, FinalizeTerminated, TransitionState, TypeOK
            <3> QED BY <1>5, <3>1 DEF TerminateFinalizes, TypeOK
        <2> QED BY <1>5, <2>1, <2>2, <2>3 DEF TerminateFinalizes, TypeOK
    <1> QED BY <1>1, <1>2, <1>3, <1>4, <1>5 DEF Tearing

LEMMA StartType ==
    ASSUME TypeOK, Start \/ StartInstance \/ Restarting
    PROVE  TypeOK'
    <1> USE DEF health, ends, entry, guest
    <1>0. {"admitted", "check", "idle"} \subseteq LaunchSteps /\ {"start", "restart"} \subseteq Launchers
        BY DEF LaunchSteps, Launchers
    <1>1. CASE StartInstance
        <2>1. calls' \in 0 .. MaxCalls /\ deaths' \in 0 .. MaxDeaths /\ faults' \in 0 .. MaxFaults
            BY <1>1, BoundsType DEF StartInstance
        <2>2. launch' \in [Launchers -> LaunchSteps]
            BY <1>0, <1>1, GotoType DEF StartInstance
        <2> QED BY <1>1, <2>1, <2>2 DEF StartInstance, TypeOK
    <1>2. CASE Start
        <2>1. launch' \in [Launchers -> LaunchSteps]
            BY <1>0, <1>2, GotoType DEF Start
        <2>2. status' \in Statuses /\ charge' \in Int
            BY <1>2 DEF Start, TypeOK, Statuses
        <2> QED BY <1>2, <2>1, <2>2 DEF Start, TypeOK, bounds
    <1>3. CASE RestartCrashedInstance
        <2>1. launch' \in [Launchers -> LaunchSteps]
            BY <1>0, <1>3, GotoType DEF RestartCrashedInstance, TypeOK
        <2>2. timers' \in Nat /\ charge' \in Int
            BY <1>3 DEF RestartCrashedInstance, TypeOK
        <2> QED BY <1>3, <2>1, <2>2 DEF RestartCrashedInstance, TypeOK, bounds
    <1>4. CASE RestartLaunches
        <2>1. launch' \in [Launchers -> LaunchSteps]
            BY <1>0, <1>4, GotoType DEF RestartLaunches
        <2>2. status' \in Statuses
            BY <1>4, TransitionType DEF RestartLaunches, Statuses
        <2>3. charge' \in Int
            BY <1>4 DEF RestartLaunches, TypeOK
        <2> QED BY <1>4, <2>1, <2>2, <2>3 DEF RestartLaunches, TypeOK, bounds
    <1> QED BY <1>1, <1>2, <1>3, <1>4 DEF Restarting

Sweeping ==
    \/ HeartbeatSeesDeath \/ HeartbeatExits \/ scanAndMarkStuckPending \/ GuestDies
    \/ reconcileVanishedQEMU \/ forceFinalizeStuckTerminate \/ OrphanSweep \/ TeardownSweep

LEMMA SweepType ==
    ASSUME TypeOK, Sweeping
    PROVE  TypeOK'
    <1> USE DEF health, ends, entry, guest
    <1>1. CASE HeartbeatSeesDeath \/ HeartbeatExits \/ scanAndMarkStuckPending
        <2>1. CASE HeartbeatSeesDeath
            <3>1. crash' \in [Handlers -> {"idle", "called", "checked", "unmount"}]
                BY <2>1 DEF HeartbeatSeesDeath, TypeOK
            <3>2. beat' \in BOOLEAN
                BY <2>1 DEF HeartbeatSeesDeath
            <3> QED BY <2>1, <3>1, <3>2 DEF HeartbeatSeesDeath, TypeOK, bounds
        <2>2. CASE HeartbeatExits
            <3>1. beat' \in BOOLEAN
                BY <2>2 DEF HeartbeatExits
            <3> QED BY <2>2, <3>1 DEF HeartbeatExits, TypeOK, bounds
        <2>3. CASE scanAndMarkStuckPending
            <3>1. mark' \in [Markers -> {"idle", "called", "terminate", "recover"}]
                BY <2>3 DEF scanAndMarkStuckPending, TypeOK
            <3> QED BY <2>3, <3>1 DEF scanAndMarkStuckPending, TypeOK, bounds
        <2> QED BY <1>1, <2>1, <2>2, <2>3
    <1>2. CASE GuestDies
        <2>1. calls' \in 0 .. MaxCalls /\ deaths' \in 0 .. MaxDeaths /\ faults' \in 0 .. MaxFaults
            BY <1>2, BoundsType DEF GuestDies
        <2>2. qemu' \in BOOLEAN /\ crash' \in [Handlers -> {"idle", "called", "checked", "unmount"}]
            BY <1>2, EndsType DEF GuestDies
        <2> QED BY <1>2, <2>1, <2>2 DEF GuestDies, TypeOK
    <1>3. CASE reconcileVanishedQEMU
        BY <1>3 DEF reconcileVanishedQEMU, Outstanding, TypeOK, Statuses, bounds
    <1>4. CASE forceFinalizeStuckTerminate
        <2>1. calls' \in 0 .. MaxCalls /\ deaths' \in 0 .. MaxDeaths /\ faults' \in 0 .. MaxFaults
            BY <1>4, BoundsType DEF forceFinalizeStuckTerminate
        <2>2. qemu' \in BOOLEAN /\ crash' \in [Handlers -> {"idle", "called", "checked", "unmount"}]
            BY <1>4, EndsType DEF forceFinalizeStuckTerminate, TypeOK
        <2>3. volumes' \in {"kept", "deleted"} /\ owed' \in {"none", "failed", "done"}
            BY <1>4 DEF forceFinalizeStuckTerminate, Outstanding, TypeOK
        <2> QED BY <1>4, <2>1, <2>2, <2>3 DEF forceFinalizeStuckTerminate, TypeOK, Statuses
    <1>5. CASE OrphanSweep
        <2>1. calls' \in 0 .. MaxCalls /\ deaths' \in 0 .. MaxDeaths /\ faults' \in 0 .. MaxFaults
            BY <1>5, BoundsType DEF OrphanSweep
        <2>2. qemu' \in BOOLEAN /\ crash' \in [Handlers -> {"idle", "called", "checked", "unmount"}]
            BY <1>5, EndsType DEF OrphanSweep, TypeOK
        <2> QED BY <1>5, <2>1, <2>2 DEF OrphanSweep, TypeOK
    <1>6. CASE TeardownSweep
        BY <1>6, DeleteType DEF TeardownSweep, TypeOK
    <1> QED BY <1>1, <1>2, <1>3, <1>4, <1>5, <1>6 DEF Sweeping

LEMMA TypeStep == TypeOK /\ [Next]_vars => TypeOK'
    <1> SUFFICES ASSUME TypeOK, [Next]_vars PROVE TypeOK'
        OBVIOUS
    <1>1. CASE UNCHANGED vars
        BY <1>1 DEF vars, entry, guest, health, ends, bounds, TypeOK
    <1>2. CASE Next
        BY <1>2, LaunchType, MarkType, CrashType, CleanType, StopType, TearType, StartType,
           SweepType DEF Next, Sweeping
    <1> QED BY <1>1, <1>2

LEMMA TypeInit == Init => TypeOK
    <1> SUFFICES ASSUME Init PROVE TypeOK
        OBVIOUS
    <1>1. status \in Statuses /\ launch \in [Launchers -> LaunchSteps]
        BY DEF Init, Statuses, LaunchSteps
    <1>2. /\ charge \in Int /\ timers \in Nat /\ crashes \in Nat
          /\ calls \in 0 .. MaxCalls /\ deaths \in 0 .. MaxDeaths /\ faults \in 0 .. MaxFaults
        BY DEF Init
    <1>3. /\ mark \in [Markers -> {"idle", "called", "terminate", "recover"}]
          /\ crash \in [Handlers -> {"idle", "called", "checked", "unmount"}]
          /\ clean \in [Cleaners -> {"idle", "asked", "kill", "unmount", "finish"}]
        BY DEF Init
    <1> QED BY <1>1, <1>2, <1>3 DEF Init, TypeOK

(* Every reachable state has its types; in particular no timer fires that was   *)
(* not set, and no handler is in a state its code does not have.                *)
THEOREM TypeCorrect == Spec => []TypeOK
    BY TypeInit, TypeStep, PTL DEF Spec

-----------------------------------------------------------------------------
(* The terminated record is final. *)

LEMMA FinalStep == TypeOK /\ TerminatedForGood /\ [Next]_vars => TerminatedForGood'
    <1> SUFFICES ASSUME TypeOK, TerminatedForGood, [Next]_vars, record'
                 PROVE  status' = "terminated"
        BY DEF TerminatedForGood
    <1> USE DEF entry, guest, health, ends, bounds
    <1>0. /\ ~IsValidTransition("running") \/ status # "terminated"
          /\ \A target : status = "terminated" =>
                ~IsValidTransition(target) /\ TransitionState(target) = "terminated"
        BY TerminatedIsLast
    <1>1. CASE UNCHANGED vars
        BY <1>1 DEF vars, TerminatedForGood
    <1>2. ASSUME NEW l \in Launchers, Launching(l) \/ LaunchWedges(l) PROVE status' = "terminated"
        <2>1. status = "terminated"
            BY <1>2 DEF Launching, LaunchCheck, Mount, startQEMU, Connect, Commit, LaunchPersist,
                        LaunchFails, LaunchWedges, TerminatedForGood
        <2>2. LaunchError(l) => status' = "terminated"
            BY <1>0, <2>1 DEF LaunchError
        <2>3. LaunchPersist(l) => LaunchError(l)
            BY <1>0, <2>1 DEF LaunchPersist
        <2> QED BY <1>2, <2>1, <2>2, <2>3 DEF Launching, LaunchCheck, Mount, startQEMU, Connect,
                        Commit, LaunchFails, LaunchWedges, LaunchGoes
    <1>3. ASSUME NEW m \in Markers, Marking(m) PROVE status' = "terminated"
        BY <1>0, <1>3 DEF Marking, MarkFailed, MarkFailedTerminates, MarkRecoveryFailed,
                          TerminatedForGood
    <1>4. ASSUME NEW h \in Handlers, Crashing(h) PROVE status' = "terminated"
        BY <1>0, <1>4 DEF Crashing, HandleCrash, CrashErrors, CrashUnmounts, TerminatedForGood
    <1>5. ASSUME NEW c \in Cleaners, Cleaning(c) PROVE status' = "terminated"
        BY <1>5 DEF Cleaning, CleanKills, CleanUnmounts, TerminatedForGood
    <1>6. CASE Stopping \/ StopInstance \/ GuestPowersOff
        BY <1>0, <1>6 DEF Stopping, StopBegins, StopFinishes, StopInstance, GuestPowersOff,
                          TerminatedForGood
    <1>7. CASE Terminate \/ TerminateKills \/ TerminatePurges \/ TerminateWedges \/ TerminateInstance
        BY <1>0, <1>7 DEF Terminate, TerminateKills, TerminatePurges, TerminateWedges,
                          TerminateInstance, TerminatedForGood
    <1>8. CASE TerminateFinalizes
        <2>1. CASE IsValidTransition("terminated") \/ status = "terminated"
            BY <1>0, <1>8, <2>1 DEF TerminateFinalizes, FinalizeTerminated, TransitionState
        <2>2. CASE ~(IsValidTransition("terminated") \/ status = "terminated")
            BY <1>8, <2>2 DEF TerminateFinalizes, FinalizeTerminated, TerminatedForGood
        <2> QED BY <2>1, <2>2
    <1>9. CASE Start \/ StartInstance \/ Restarting
        BY <1>0, <1>9 DEF Start, StartInstance, Restarting, RestartCrashedInstance, RestartLaunches,
                          TerminatedForGood
    <1>10. CASE Sweeping
        BY <1>10 DEF Sweeping, HeartbeatSeesDeath, HeartbeatExits, scanAndMarkStuckPending,
                     GuestDies, reconcileVanishedQEMU, forceFinalizeStuckTerminate, OrphanSweep,
                     TeardownSweep, TerminatedForGood
    <1> QED BY <1>1, <1>2, <1>3, <1>4, <1>5, <1>6, <1>7, <1>8, <1>9, <1>10
            DEF Next, Tearing, Sweeping

(* Once the terminated record is written, no launch, restart, stop, crash       *)
(* handler or reaper changes the status again: TransitionState refuses the late *)
(* change of every handler that looked before the terminate ended.              *)
THEOREM RecordIsFinal == Spec => []TerminatedForGood
    <1>1. Init => TerminatedForGood
        BY DEF Init, TerminatedForGood
    <1> QED BY <1>1, TypeCorrect, FinalStep, PTL DEF Spec
=============================================================================
