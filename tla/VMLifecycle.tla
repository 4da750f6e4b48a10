---------------------------- MODULE VMLifecycle ----------------------------
(***************************************************************************)
(* One instance on the node that owns it: the vm.Manager entry, its QEMU   *)
(* process, its volumes and its charge on the resource manager, and the    *)
(* goroutines that act on them without a common lock: launches, stop,      *)
(* terminate, the crash handler and its delayed restart, the watchdog and  *)
(* the garbage collector's reapers.                                        *)
(*                                                                         *)
(* The manager lock covers one look at the status or one change of it.  A  *)
(* handler that looks and then changes does so in two steps, and another   *)
(* handler's look or change may come between them.  What takes a while (a  *)
(* mount, an unmount, a kill, a timer, a sweep) does not fit in between.   *)
(*                                                                         *)
(* QEMU locks its PID file, so a second process for the instance exits at  *)
(* once and its launch connects to the first (QEMU is external).           *)
(***************************************************************************)
EXTENDS Integers

CONSTANTS
    MaxRestarts,  \* MaxRestartsInWindow, 3 in the code
    MaxCalls,     \* bound: stop, start and terminate requests
    MaxDeaths,    \* bound: guests that die or power off on their own
    MaxFaults     \* bound: wedged steps, and kills, deletes, writes that fail

ASSUME LifecycleBounds ==
    /\ MaxRestarts \in Nat /\ MaxCalls \in Nat
    /\ MaxDeaths \in Nat /\ MaxFaults \in Nat

VARIABLES
    status,    \* VM.Status
    inMap,     \* the manager's map has the entry
    desired,   \* VM.DesiredState
    first,     \* VM.FirstLaunch
    qemu,      \* a QEMU process is alive
    mounted,   \* the volumes are mounted here
    volumes,   \* "kept" or "deleted"
    charge,    \* what the resource manager counts for the instance
    launch,    \* [Launchers -> where a launch stands]
    mark,      \* [Markers -> where a MarkFailed call stands]
    crash,     \* [Handlers -> where a HandleCrash call stands]
    clean,     \* [Cleaners -> where a stopCleanup and its caller stand]
    tear,      \* where terminate's cleanup stands
    beat,      \* a QMP heartbeat goroutine is alive
    timers,    \* restarts scheduled
    crashes,   \* Health.CrashCount
    record,    \* the terminated record is in the KV bucket
    owed,      \* the teardown mark of the volumes: none, failed or done
    asked,     \* a TerminateInstances was accepted
    overtaken, \* a launch wrote running over a status changed since its check
    calls, deaths, faults    \* what is left of the bounds

entry == <<status, inMap, desired, first>>
guest == <<qemu, mounted, volumes, charge>>
health == <<beat, timers, crashes>>
ends == <<record, owed, asked, overtaken>>
bounds == <<calls, deaths, faults>>
vars == <<entry, guest, launch, mark, crash, clean, tear, health, ends,
          bounds>>

Statuses == {"pending", "running", "stopping", "stopped", "shutting-down",
             "terminated", "error"}
Launchers == {"run", "start", "restart"}
Markers == {"run", "watchdog"}
Handlers == {"exit", "beat"}
Cleaners == {"stop", "recover"}

LaunchSteps == {"idle", "admitted", "check", "mount", "exec", "connect",
                "commit", "persist", "wedged"}

-----------------------------------------------------------------------------
(* The transition table, and TransitionState, which checks and moves under *)
(* the lock.                                                               *)

ValidTransitions ==
    [s \in Statuses |->
       CASE s = "pending"       -> {"running", "error", "shutting-down"}
         [] s = "running"       -> {"stopping", "shutting-down", "error"}
         [] s = "stopping"      -> {"stopped", "shutting-down", "error"}
         [] s = "stopped"       -> {"running", "shutting-down", "error"}
         [] s = "shutting-down" -> {"terminated", "error"}
         [] s = "error"         -> {"pending", "running", "shutting-down"}
         [] s = "terminated"    -> {}]

IsValidTransition(target) == target \in ValidTransitions[status]

\* Mutant: the status is written whatever it has become.
TransitionUnchecked(target) == target

TransitionState(target) == IF IsValidTransition(target) THEN target ELSE status

Terminating == {"shutting-down", "terminated"}

(* No handler is between its look and its change, unless it waits for the  *)
(* cleanup of another to make room for its own.                            *)
Calm ==
    /\ \A l \in Launchers : launch[l] \notin {"admitted", "commit", "persist"}
    /\ \A m \in Markers :
          /\ mark[m] = "terminate" => tear # "idle"
          /\ mark[m] = "recover" => clean["recover"] # "idle"
    /\ \A h \in Handlers : crash[h] # "checked"

Call == calls > 0 /\ calls' = calls - 1 /\ UNCHANGED <<deaths, faults>>
Death == deaths > 0 /\ deaths' = deaths - 1 /\ UNCHANGED <<calls, faults>>
Fault == faults > 0 /\ faults' = faults - 1 /\ UNCHANGED <<calls, deaths>>

(* A QEMU that is killed leaves a wait error, which its goroutine takes to *)
(* the crash handler; one that quits leaves none.                          *)
QemuEnds(how) ==
    /\ qemu' = FALSE
    /\ crash' = IF qemu /\ how = "killed" /\ crash["exit"] = "idle"
                THEN [crash EXCEPT !["exit"] = "called"] ELSE crash

(* shutdownQEMU: powerdown, then kill; a kill that fails is only logged. *)
ShutdownQEMU ==
    \/ \E how \in {"quit", "killed"} : QemuEnds(how) /\ UNCHANGED bounds
    \/ qemu /\ Fault /\ UNCHANGED <<qemu, crash>>

-----------------------------------------------------------------------------
(* launch, by RunInstances, StartInstances and the crash restart. *)

launchStillValid == status \in {"pending", "stopped"}

Goto(l, step) == launch' = [launch EXCEPT ![l] = step]

(* The launch returns an error to its caller: RunInstances marks the       *)
(* instance failed, a start gives its charge back, a restart does so too   *)
(* and puts the entry back in error.                                       *)
LaunchError(l) ==
    /\ Goto(l, "idle")
    /\ mark' = IF l = "run" THEN [mark EXCEPT !["run"] = "called"] ELSE mark
    /\ charge' = IF l = "run" THEN charge ELSE charge - 1
    /\ status' = IF l = "restart" THEN TransitionState("error") ELSE status

LaunchGoes(l, step) == Goto(l, step) /\ UNCHANGED <<mark, charge, status>>

LaunchCheck(l) ==
    /\ launch[l] = "check"
    /\ IF launchStillValid /\ qemu THEN LaunchError(l)
       ELSE LaunchGoes(l, IF launchStillValid THEN "mount" ELSE "idle")
    /\ UNCHANGED <<inMap, desired, first, qemu, mounted, volumes, crash, clean,
                   tear, health, ends, bounds>>

(* A mount may take minutes, hence the second look after it. *)
Mount(l) ==
    /\ Calm
    /\ launch[l] = "mount" /\ volumes = "kept"
    /\ mounted' = TRUE
    /\ LaunchGoes(l, IF launchStillValid THEN "exec" ELSE "idle")
    /\ UNCHANGED <<inMap, desired, first, qemu, volumes, crash, clean, tear,
                   health, ends, bounds>>

startQEMU(l) ==
    /\ Calm
    /\ launch[l] = "exec"
    /\ qemu' = TRUE
    /\ LaunchGoes(l, "connect")
    /\ UNCHANGED <<inMap, desired, first, mounted, volumes, crash, clean, tear,
                   health, ends, bounds>>

(* The monitor answers: heartbeat started, entry inserted (again). *)
Connect(l) ==
    /\ Calm
    /\ launch[l] = "connect" /\ qemu
    /\ beat' = TRUE
    /\ inMap' = TRUE
    /\ LaunchGoes(l, "commit")
    /\ UNCHANGED <<desired, first, qemu, mounted, volumes, crash, clean, tear,
                   timers, crashes, ends, bounds>>

(* The last look, and the instance is one that has run. *)
Commit(l) ==
    /\ launch[l] = "commit"
    /\ first' = (first /\ ~launchStillValid)
    /\ LaunchGoes(l, IF launchStillValid THEN "persist" ELSE "idle")
    /\ UNCHANGED <<inMap, desired, qemu, mounted, volumes, crash, clean, tear,
                   health, ends, bounds>>

LaunchPersist(l) ==
    /\ launch[l] = "persist"
    /\ IF IsValidTransition("running")
       THEN status' = "running" /\ Goto(l, "idle") /\ UNCHANGED <<mark, charge>>
       ELSE LaunchError(l)
    /\ overtaken' = (overtaken \/ ~launchStillValid)
    /\ UNCHANGED <<inMap, desired, first, qemu, mounted, volumes, crash, clean,
                   tear, health, record, owed, asked, bounds>>

(* Mount or startQEMU fails, leaving what was mounted; volumes that cannot *)
(* be marked in use are sealed again; a QEMU whose monitor does not answer *)
(* is killed.                                                              *)
LaunchFails(l) ==
    /\ Calm
    /\ launch[l] \in {"mount", "exec", "connect"}
    /\ IF launch[l] = "connect" THEN QemuEnds("killed") ELSE UNCHANGED <<qemu, crash>>
    /\ mounted' \in {mounted, mounted /\ launch[l] # "exec"}
    /\ LaunchError(l)
    /\ UNCHANGED <<inMap, desired, first, volumes, clean, tear, health, ends,
                   bounds>>

(* A mount that never answers. *)
LaunchWedges(l) ==
    /\ launch[l] = "mount" /\ Fault
    /\ Goto(l, "wedged")
    /\ UNCHANGED <<entry, guest, mark, crash, clean, tear, health, ends>>

-----------------------------------------------------------------------------
(* StartInstances for an entry in the map.  Calls for one instance are     *)
(* delivered one after the other.                                          *)

StartInstance ==
    /\ Call
    /\ inMap /\ status \in {"stopped", "error"} /\ launch["start"] = "idle"
    /\ charge' = charge + 1
    /\ desired' = "running"
    /\ Goto("start", "admitted")
    /\ UNCHANGED <<status, inMap, first, qemu, mounted, volumes, mark, crash,
                   clean, tear, health, ends>>

Start ==
    /\ launch["start"] = "admitted"
    /\ IF inMap
       THEN /\ status' = IF status = "error" THEN "pending" ELSE status
            /\ Goto("start", "check")
            /\ UNCHANGED charge
       ELSE UNCHANGED status /\ Goto("start", "idle") /\ charge' = charge - 1
    /\ UNCHANGED <<inMap, desired, first, guest, mark, crash, clean, tear,
                   health, ends, bounds>>

-----------------------------------------------------------------------------
(* MarkFailed and the watchdog.  The look is under the lock and so is the  *)
(* change, but the two are not one step.                                   *)

\* Mutant: the watchdog passes over the instances that never ran.
scanRelaunchesOnly ==
    /\ inMap /\ ~first /\ status = "pending" /\ mark["watchdog"] = "idle"
    /\ mark' = [mark EXCEPT !["watchdog"] = "called"]
    /\ UNCHANGED <<entry, guest, launch, crash, clean, tear, health, ends,
                   bounds>>

scanAndMarkStuckPending ==
    /\ inMap /\ first /\ status = "pending" /\ mark["watchdog"] = "idle"
    /\ mark' = [mark EXCEPT !["watchdog"] = "called"]
    /\ UNCHANGED <<entry, guest, launch, crash, clean, tear, health, ends,
                   bounds>>

MarkFailed(m) ==
    /\ mark[m] = "called"
    /\ mark' = [mark EXCEPT ![m] =
                  CASE status \in Terminating -> "idle"
                    [] status \notin Terminating /\ first -> "terminate"
                    [] status \notin Terminating /\ ~first /\ status # "error" -> "recover"
                    [] OTHER -> "idle"]
    /\ UNCHANGED <<entry, guest, launch, crash, clean, tear, health, ends,
                   bounds>>

MarkFailedTerminates(m) ==
    /\ mark[m] = "terminate"
    /\ tear = "idle" \/ ~IsValidTransition("shutting-down")
    /\ mark' = [mark EXCEPT ![m] = "idle"]
    /\ status' = TransitionState("shutting-down")
    /\ tear' = IF IsValidTransition("shutting-down") THEN "kill" ELSE tear
    /\ UNCHANGED <<inMap, desired, first, guest, launch, crash, clean, health,
                   ends, bounds>>

MarkRecoveryFailed(m) ==
    /\ mark[m] = "recover" /\ clean["recover"] = "idle"
    /\ mark' = [mark EXCEPT ![m] = "idle"]
    /\ status' = TransitionState("error")
    /\ IF IsValidTransition("error") \/ status = "error"
       THEN /\ clean' = [clean EXCEPT !["recover"] = "kill"]
            /\ crashes' = IF inMap THEN crashes + 1 ELSE crashes
       ELSE UNCHANGED <<clean, crashes>>
    /\ UNCHANGED <<inMap, desired, first, guest, launch, crash, tear, beat,
                   timers, ends, bounds>>

-----------------------------------------------------------------------------
(* Stop, by an operator or after the guest powered itself off, and the     *)
(* cleanup of MarkRecoveryFailed, which shares stopCleanup with it.        *)

StopInstance ==
    /\ Call
    /\ inMap /\ IsValidTransition("stopping") /\ clean["stop"] = "idle"
    /\ desired' = "stopped"
    /\ clean' = [clean EXCEPT !["stop"] = "asked"]
    /\ UNCHANGED <<status, inMap, first, guest, launch, mark, crash, tear,
                   health, ends>>

(* The heartbeat ends a QEMU whose guest powered off, its exit stops it. *)
GuestPowersOff ==
    /\ Death
    /\ qemu /\ beat /\ status = "running" /\ clean["stop"] = "idle"
    /\ qemu' = FALSE
    /\ desired' = IF inMap THEN "stopped" ELSE desired
    /\ clean' = [clean EXCEPT !["stop"] = "asked"]
    /\ UNCHANGED <<status, inMap, first, mounted, volumes, charge, launch,
                   mark, crash, tear, health, ends>>

StopBegins ==
    /\ clean["stop"] = "asked"
    /\ LET go == inMap /\ IsValidTransition("stopping") IN
          /\ status' = IF go THEN "stopping" ELSE status
          /\ clean' = [clean EXCEPT !["stop"] = IF go THEN "kill" ELSE "idle"]
    /\ UNCHANGED <<inMap, desired, first, guest, launch, mark, crash, tear,
                   health, ends, bounds>>

CleanKills(c) ==
    /\ Calm
    /\ clean[c] = "kill"
    /\ ShutdownQEMU
    /\ clean' = [clean EXCEPT ![c] = "unmount"]
    /\ UNCHANGED <<entry, mounted, volumes, charge, launch, mark, tear, health,
                   ends>>

CleanUnmounts(c) ==
    /\ Calm
    /\ clean[c] = "unmount"
    /\ mounted' = FALSE
    /\ charge' = charge - 1
    /\ clean' = [clean EXCEPT ![c] = IF c = "stop" THEN "finish" ELSE "idle"]
    /\ UNCHANGED <<entry, qemu, volumes, launch, mark, crash, tear, health,
                   ends, bounds>>

(* stopped, if it still is a stop; an entry nobody wants running migrates  *)
(* to the shared bucket and leaves the map, unless the write fails.        *)
StopFinishes ==
    /\ Calm
    /\ clean["stop"] = "finish"
    /\ status' = TransitionState("stopped")
    /\ clean' = [clean EXCEPT !["stop"] = "idle"]
    /\ \/ inMap' = (inMap /\ desired # "stopped") /\ UNCHANGED bounds
       \/ desired = "stopped" /\ Fault /\ UNCHANGED inMap
    /\ UNCHANGED <<desired, first, guest, launch, mark, crash, tear, health,
                   ends>>

-----------------------------------------------------------------------------
(* Terminate.  One cleanup at a time is followed. *)

TerminateInstance ==
    /\ Call
    /\ inMap /\ IsValidTransition("shutting-down") /\ tear = "idle"
    /\ asked' = TRUE
    /\ tear' = "asked"
    /\ UNCHANGED <<entry, guest, launch, mark, crash, clean, health, record,
                   owed, overtaken>>

Terminate ==
    /\ tear = "asked"
    /\ LET go == inMap /\ IsValidTransition("shutting-down") IN
          /\ status' = IF go THEN "shutting-down" ELSE status
          /\ tear' = IF go THEN "kill" ELSE "idle"
    /\ UNCHANGED <<inMap, desired, first, guest, launch, mark, crash, clean,
                   health, ends, bounds>>

TerminateKills ==
    /\ Calm
    /\ tear = "kill"
    /\ ShutdownQEMU
    /\ tear' = "purge"
    /\ UNCHANGED <<entry, mounted, volumes, charge, launch, mark, clean,
                   health, ends>>

DeleteVolumes ==
    \/ volumes' = "deleted" /\ owed' = "done" /\ UNCHANGED bounds
    \/ owed' = "failed" /\ Fault /\ UNCHANGED volumes

TerminatePurges ==
    /\ Calm
    /\ tear = "purge"
    /\ mounted' = FALSE
    /\ DeleteVolumes
    /\ charge' = charge - 1
    /\ tear' = "finalize"
    /\ UNCHANGED <<entry, qemu, launch, mark, crash, clean, health, record,
                   asked, overtaken>>

(* A dead export stalls the unmount for good. *)
TerminateWedges ==
    /\ tear = "purge" /\ Fault
    /\ tear' = "wedged"
    /\ UNCHANGED <<entry, guest, launch, mark, crash, clean, health, ends>>

(* finalizeTerminated: the status, the record, then the map.  With no      *)
(* record the entry stays for the next boot.                               *)
FinalizeTerminated ==
    LET ends_ == IsValidTransition("terminated") \/ status = "terminated" IN
    /\ status' = TransitionState("terminated")
    /\ \/ ends_ /\ record' = TRUE /\ inMap' = FALSE
       \/ ends_ /\ ~record /\ faults > 0 /\ UNCHANGED <<record, inMap>>
       \/ ~ends_ /\ UNCHANGED <<record, inMap>>

TerminateFinalizes ==
    /\ Calm
    /\ tear = "finalize"
    /\ FinalizeTerminated
    /\ faults' = IF status' = "terminated" /\ ~record' THEN faults - 1 ELSE faults
    /\ tear' = "idle"
    /\ UNCHANGED <<desired, first, guest, launch, mark, crash, clean, health,
                   owed, asked, overtaken, calls, deaths>>

-----------------------------------------------------------------------------
(* The reapers.  Those of a shutting-down entry come after a grace period; *)
(* how far the terminate has got by then is open.                          *)

\* Mutant: a dependent without a mark counts as torn down.
OutstandingIfFailed == IF owed = "failed" THEN "failed" ELSE "done"

Outstanding == IF owed = "done" THEN "done" ELSE "failed"

\* Mutant: an entry whose volumes are still mounted is left alone.
reconcileUnmounted ==
    /\ Calm
    /\ inMap /\ status = "shutting-down" /\ ~qemu /\ ~mounted
    /\ owed' = Outstanding
    /\ status' = "terminated"
    /\ record' = TRUE
    /\ inMap' = FALSE
    /\ UNCHANGED <<desired, first, guest, launch, mark, crash, clean, tear,
                   health, asked, overtaken, bounds>>

reconcileVanishedQEMU ==
    /\ Calm
    /\ inMap /\ status = "shutting-down" /\ ~qemu
    /\ owed' = Outstanding
    /\ status' = "terminated"
    /\ record' = TRUE
    /\ inMap' = FALSE
    /\ UNCHANGED <<desired, first, guest, launch, mark, crash, clean, tear,
                   health, asked, overtaken, bounds>>

forceFinalizeStuckTerminate ==
    /\ Calm
    /\ inMap /\ status = "shutting-down" /\ qemu
    /\ \/ QemuEnds("killed") /\ volumes' = "deleted" /\ owed' = "done" /\ UNCHANGED bounds
       \/ Fault /\ owed' = Outstanding /\ UNCHANGED <<qemu, crash, volumes>>
    /\ status' = "terminated"
    /\ record' = TRUE
    /\ inMap' = FALSE
    /\ UNCHANGED <<desired, first, mounted, charge, launch, mark, clean, tear,
                   health, asked, overtaken>>

(* A terminated instance has no process... *)
OrphanSweep ==
    /\ Calm
    /\ record /\ qemu
    /\ \/ QemuEnds("killed") /\ UNCHANGED bounds
       \/ Fault /\ UNCHANGED <<qemu, crash>>
    /\ UNCHANGED <<entry, mounted, volumes, charge, launch, mark, clean, tear,
                   health, ends>>

(* ... and no volumes, once the process is gone. *)
TeardownSweep ==
    /\ Calm
    /\ record /\ owed = "failed" /\ ~qemu
    /\ DeleteVolumes
    /\ UNCHANGED <<entry, qemu, mounted, charge, launch, mark, crash, clean,
                   tear, health, record, asked, overtaken>>

-----------------------------------------------------------------------------
(* Crashes.  Both the goroutine that waits for the process and the         *)
(* heartbeat call HandleCrash.                                             *)

GuestDies ==
    /\ Death
    /\ qemu
    /\ \E how \in {"quit", "killed"} : QemuEnds(how)
    /\ UNCHANGED <<entry, mounted, volumes, charge, launch, mark, clean, tear,
                   health, ends>>

\* Mutant: a heartbeat that finds the socket closed just ends.
HeartbeatGivesUp ==
    /\ Calm
    /\ beat /\ ~qemu /\ crash["beat"] = "idle"
    /\ status \in {"pending", "running"}
    /\ beat' = FALSE
    /\ UNCHANGED <<entry, guest, launch, mark, crash, clean, tear, timers,
                   crashes, ends, bounds>>

(* Three polls in a row fail. *)
HeartbeatSeesDeath ==
    /\ Calm
    /\ beat /\ ~qemu /\ crash["beat"] = "idle"
    /\ status \in {"pending", "running"}
    /\ beat' = FALSE
    /\ crash' = [crash EXCEPT !["beat"] = "called"]
    /\ UNCHANGED <<entry, guest, launch, mark, clean, tear, timers, crashes,
                   ends, bounds>>

HeartbeatExits ==
    /\ Calm
    /\ beat /\ status \notin {"pending", "running"}
    /\ beat' = FALSE
    /\ UNCHANGED <<entry, guest, launch, mark, crash, clean, tear, timers,
                   crashes, ends, bounds>>

HandleCrash(h) ==
    /\ crash[h] = "called"
    /\ crash' = [crash EXCEPT ![h] = IF status = "running" THEN "checked" ELSE "idle"]
    /\ UNCHANGED <<entry, guest, launch, mark, clean, tear, health, ends,
                   bounds>>

(* An invalid transition is logged and the rest runs all the same. *)
CrashErrors(h) ==
    /\ crash[h] = "checked"
    /\ status' = TransitionState("error")
    /\ crashes' = IF inMap THEN crashes + 1 ELSE crashes
    /\ charge' = charge - 1
    /\ crash' = [crash EXCEPT ![h] = "unmount"]
    /\ UNCHANGED <<inMap, desired, first, qemu, mounted, volumes, launch, mark,
                   clean, tear, beat, timers, ends, bounds>>

(* The unmount and MaybeRestart; there may be no room for a restart. *)
CrashUnmounts(h) ==
    /\ Calm
    /\ crash[h] = "unmount"
    /\ mounted' = FALSE
    /\ \/ (inMap => crashes <= MaxRestarts) /\ timers' = timers + 1
       \/ UNCHANGED timers
    /\ crash' = [crash EXCEPT ![h] = "idle"]
    /\ UNCHANGED <<entry, qemu, volumes, charge, launch, mark, clean, tear,
                   beat, crashes, ends, bounds>>

\* Mutant: a restart runs that no crash scheduled.
RestartUnscheduled ==
    /\ Calm
    /\ launch["restart"] = "idle"
    /\ timers' = timers - 1
    /\ IF inMap /\ status = "error"
       THEN \/ charge' = charge + 1 /\ Goto("restart", "admitted")
            \/ UNCHANGED <<charge, launch>>
       ELSE UNCHANGED <<charge, launch>>
    /\ UNCHANGED <<entry, qemu, mounted, volumes, mark, crash, clean, tear, beat,
                   crashes, ends, bounds>>

(* The timer fires: counted and charged, if the entry is still in error. *)
RestartCrashedInstance ==
    /\ Calm
    /\ timers > 0 /\ launch["restart"] = "idle"
    /\ timers' = timers - 1
    /\ IF inMap /\ status = "error"
       THEN \/ charge' = charge + 1 /\ Goto("restart", "admitted")
            \/ UNCHANGED <<charge, launch>>
       ELSE UNCHANGED <<charge, launch>>
    /\ UNCHANGED <<entry, qemu, mounted, volumes, mark, crash, clean, tear,
                   beat, crashes, ends, bounds>>

RestartLaunches ==
    /\ launch["restart"] = "admitted"
    /\ status' = TransitionState("pending")
    /\ IF IsValidTransition("pending")
       THEN Goto("restart", "check") /\ UNCHANGED charge
       ELSE Goto("restart", "idle") /\ charge' = charge - 1
    /\ UNCHANGED <<inMap, desired, first, qemu, mounted, volumes, mark, crash,
                   clean, tear, health, ends, bounds>>

-----------------------------------------------------------------------------
(* PrepareRunInstances charged the node and inserted the entry. *)
Init ==
    /\ status = "pending" /\ inMap = TRUE /\ desired = "running" /\ first = TRUE
    /\ qemu = FALSE /\ mounted = FALSE /\ volumes = "kept" /\ charge = 1
    /\ launch = [l \in Launchers |-> IF l = "run" THEN "check" ELSE "idle"]
    /\ mark = [m \in Markers |-> "idle"]
    /\ crash = [h \in Handlers |-> "idle"]
    /\ clean = [c \in Cleaners |-> "idle"]
    /\ tear = "idle"
    /\ beat = FALSE /\ timers = 0 /\ crashes = 0
    /\ record = FALSE /\ owed = "none" /\ asked = FALSE /\ overtaken = FALSE
    /\ calls = MaxCalls /\ deaths = MaxDeaths /\ faults = MaxFaults

Launching(l) ==
    \/ LaunchCheck(l) \/ Mount(l) \/ startQEMU(l) \/ Connect(l)
    \/ Commit(l) \/ LaunchPersist(l) \/ LaunchFails(l)

Marking(m) == MarkFailed(m) \/ MarkFailedTerminates(m) \/ MarkRecoveryFailed(m)

Crashing(h) == HandleCrash(h) \/ CrashErrors(h) \/ CrashUnmounts(h)

Cleaning(c) == CleanKills(c) \/ CleanUnmounts(c)

Stopping == StopBegins \/ StopFinishes

Tearing == Terminate \/ TerminateKills \/ TerminatePurges \/ TerminateFinalizes

Restarting == RestartCrashedInstance \/ RestartLaunches

Next ==
    \/ \E l \in Launchers : Launching(l) \/ LaunchWedges(l)
    \/ \E m \in Markers : Marking(m)
    \/ \E h \in Handlers : Crashing(h)
    \/ \E c \in Cleaners : Cleaning(c)
    \/ Start \/ Stopping \/ Tearing \/ TerminateWedges \/ Restarting
    \/ StartInstance \/ StopInstance \/ TerminateInstance
    \/ GuestDies \/ GuestPowersOff
    \/ HeartbeatSeesDeath \/ HeartbeatExits \/ scanAndMarkStuckPending
    \/ reconcileVanishedQEMU \/ forceFinalizeStuckTerminate
    \/ OrphanSweep \/ TeardownSweep

(* Goroutines run on unless they are wedged, the heartbeat and the         *)
(* watchdog tick, and the collector sweeps for ever.                       *)
Fairness ==
    /\ \A l \in Launchers : WF_vars(Launching(l))
    /\ \A m \in Markers : WF_vars(Marking(m))
    /\ \A h \in Handlers : WF_vars(Crashing(h))
    /\ \A c \in Cleaners : WF_vars(Cleaning(c))
    /\ WF_vars(Start) /\ WF_vars(Stopping) /\ WF_vars(Tearing)
    /\ WF_vars(Restarting)
    /\ WF_vars(HeartbeatSeesDeath) /\ WF_vars(scanAndMarkStuckPending)
    /\ WF_vars(reconcileVanishedQEMU) /\ WF_vars(forceFinalizeStuckTerminate)
    /\ WF_vars(OrphanSweep) /\ WF_vars(TeardownSweep)

Spec == Init /\ [][Next]_vars /\ Fairness

-----------------------------------------------------------------------------
(* Properties. *)

TypeOK ==
    /\ status \in Statuses /\ inMap \in BOOLEAN
    /\ desired \in {"running", "stopped"} /\ first \in BOOLEAN
    /\ qemu \in BOOLEAN /\ mounted \in BOOLEAN
    /\ volumes \in {"kept", "deleted"} /\ charge \in Int
    /\ launch \in [Launchers -> LaunchSteps]
    /\ mark \in [Markers -> {"idle", "called", "terminate", "recover"}]
    /\ crash \in [Handlers -> {"idle", "called", "checked", "unmount"}]
    /\ clean \in [Cleaners -> {"idle", "asked", "kill", "unmount", "finish"}]
    /\ tear \in {"idle", "asked", "kill", "purge", "wedged", "finalize"}
    /\ beat \in BOOLEAN /\ timers \in Nat /\ crashes \in Nat
    /\ record \in BOOLEAN /\ owed \in {"none", "failed", "done"}
    /\ asked \in BOOLEAN /\ overtaken \in BOOLEAN
    /\ calls \in 0..MaxCalls /\ deaths \in 0..MaxDeaths /\ faults \in 0..MaxFaults

(* The terminated record is final: no launch, restart, stop or crash       *)
(* handler that looked at the status before the terminate ended brings     *)
(* the instance back with its late change.                                 *)
TerminatedForGood == record => status = "terminated"

(* A dead guest is not shown running for ever: a death the process's       *)
(* goroutine passed over, as a clean exit or because the launch was not    *)
(* committed yet, is left to the heartbeat, which must still be there.     *)
NoZombie ==
    []~overtaken => ((status = "running" /\ ~qemu) ~> (status # "running" \/ qemu))

(* A first launch does not stay pending, with its mount wedged or not. *)
FirstLaunchEnds == (status = "pending" /\ first) ~> ~(status = "pending" /\ first)

(* A terminate that wedged, or whose guest will not die, is completed by a *)
(* reaper as long as the node lists the instance.                          *)
TerminateEnds ==
    (status = "shutting-down" /\ inMap) ~> (status \in {"terminated", "error"} \/ ~inMap)

(* What a terminated record leaves behind is reclaimed for good: a guest   *)
(* that survived, or that an overtaken launch started after the terminate  *)
(* was done, is killed, and then its volumes are deleted.                  *)
TeardownFinishes == record ~> [](volumes = "deleted" /\ ~qemu)

(* An instance that has run, and that nobody asked to terminate, keeps its *)
(* volumes.                                                                *)
DataKept == volumes = "deleted" => asked \/ first

(* The resource manager never counts less than what runs. *)
ChargeCovers == charge >= 0

(* A launch that fails does not leave its instance pending. *)
PendingEnds == (status = "pending") ~> (status # "pending")
=============================================================================
