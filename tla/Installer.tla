----------------------------- MODULE Installer -----------------------------
(***************************************************************************)
(* The commands that install, update and remove the agent                  *)
(* (cmd/agent_smith/config.go, update.go, uninstall.go) against the        *)
(* service managers (internal/service/service_linux.go, service_darwin.go, *)
(* service_windows.go), composed with the service process they stop and    *)
(* start (ServiceHost) and with the update runner in it that starts one of *)
(* them.                                                                   *)
(*                                                                         *)
(* A command is a list of steps; each may fail, and a command that fails   *)
(* leaves everything as it is.  Commands run one at a time: no lock in the *)
(* code keeps two apart, but two at once are left out.  A file holds the   *)
(* number of the command that wrote it, so that old and new are told       *)
(* apart; os.WriteFile truncates first, so a failed write leaves the file  *)
(* Torn.  The 5 s sleeps are covered by waiting for the process.           *)
(***************************************************************************)
EXTENDS ServiceHost, Sequences

CONSTANTS
    MaxCommands,   \* bound on the commands
    MaxFaults,     \* bound on the injected failures
    Absent, Torn   \* a missing file, one with only a part of its data

ASSUME CommandBounds == MaxCommands \in Nat /\ MaxFaults \in Nat
ASSUME FileAssumption == Absent # Torn /\ {Absent, Torn} \cap Nat = {}

VARIABLES
    kind,         \* the running command, or "none"
    todo,         \* its remaining steps
    self,         \* it was started by the update runner
    number,       \* commands so far
    outcome,      \* of the last command: "none", "ok", "failed" or "killed"
    registered,   \* what Open asks the manager for
    unit,         \* unit file, plist or service entry
    config, exe,  \* config.json and the installed executable
    missed,       \* history: IsActive denied a process that lives or comes back
    faults        \* injected failures so far

jobVars  == <<kind, todo, self, number>>
diskVars == <<config, exe>>
mgrVars  == <<registered, unit>>
vars == <<hostVars, jobVars, outcome, mgrVars, diskVars, missed, faults>>

Kinds == {"config", "update", "account", "uninstall"}

(* Mutants: config keeps the old service; update copies the executable     *)
(* before it stops the service.                                            *)
StepsWithoutDelete(k) ==
    CASE k = "config"    -> <<"fetch", "saveConfig", "open", "stop", "stopped", "saveExe",
                              "create", "start">>
      [] k = "update"    -> <<"open", "stop", "stopped", "readConfig", "saveConfig",
                              "saveExe", "start">>
      [] k = "account"   -> <<"open", "stop", "stopped", "readConfig", "saveConfig",
                              "saveExe", "create", "start">>
      [] k = "uninstall" -> <<"open", "stop", "stopped", "delete", "removeData",
                              "removeProgram">>
StepsCopyFirst(k) ==
    CASE k = "config"    -> <<"fetch", "saveConfig", "open", "stop", "stopped", "delete",
                              "saveExe", "create", "start">>
      [] k \in {"update", "account"} -> <<"open", "saveExe", "readConfig", "saveConfig",
                                          "stop", "stopped", "start">>
      [] k = "uninstall" -> <<"open", "stop", "stopped", "delete", "removeData",
                              "removeProgram">>

(* The order of the steps.  "account" is an update with a service account. *)
Steps(k) ==
    CASE k = "config"    -> <<"fetch", "saveConfig", "open", "stop", "stopped", "delete",
                              "saveExe", "create", "start">>
      [] k = "update"    -> <<"open", "stop", "stopped", "readConfig", "saveConfig",
                              "saveExe", "start">>
      [] k = "account"   -> <<"open", "stop", "stopped", "readConfig", "saveConfig",
                              "saveExe", "delete", "create", "start">>
      [] k = "uninstall" -> <<"open", "stop", "stopped", "delete", "removeData",
                              "removeProgram">>

Files == {Absent, Torn} \cup 1..MaxCommands
Whole(file) == file \notin {Absent, Torn}

TypeOK ==
    /\ HostTypeOK
    /\ kind \in Kinds \cup {"none"}
    /\ \E k \in Kinds : \E n \in 0..Len(Steps(k)) :
         /\ todo = SubSeq(Steps(k), n + 1, Len(Steps(k)))
         /\ kind = (IF n = Len(Steps(k)) THEN "none" ELSE k)
    /\ self \in BOOLEAN /\ missed \in BOOLEAN
    /\ number \in 0..MaxCommands /\ faults \in 0..MaxFaults
    /\ outcome \in {"none", "ok", "failed", "killed"}
    /\ registered \in BOOLEAN /\ unit \in BOOLEAN
    /\ config \in Files /\ exe \in Files

Init ==
    /\ HostInit
    /\ kind = "none" /\ todo = <<>> /\ self = FALSE /\ number = 0
    /\ outcome = "none" /\ registered = FALSE /\ unit = FALSE
    /\ config = Absent /\ exe = Absent
    /\ missed = FALSE /\ faults = 0
-----------------------------------------------------------------------------
(* The frame of a command. *)

At(step) == kind # "none" /\ Head(todo) = step

Begins(k, bySelf) ==
    /\ kind = "none" /\ number < MaxCommands
    /\ kind' = k /\ todo' = Steps(k) /\ self' = bySelf /\ number' = number + 1
    /\ outcome' = "none" /\ missed' = FALSE
    /\ UNCHANGED <<mgrVars, diskVars, faults>>

Ends(result) ==
    /\ kind' = "none" /\ todo' = <<>> /\ outcome' = result
    /\ UNCHANGED <<self, number>>

(* The next n steps are done. *)
Advance(n) ==
    IF n = Len(todo) THEN Ends("ok")
    ELSE /\ todo' = SubSeq(todo, n + 1, Len(todo))
         /\ UNCHANGED <<kind, self, number, outcome>>

(* An operator runs a command. *)
Run(k) == Begins(k, FALSE) /\ UNCHANGED hostVars

(* The update runner starts the downloaded installer with --update.        *)
SelfUpdate == Begins("update", TRUE) /\ Launch

Fault == faults < MaxFaults /\ faults' = faults + 1
NoFault == UNCHANGED faults

(* Any step can fail before it has an effect. *)
StepFails ==
    /\ kind # "none" /\ Fault /\ Ends("failed")
    /\ ~(kind = "config" /\ At("open"))
    /\ UNCHANGED <<hostVars, mgrVars, diskVars, missed>>
-----------------------------------------------------------------------------
(* The steps. *)

Fetch ==
    /\ At("fetch") /\ Advance(1)
    /\ UNCHANGED <<hostVars, mgrVars, diskVars, missed, faults>>

(* WriteFile of config.json and of the executable.  An executable that is  *)
(* being run cannot be written, except on macOS.                           *)
Saves(step) ==
    \/ At(step) /\ Advance(1) /\ NoFault
    \/ At(step) /\ Ends("failed") /\ Fault
Written == IF outcome' = "failed" THEN Torn ELSE number
SaveConfig ==
    /\ Saves("saveConfig")
    /\ config' = Written
    /\ UNCHANGED <<hostVars, mgrVars, exe, missed>>

Busy == Live /\ exe # Absent /\ platform # "darwin"
SaveExe ==
    /\ ~Busy /\ Saves("saveExe")
    /\ exe' = Written
    /\ UNCHANGED <<hostVars, mgrVars, config, missed>>
(* Mutant: the error of the copy is logged and the command goes on. *)
ExeBusyIgnored ==
    /\ At("saveExe") /\ Busy /\ Advance(1)
    /\ UNCHANGED <<hostVars, mgrVars, diskVars, missed, faults>>
ExeBusy ==
    /\ At("saveExe") /\ Busy /\ Ends("failed")
    /\ UNCHANGED <<hostVars, mgrVars, diskVars, missed, faults>>

ReadConfig ==
    /\ At("readConfig")
    /\ IF Whole(config) THEN Advance(1) ELSE Ends("failed")
    /\ UNCHANGED <<hostVars, mgrVars, diskVars, missed, faults>>

(* Open.  The config command takes every failure for "not installed" and   *)
(* goes on without stopping and deleting anything.                         *)
Open ==
    /\ At("open") /\ registered /\ Advance(1)
    /\ UNCHANGED <<hostVars, mgrVars, diskVars, missed, faults>>
OpenFails ==
    /\ At("open")
    /\ \/ ~registered /\ NoFault
       \/ registered /\ kind = "config" /\ Fault
    /\ IF kind = "config" THEN Advance(4) ELSE Ends("failed")
    /\ missed' = (Live \/ proc = "restarting")
    /\ UNCHANGED <<hostVars, mgrVars, diskVars>>

(* IsActive says no: nothing is stopped. *)
SkipStop ==
    /\ At("stop") /\ ~LooksActive /\ Advance(2)
    /\ missed' = (missed \/ Live \/ proc = "restarting")
    /\ UNCHANGED <<hostVars, mgrVars, diskVars, faults>>

(* Stop.  systemd ends every process of the unit's control group, and the  *)
(* installer that the agent has started is one: Setsid does not leave it.  *)
KilledWithUnit == platform = "linux" /\ self
AskStop ==
    /\ At("stop") /\ LooksActive
    /\ asked' = TRUE
    /\ IF KilledWithUnit THEN Ends("killed") ELSE Advance(1)
    /\ UNCHANGED <<platform, proc, upd, attempt, crashes, mgrVars, diskVars, missed, faults>>

(* Mutant: the stop request is sent and not waited for.                    *)
StopUnwaited ==
    /\ At("stopped") /\ Advance(1)
    /\ UNCHANGED <<hostVars, mgrVars, diskVars, missed, faults>>
(* systemctl stop and unload return when the process is gone, Windows is   *)
(* polled for Stopped.  On macOS the service is unloaded then, and Open    *)
(* does not find it any more.                                              *)
Stopped ==
    /\ At("stopped") /\ ~Live /\ Advance(1)
    /\ registered' = (registered /\ platform # "darwin")
    /\ UNCHANGED <<hostVars, unit, diskVars, missed, faults>>

(* Delete, and on Linux the failure between its two halves.                *)
Delete ==
    /\ At("delete") /\ Advance(1)
    /\ registered' = FALSE /\ unit' = FALSE
    /\ UNCHANGED <<hostVars, diskVars, missed, faults>>
DeleteHalf ==
    /\ At("delete") /\ platform # "windows" /\ Ends("failed") /\ Fault
    /\ registered' = FALSE
    /\ UNCHANGED <<hostVars, unit, diskVars, missed>>

(* Create: on macOS the plist is written and loaded by Start only; Windows *)
(* refuses a second entry, and one that is marked for deletion.            *)
Refused == platform = "windows" /\ (unit \/ Live)
Create ==
    /\ At("create") /\ ~Refused /\ Advance(1)
    /\ unit' = TRUE /\ registered' = (platform # "darwin")
    /\ UNCHANGED <<hostVars, diskVars, missed, faults>>
CreateFails ==
    /\ At("create") /\ Refused /\ Ends("failed")
    /\ UNCHANGED <<hostVars, mgrVars, diskVars, missed, faults>>
CreateHalf ==
    /\ At("create") /\ platform = "linux" /\ Ends("failed") /\ Fault
    /\ unit' = TRUE
    /\ UNCHANGED <<hostVars, registered, diskVars, missed>>

Start ==
    /\ At("start") /\ Advance(1)
    /\ registered' = TRUE
    /\ proc' = IF Live THEN proc ELSE "loading"
    /\ UNCHANGED <<platform, asked, upd, attempt, crashes, unit, diskVars, missed, faults>>

RemoveData ==
    /\ At("removeData") /\ Advance(1)
    /\ config' = Absent
    /\ UNCHANGED <<hostVars, mgrVars, exe, missed, faults>>

(* The program directory and the scripts directory.  On Windows a running  *)
(* executable cannot be removed.                                           *)
RemoveProgram ==
    /\ At("removeProgram")
    /\ IF Busy /\ platform = "windows"
       THEN Ends("failed") /\ UNCHANGED exe
       ELSE Advance(1) /\ exe' = Absent
    /\ UNCHANGED <<hostVars, mgrVars, config, missed, faults>>
-----------------------------------------------------------------------------
(* The process, as far as it depends on what is installed. *)

Apart == UNCHANGED <<jobVars, outcome, mgrVars, diskVars, missed, faults>>
Runnable == Whole(exe) /\ Whole(config)

Process ==
    /\ \/ Runnable /\ Load
       \/ ~Runnable /\ LoadFails
       \/ Stop \/ Return \/ Relaunch
    /\ Apart
Updates == UpdaterStep /\ Apart
Crashes == Crash /\ Apart

(* The machine restarts: the manager starts what is registered; launchd    *)
(* loads what has a plist.                                                 *)
Reboot ==
    /\ crashes < MaxCrashes /\ crashes' = crashes + 1
    /\ IF kind = "none" THEN UNCHANGED <<kind, todo, outcome, self, number>> ELSE Ends("killed")
    /\ registered' = IF platform = "darwin" THEN unit ELSE registered
    /\ proc' = IF registered' THEN "loading" ELSE "down"
    /\ asked' = FALSE /\ upd' = "off" /\ attempt' = 0
    /\ UNCHANGED <<platform, unit, diskVars, missed, faults>>
-----------------------------------------------------------------------------
(* A step of the running command that is not an injected failure. *)
Work ==
    \/ Fetch \/ (SaveConfig /\ NoFault) \/ ReadConfig
    \/ Open \/ (OpenFails /\ NoFault) \/ SkipStop \/ AskStop \/ Stopped
    \/ Delete \/ Create \/ CreateFails \/ (SaveExe /\ NoFault) \/ ExeBusy
    \/ Start \/ RemoveData \/ RemoveProgram
Faulty ==
    \/ StepFails \/ (SaveConfig /\ Fault) \/ (SaveExe /\ Fault) \/ (OpenFails /\ Fault)
    \/ DeleteHalf \/ CreateHalf

Next ==
    \/ \E k \in Kinds : Run(k)
    \/ SelfUpdate \/ Work \/ Faulty \/ Process \/ Updates \/ Crashes \/ Reboot

Spec == Init /\ [][Next]_vars

(* The process, its update runner and the command are scheduled; nobody    *)
(* has to run a command, nothing has to fail.  When the timer of the       *)
(* runner and its stop channel are ready together, select picks at random. *)
FairSpec == /\ Spec
            /\ WF_vars(Process) /\ WF_vars(Updates) /\ WF_vars(Work)
            /\ SF_vars(StopSeen /\ Apart)
-----------------------------------------------------------------------------
(* A config or update command that reports success has put its own config  *)
(* and executable in place, whole, and the service is known to the manager *)
(* so that a reboot starts it (config.go:231, update.go:207).              *)
SuccessMeansInstalled ==
    outcome = "ok" /\ config # Absent =>
        config = number /\ exe = number /\ unit /\ registered

(* An uninstall that reports success leaves no file, no registration and   *)
(* no process; the last one may be wrong only if IsActive had denied a     *)
(* process that was alive or about to be restarted (uninstall.go:35).      *)
UninstallComplete ==
    outcome = "ok" /\ config = Absent =>
        /\ exe = Absent /\ ~unit
        /\ missed \/ (~registered /\ ~Live)

(* Every command ends: the service it waits for does stop, whatever the    *)
(* update runner in it is doing (updater.go:355, service_windows.go:47).   *)
CommandEnds == kind # "none" ~> kind = "none"

(* Nothing else goes wrong from here on. *)
Settled == number = MaxCommands /\ faults = MaxFaults /\ crashes = MaxCrashes

(* Whatever failed before, a config command that meets no fault installs   *)
(* the agent and gets it running, unless it overlooked a live process.     *)
ReinstallRepairs ==
    At("fetch") /\ Settled ~> proc = "up" \/ missed

(* While the agent is up its update runner gets back to a check, however   *)
(* often a run failed or panicked (the loop of Start, updater.go:322).     *)
UpdaterKeepsChecking ==
    proc = "up" /\ upd # "off" ~> upd = "check" \/ proc # "up"

(* Where the installer is not ended with the service that it stops, an     *)
(* update that the agent has started gets the new version running: the     *)
(* update runner that launched it does not hold up the stop, the           *)
(* executable is free when it is copied (updater.go:355, update.go:142).   *)
SelfUpdateBegins ==
    /\ self /\ At("open") /\ Settled
    /\ Whole(config) /\ registered /\ proc = "up"
SelfUpdateCompletes ==
    SelfUpdateBegins /\ platform # "linux" ~> proc = "up" /\ exe = number

(* verify-auto-update of the integration test, and the entry               *)
(* "Auto updater fails to restart service" of the CHANGELOG: an update     *)
(* that the agent has started gets the service running again.              *)
SelfUpdateRestarts ==
    SelfUpdateBegins ~> proc = "up" /\ exe = number
=============================================================================
