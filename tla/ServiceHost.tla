---------------------------- MODULE ServiceHost ----------------------------
(***************************************************************************)
(* The agent as a service process: the host that turns a stop request of   *)
(* the service manager into the stop channel (internal/service), the frame *)
(* of serviceContext.Execute around the connection loop                    *)
(* (cmd/agent_smith/service.go), and the AutoUpdateRunner that it starts   *)
(* and joins (internal/agent/updater.go).                                  *)
(*                                                                         *)
(* The connection loop itself is AgentCycle: here it is one place, "up",   *)
(* which it leaves when asked to (StopHonoured there).  The service        *)
(* managers are external: whether one restarts a process that ended is     *)
(* what the unit, the plist or the service config of Create asks for.      *)
(***************************************************************************)
EXTENDS Naturals

CONSTANTS
    MaxRetries,   \* maxRetries of the update runner
    MaxCrashes    \* bound on the crashes of the process and the reboots

ASSUME HostBounds == MaxRetries \in Nat /\ MaxCrashes \in Nat

VARIABLES
    platform,   \* "linux", "darwin" or "windows"
    proc,       \* the service process
    asked,      \* the manager has asked it to stop: a signal or a request
    upd,        \* the goroutine of the update runner
    attempt,    \* retries of the current update so far
    crashes     \* crashes and reboots so far

hostVars == <<platform, proc, asked, upd, attempt, crashes>>

HostTypeOK ==
    /\ platform \in {"linux", "darwin", "windows"}
    /\ proc \in {"down", "restarting", "loading", "up", "ending"}
    /\ asked \in BOOLEAN
    /\ upd \in {"off", "wait", "check", "download", "launch", "backoff", "done"}
    /\ attempt \in 0..MaxRetries
    /\ crashes \in 0..MaxCrashes

Live == proc \in {"loading", "up", "ending"}

(* Service.IsActive: "systemctl is-active" denies a unit that is stopping  *)
(* or waits for its restart, Windows counts a starting service as inactive.*)
LooksActive ==
    CASE platform = "linux"   -> Live /\ ~asked
      [] platform = "darwin"  -> Live
      [] platform = "windows" -> proc \in {"up", "ending"}

HostInit ==
    /\ platform \in {"linux", "darwin", "windows"}
    /\ proc = "down" /\ asked = FALSE
    /\ upd = "off" /\ attempt = 0 /\ crashes = 0
-----------------------------------------------------------------------------
(* Execute. *)

(* loadConfig and loadLog succeed, the spool and the plugins are set up;   *)
(* the update runner is started unless the device has disabled it.         *)
Load ==
    /\ proc = "loading"
    /\ proc' = "up"
    /\ upd' \in {"off", "wait"} /\ attempt' = 0
    /\ UNCHANGED <<platform, asked, crashes>>

(* ConfigError or LogFileError.  launchd tries again for ever, systemd for *)
(* a burst of five that is left out, Windows not at all.                   *)
LoadFails ==
    /\ proc = "loading"
    /\ proc' = IF platform = "darwin" /\ ~asked THEN "restarting" ELSE "down"
    /\ asked' = FALSE
    /\ UNCHANGED <<platform, upd, attempt, crashes>>

(* The signal monitor or the request monitor passes the request on, the    *)
(* stop monitor closes stopped, and the loop returns.                      *)
Stop ==
    /\ proc = "up" /\ asked
    /\ proc' = "ending"
    /\ UNCHANGED <<platform, asked, upd, attempt, crashes>>

(* The deferred runner.Stop has joined the update runner. *)
Return ==
    /\ proc = "ending" /\ upd \in {"off", "done"}
    /\ proc' = "down" /\ asked' = FALSE /\ upd' = "off"
    /\ UNCHANGED <<platform, attempt, crashes>>

(* Killed, out of memory, an unrecovered panic.  Restart=always and        *)
(* KeepAlive bring the process back, unless a stop was asked for.          *)
Crash ==
    /\ Live /\ crashes < MaxCrashes
    /\ crashes' = crashes + 1
    /\ proc' = IF asked \/ platform = "windows" THEN "down" ELSE "restarting"
    /\ asked' = FALSE /\ upd' = "off" /\ attempt' = 0
    /\ UNCHANGED platform

Relaunch ==
    /\ proc = "restarting"
    /\ proc' = "loading"
    /\ UNCHANGED <<platform, asked, upd, attempt, crashes>>
-----------------------------------------------------------------------------
(* AutoUpdateRunner.  The context is cancelled and stop is closed when     *)
(* Execute is ending.                                                      *)
Stopping == proc = "ending"

Updater(from, to) ==
    /\ upd \in from /\ upd' = to
    /\ UNCHANGED <<platform, proc, asked, crashes>>

(* The timer of the interval.  When stop is closed at the same time select *)
(* may take either case. *)
Tick == Updater({"wait"}, "check") /\ attempt' = 0

(* Mutant: Stop cancels the context and does not close the channel. *)
StopSeenNowhere == {}
StopSeenAt == {"wait", "backoff"}
StopSeen == Stopping /\ Updater(StopSeenAt, "done") /\ UNCHANGED attempt

(* Run: the latest release is this version, or it has an asset for this    *)
(* platform.  A request that is cancelled fails, but Check may have had    *)
(* its answer already.                                                     *)
UpToDate == Updater({"check"}, "wait") /\ UNCHANGED attempt
NewRelease == Updater({"check"}, "download") /\ UNCHANGED attempt
Downloaded == ~Stopping /\ Updater({"download"}, "launch") /\ UNCHANGED attempt

(* retryWithBackoff returns false when its retries are exhausted, the loop *)
(* resets the timer.  Mutant: it returns true, and the goroutine ends.     *)
GivesUp == "done"
Exhausted == "wait"

(* Mutant: the retries are not counted against maxRetries.                 *)
RetriesForEver ==
    attempt' = attempt + 1 /\ Updater({"check", "download", "launch"}, "backoff")
(* Any error or recovered panic of Run. *)
RunFails ==
    \/ attempt < MaxRetries /\ attempt' = attempt + 1
         /\ Updater({"check", "download", "launch"}, "backoff")
    \/ attempt = MaxRetries /\ UNCHANGED attempt
         /\ Updater({"check", "download", "launch"}, Exhausted)

BackoffElapses == Updater({"backoff"}, "check") /\ UNCHANGED attempt

(* Update: the downloaded installer is started as a process of its own.    *)
(* Nothing looks at the context between the download and this call.        *)
Launch == Updater({"launch"}, "wait") /\ UNCHANGED attempt

UpdaterStep == \/ Tick \/ StopSeen \/ UpToDate \/ NewRelease \/ Downloaded
               \/ RunFails \/ BackoffElapses
=============================================================================
