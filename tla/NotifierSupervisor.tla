------------------------- MODULE NotifierSupervisor -------------------------
(***************************************************************************)
(* optionalNotifierWrapper (plugins/loader.go): the supervision of one     *)
(* notification plugin.  Callers are the goroutines that call Notify (the  *)
(* message workers, the dispatch goroutine, the service loop), Monitor is  *)
(* the one that calls CheckHealth.  mu guards the handle and the restart   *)
(* schedule and is not held during the RPC.                                *)
(*                                                                         *)
(* Times are kept relative to now, saturated where no comparison can see   *)
(* more.  Handles are the identities of subprocesses; one that nobody      *)
(* refers to any more is used again.  The counters of NotifierStats are    *)
(* left out.  External: go-plugin and the subprocess.                      *)
(***************************************************************************)
EXTENDS Naturals, FiniteSets

CONSTANTS
    Callers,     \* goroutines that call Notify
    Monitor,     \* the plugin_health_monitor goroutine
    Handles,     \* identities of subprocesses
    None,        \* no subprocess, no holder of mu
    Base,        \* restartBaseBackoff
    Limit,       \* restartMaxBackoff
    Stable       \* restartStableUptime

Actors == Callers \cup {Monitor}

ASSUME ActorsAssumption == IsFiniteSet(Callers) /\ Monitor \notin Callers
ASSUME HandlesAssumption ==
    /\ IsFiniteSet(Handles)
    /\ Cardinality(Handles) > Cardinality(Callers)
    /\ None \notin Handles \cup Actors
ASSUME TimesAssumption ==
    /\ Base \in Nat \ {0} /\ Limit \in Nat /\ Stable \in Nat \ {0}
    /\ Base <= Limit

VARIABLES
    mu,        \* who holds mu across a launch, or None
    closed,    \* Kill has run
    handle,    \* client and plugin, set and cleared together
    failing,   \* the last delivery failed
    backoff,   \* restartBackoff
    wait,      \* time until nextRestartAt
    age,       \* time since startedAt, up to Stable; startedAt is zero
               \* exactly when there is no handle
    pc,        \* per actor: where its call stands
    rpc,       \* per caller: the handle its RPC uses
    running,   \* subprocesses that run
    noticed,   \* subprocesses whose exit go-plugin has observed
    since,     \* history: time since the last launch was tried, up to Limit
    streak,    \* history: launches tried since the schedule was reset
    uptime     \* history: time the last subprocess has run, up to Stable,
               \* until it died by itself; 0 if it was killed for a broken RPC

schedule == <<backoff, wait, age>>
procs    == <<running, noticed>>
history  == <<since, streak, uptime>>
vars     == <<mu, closed, handle, failing, schedule, pc, rpc, procs, history>>

Lesser(a, b) == IF a < b THEN a ELSE b

(* The k-th delay of the restart schedule, from 1; 0 before the first. *)
Delay[k \in Nat] == IF k = 0 THEN 0 ELSE Lesser(Base * 2 ^ (k - 1), Limit)

MaxStreak == CHOOSE k \in 1..(Limit + 1) :
    Delay[k] = Limit /\ \A j \in 1..(k - 1) : Delay[j] < Limit

TypeOK ==
    /\ mu \in Actors \cup {None}
    /\ closed \in BOOLEAN /\ failing \in BOOLEAN
    /\ handle \in Handles \cup {None}
    /\ backoff \in Base..Limit /\ wait \in 0..Limit /\ age \in 0..Stable
    /\ pc \in [Actors -> {"idle", "launching", "calling", "broken", "failed", "succeeded"}]
    /\ rpc \in [Callers -> Handles \cup {None}]
    /\ running \subseteq Handles /\ noticed \subseteq Handles
    /\ since \in 0..Limit /\ streak \in 0..(MaxStreak + 1) /\ uptime \in 0..Stable

(* LoadNotifer has launched the plugin. *)
Init ==
    /\ mu = None /\ closed = FALSE /\ failing = FALSE
    /\ handle \in Handles /\ running = {handle} /\ noticed = {}
    /\ backoff = Base /\ wait = 0 /\ age = 0
    /\ pc = [a \in Actors |-> "idle"] /\ rpc = [c \in Callers |-> None]
    /\ since = Limit /\ streak = 0 /\ uptime = 0
-----------------------------------------------------------------------------
(* deadLocked: no handle, or an exit go-plugin has observed.  Mutant: the  *)
(* handle alone is looked at.                                              *)
Exited == handle \in noticed
Dead == handle = None \/ handle \in noticed

(* A subprocess that was up for the stability window gets a clean slate.   *)
CleanSlate == handle # None /\ age = Stable

MayRestart == CleanSlate \/ wait = 0

(* The lock is free and Kill has not run.  Mutant: closed is not looked at. *)
IgnoreClosed(a) == pc[a] = "idle" /\ mu = None
Enters(a) == pc[a] = "idle" /\ mu = None /\ ~closed

Goto(a, s) == pc' = [pc EXCEPT ![a] = s]

(* dropLocked: the subprocess is killed, the handle is cleared. *)
DropLocked == handle' = None /\ running' = running \ {handle}

(* restartLocked charges the wait before it launches.  Mutants: nothing is *)
(* charged; the doubling has no limit.                                     *)
ChargeNothing(b) == wait' = 0 /\ backoff' = b
ChargeUnbounded(b) == wait' = b /\ backoff' = 2 * b
Charge(b) == wait' = b /\ backoff' = Lesser(2 * b, Limit)

(* Notify and CheckHealth: a dead plugin is to be relaunched now; mu stays *)
(* locked during the launch.                                               *)
Restart(a) ==
    /\ Enters(a) /\ Dead /\ MayRestart
    /\ Charge(IF CleanSlate THEN Base ELSE backoff)
    /\ DropLocked /\ age' = 0
    /\ mu' = a /\ Goto(a, "launching")
    /\ since' = 0 /\ uptime' = 0
    /\ streak' = IF CleanSlate THEN 1 ELSE Lesser(streak + 1, MaxStreak + 1)
    /\ UNCHANGED <<closed, failing, rpc, noticed>>

(* mu is released and the RPC begins.  Mutant: mu is kept for it. *)
CallLocked(c, g) == mu' = c /\ Goto(c, "calling") /\ rpc' = [rpc EXCEPT ![c] = g]
BeginCall(c, g) == mu' = None /\ Goto(c, "calling") /\ rpc' = [rpc EXCEPT ![c] = g]

Launched(a) ==
    /\ pc[a] = "launching"
    /\ \E g \in Handles \ (running \cup {rpc[c] : c \in Callers}) :
         /\ handle' = g /\ running' = running \cup {g} /\ noticed' = noticed \ {g}
         /\ IF a = Monitor THEN mu' = None /\ Goto(a, "idle") /\ UNCHANGED rpc
                           ELSE BeginCall(a, g)
    /\ UNCHANGED <<closed, failing, schedule, history>>

(* The handshake or the dispense fails, what was started is killed. *)
LaunchFails(a) ==
    /\ pc[a] = "launching"
    /\ mu' = None
    /\ Goto(a, IF a = Monitor THEN "idle" ELSE "failed")
    /\ UNCHANGED <<closed, handle, failing, schedule, rpc, procs, history>>

(* Notify without a relaunch.  A dead plugin whose relaunch is deferred    *)
(* may still have its old handle.                                          *)
Notify(c) ==
    /\ Enters(c) /\ ~(Dead /\ MayRestart)
    /\ IF handle # None THEN BeginCall(c, handle)
                        ELSE Goto(c, "failed") /\ UNCHANGED <<mu, rpc>>
    /\ UNCHANGED <<closed, handle, failing, schedule, procs, history>>

(* The plugin's method returns: no error, or an error of its own. *)
Answered(c) ==
    /\ pc[c] = "calling" /\ rpc[c] \in running
    /\ \/ Goto(c, "succeeded")
       \/ Goto(c, "failed")
    /\ UNCHANGED <<mu, closed, handle, failing, schedule, rpc, procs, history>>

(* A transport error.  The subprocess need not be gone. *)
Broken(c) ==
    /\ pc[c] = "calling"
    /\ Goto(c, "broken")
    /\ UNCHANGED <<mu, closed, handle, failing, schedule, rpc, procs, history>>

(* Only the handle that this call used is dropped.  Mutants: whatever      *)
(* handle is there is dropped; the subprocess is not killed.               *)
DropAny(c) ==
    /\ pc[c] = "broken" /\ mu = None
    /\ DropLocked
    /\ Goto(c, "failed")
    /\ UNCHANGED <<mu, closed, failing, schedule, rpc, noticed, history>>
Forget(c) ==
    /\ pc[c] = "broken" /\ mu = None
    /\ handle' = IF handle = rpc[c] THEN None ELSE handle
    /\ Goto(c, "failed")
    /\ UNCHANGED <<mu, closed, failing, schedule, rpc, procs, history>>
Drop(c) ==
    /\ pc[c] = "broken" /\ mu = None
    /\ IF handle = rpc[c] THEN DropLocked ELSE UNCHANGED <<handle, running>>
    /\ uptime' = IF handle = rpc[c] /\ handle \in running THEN 0 ELSE uptime
    /\ Goto(c, "failed")
    /\ UNCHANGED <<mu, closed, failing, schedule, rpc, noticed, since, streak>>

RecordFailure(c) ==
    /\ pc[c] = "failed" /\ mu = None
    /\ failing' = TRUE
    /\ Goto(c, "idle") /\ rpc' = [rpc EXCEPT ![c] = None]
    /\ UNCHANGED <<mu, closed, handle, schedule, procs, history>>

(* The schedule is reset, whichever subprocess has answered. *)
RecordSuccess(c) ==
    /\ pc[c] = "succeeded" /\ mu = None
    /\ failing' = FALSE
    /\ backoff' = Base /\ wait' = 0 /\ streak' = 0
    /\ Goto(c, "idle") /\ rpc' = [rpc EXCEPT ![c] = None]
    /\ UNCHANGED <<mu, closed, handle, age, procs, since, uptime>>

(* The service ends.  The monitor is told so before, but not waited for.   *)
Kill ==
    /\ mu = None /\ ~closed
    /\ closed' = TRUE
    /\ DropLocked
    /\ UNCHANGED <<mu, failing, schedule, pc, rpc, noticed, history>>
-----------------------------------------------------------------------------
(* The subprocess, go-plugin's wait for it, and the clock. *)

Dies ==
    /\ running # {}
    /\ \E g \in running : running' = running \ {g}
    /\ UNCHANGED <<mu, closed, handle, failing, schedule, pc, rpc, noticed, history>>

ExitNoticed ==
    /\ handle # None /\ handle \notin running \cup noticed
    /\ noticed' = noticed \cup {handle}
    /\ UNCHANGED <<mu, closed, handle, failing, schedule, pc, rpc, running, history>>

Tick ==
    /\ wait' = IF wait > 0 THEN wait - 1 ELSE 0
    /\ age' = Lesser(age + 1, Stable)
    /\ since' = Lesser(since + 1, Limit)
    /\ uptime' = IF handle \in running THEN Lesser(uptime + 1, Stable) ELSE uptime
    /\ UNCHANGED <<mu, closed, handle, failing, backoff, pc, rpc, procs, streak>>
-----------------------------------------------------------------------------
Record(c) == Drop(c) \/ RecordFailure(c) \/ RecordSuccess(c)

Next ==
    \/ \E a \in Actors : Restart(a) \/ Launched(a) \/ LaunchFails(a)
    \/ \E c \in Callers : Notify(c) \/ Answered(c) \/ Broken(c) \/ Record(c)
    \/ Kill \/ Dies \/ ExitNoticed \/ Tick

Spec == Init /\ [][Next]_vars

(* The clock runs, exits are noticed, a launch ends (go-plugin bounds the  *)
(* handshake) and not all of them fail, the monitor's ticks go on, and mu  *)
(* starves nobody, as a sync.Mutex does not.  Nothing is assumed of an RPC: *)
(* it has no timeout.                                                      *)
Fairness ==
    /\ WF_vars(Tick) /\ WF_vars(ExitNoticed)
    /\ SF_vars(Restart(Monitor))
    /\ \A a \in Actors : WF_vars(Launched(a) \/ LaunchFails(a))
    /\ SF_vars(\E a \in Actors : Launched(a))
    /\ \A c \in Callers : SF_vars(Record(c))

FairSpec == Spec /\ Fairness
-----------------------------------------------------------------------------
(* Properties. *)

(* Whatever Notify or CheckHealth races with it, Kill is final: afterwards *)
(* no subprocess runs.                                                     *)
NoProcessAfterKill == closed => running = {}

(* A subprocess that runs is the one of the handle, which Kill will end:   *)
(* no relaunch leaves an older one behind.                                 *)
NoOrphan == running \subseteq {handle}

(* Notify discards the handle its own call used: a subprocess that was     *)
(* relaunched meanwhile is not killed for the failure of the one before.   *)
OwnHandleOnly ==
    [][\A g \in running :
         (handle = g /\ handle' = None) =>
            closed' \/ \E c \in Callers : pc[c] = "broken" /\ rpc[c] = g]_vars

(* Launches without a success or a stable run between them are apart by    *)
(* the growing delays of the schedule, whether they fail or the subprocess *)
(* dies at once, and whoever asks for them.                                *)
RestartsBackedOff ==
    [][(\E a \in Actors : pc[a] = "idle" /\ pc'[a] = "launching")
         => since >= Delay[streak' - 1]]_vars

(* The RPC is made without mu: a plugin that never answers one caller does *)
(* not keep another one from the end of its call.                          *)
SlowPluginStallsNobody ==
    \A c \in Callers : (pc[c] \in {"broken", "failed", "succeeded"}) ~> (pc[c] = "idle")

(* A plugin that died is relaunched without any notification, by the       *)
(* health check.                                                           *)
PluginRecovered == (handle \notin running) ~> (handle \in running \/ closed)
=============================================================================
