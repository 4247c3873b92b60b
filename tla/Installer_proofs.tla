--------------------------- MODULE Installer_proofs ---------------------------
(* The inductive invariant of Installer and the theorems that follow.       *)
EXTENDS Installer, TLAPS

(* Where the running command stands: how many of its steps are done.        *)
Done == Len(Steps(kind)) - Len(todo)

Rest(k, n) == SubSeq(Steps(k), n + 1, Len(Steps(k)))

(* The remaining steps are those of the command from where it stands, and   *)
(* there is no result before the last one.                                  *)
JobInv ==
    /\ kind = "none" => todo = <<>>
    /\ kind # "none" =>
         /\ Done \in 0..(Len(Steps(kind)) - 1) /\ todo = Rest(kind, Done)
         /\ outcome = "none" /\ number >= 1

(* What a config or update command has put in place so far.                 *)
FilesInv ==
    /\ kind = "config" =>
         /\ Done >= 2 => config = number
         /\ Done >= 7 => exe = number
    /\ kind \in {"update", "account"} =>
         /\ Done >= 5 => config = number
         /\ Done >= 6 => exe = number

(* The manager never knows a service without a unit, and the last step,     *)
(* Start, finds one.                                                        *)
UnitInv ==
    /\ registered => unit
    /\ kind \in {"config", "account"} /\ Done >= 8 => unit
    /\ kind = "update" /\ Done >= 1 => unit

(* An uninstall has asked a live process to stop, so that no manager        *)
(* restarts it, or has found it down, or IsActive had denied it.            *)
RemovalInv ==
    kind = "uninstall" =>
        /\ Done = 2 => proc = "down" \/ (Live /\ asked)
        /\ Done >= 3 => missed \/ proc = "down"
        /\ Done >= 4 => ~unit /\ ~registered
        /\ Done >= 5 => config = Absent

(* What success means, until the next command begins.                       *)
Installed == config = number /\ exe = number /\ unit /\ registered
Removed ==
    /\ config = Absent /\ exe = Absent /\ ~unit /\ ~registered
    /\ missed \/ proc = "down"
ResultInv == outcome = "ok" => kind = "none" /\ number >= 1 /\ (Installed \/ Removed)

(* The types, without the relation of kind and todo that JobInv states.     *)
Types ==
    /\ HostTypeOK
    /\ kind \in Kinds \cup {"none"}
    /\ self \in BOOLEAN /\ missed \in BOOLEAN
    /\ number \in 0..MaxCommands /\ faults \in 0..MaxFaults
    /\ outcome \in {"none", "ok", "failed", "killed"}
    /\ registered \in BOOLEAN /\ unit \in BOOLEAN
    /\ config \in Files /\ exe \in Files

(* The inductive invariant.                                                 *)
IInv == Types /\ JobInv /\ FilesInv /\ UnitInv /\ RemovalInv /\ ResultInv
-----------------------------------------------------------------------------
StepNames == {"fetch", "saveConfig", "open", "stop", "stopped", "delete", "saveExe",
              "create", "start", "readConfig", "removeData", "removeProgram"}

(* The number of steps of each command.                                     *)
LEMMA Lengths ==
    /\ \A k \in Kinds : Steps(k) \in Seq(StepNames)
    /\ Len(Steps("config")) = 9 /\ Len(Steps("account")) = 9
    /\ Len(Steps("update")) = 7 /\ Len(Steps("uninstall")) = 6
BY DEF Steps, Kinds, StepNames

(* What is left of a sequence after its first n members.                    *)
LEMMA RestOfSeq ==
  ASSUME NEW S, NEW s \in Seq(S), NEW n \in 0..Len(s)
  PROVE  LET r == SubSeq(s, n + 1, Len(s)) IN
         /\ r \in Seq(S) /\ Len(r) = Len(s) - n
         /\ n < Len(s) => r # <<>> /\ Head(r) = s[n + 1]
         /\ \A m \in 0..(Len(s) - n) :
              SubSeq(r, m + 1, Len(r)) = SubSeq(s, n + m + 1, Len(s))
<1> DEFINE r == SubSeq(s, n + 1, Len(s))
<1>1. r \in Seq(S) /\ Len(r) = Len(s) - n /\ Len(s) \in Nat
  OBVIOUS
<1>2. \A i \in 1..Len(r) : r[i] = s[n + i]
  OBVIOUS
<1>3. n < Len(s) => r # <<>> /\ Head(r) = s[n + 1]
  <2> SUFFICES ASSUME n < Len(s) PROVE r # <<>> /\ Head(r) = s[n + 1]
    OBVIOUS
  <2>1. 1 \in 1..Len(r) /\ n \in Nat
    BY <1>1
  <2>2. r[1] = s[n + 1]
    BY <1>2, <2>1
  <2> HIDE DEF r
  <2> QED BY <1>1, <2>1, <2>2
<1>4. ASSUME NEW m \in 0..(Len(s) - n)
      PROVE  SubSeq(r, m + 1, Len(r)) = SubSeq(s, n + m + 1, Len(s))
  <2> DEFINE a == SubSeq(r, m + 1, Len(r))
             b == SubSeq(s, n + m + 1, Len(s))
  <2>1. Len(a) = Len(s) - n - m /\ Len(b) = Len(s) - n - m /\ a \in Seq(S) /\ b \in Seq(S)
    BY <1>1
  <2>2. ASSUME NEW i \in 1..Len(a) PROVE a[i] = b[i]
    <3>1. i + m \in 1..Len(r) /\ i \in 1..(Len(s) - n - m)
      BY <1>1, <2>1
    <3>2. a[i] = r[m + i]
      BY <1>1, <2>1
    <3>3. b[i] = s[n + m + i]
      BY <1>1, <2>1, <3>1
    <3> QED BY <1>2, <3>1, <3>2, <3>3
  <2> QED BY <2>1, <2>2
<1> QED BY <1>1, <1>3, <1>4

(* The next step of a running command is the one its position names.        *)
LEMMA NextStep ==
  ASSUME Types, JobInv, kind # "none"
  PROVE  /\ kind \in Kinds /\ todo = Rest(kind, Done) /\ todo # <<>>
         /\ Done \in 0..(Len(Steps(kind)) - 1)
         /\ Head(todo) = Steps(kind)[Done + 1]
         /\ Len(todo) = Len(Steps(kind)) - Done
<1>1. kind \in Kinds /\ Done \in 0..(Len(Steps(kind)) - 1) /\ todo = Rest(kind, Done)
  BY DEF Types, JobInv
<1>2. Steps(kind) \in Seq(StepNames) /\ Len(Steps(kind)) \in Nat
  BY <1>1, Lengths
<1>3. Done \in 0..Len(Steps(kind)) /\ Done < Len(Steps(kind))
  BY <1>1, <1>2
<1> QED BY <1>1, <1>2, <1>3, RestOfSeq DEF Rest

(* The table of the steps: what comes next, command by command.             *)
LEMMA Table ==
  ASSUME Types, JobInv, kind # "none"
  PROVE  /\ kind = "config" =>
              \/ (Head(todo) = "fetch" /\ Done = 0)
              \/ (Head(todo) = "saveConfig" /\ Done = 1)
              \/ (Head(todo) = "open" /\ Done = 2)
              \/ (Head(todo) = "stop" /\ Done = 3)
              \/ (Head(todo) = "stopped" /\ Done = 4)
              \/ (Head(todo) = "delete" /\ Done = 5)
              \/ (Head(todo) = "saveExe" /\ Done = 6)
              \/ (Head(todo) = "create" /\ Done = 7)
              \/ (Head(todo) = "start" /\ Done = 8)
         /\ kind = "update" =>
              \/ (Head(todo) = "open" /\ Done = 0)
              \/ (Head(todo) = "stop" /\ Done = 1)
              \/ (Head(todo) = "stopped" /\ Done = 2)
              \/ (Head(todo) = "readConfig" /\ Done = 3)
              \/ (Head(todo) = "saveConfig" /\ Done = 4)
              \/ (Head(todo) = "saveExe" /\ Done = 5)
              \/ (Head(todo) = "start" /\ Done = 6)
         /\ kind = "account" =>
              \/ (Head(todo) = "open" /\ Done = 0)
              \/ (Head(todo) = "stop" /\ Done = 1)
              \/ (Head(todo) = "stopped" /\ Done = 2)
              \/ (Head(todo) = "readConfig" /\ Done = 3)
              \/ (Head(todo) = "saveConfig" /\ Done = 4)
              \/ (Head(todo) = "saveExe" /\ Done = 5)
              \/ (Head(todo) = "delete" /\ Done = 6)
              \/ (Head(todo) = "create" /\ Done = 7)
              \/ (Head(todo) = "start" /\ Done = 8)
         /\ kind = "uninstall" =>
              \/ (Head(todo) = "open" /\ Done = 0)
              \/ (Head(todo) = "stop" /\ Done = 1)
              \/ (Head(todo) = "stopped" /\ Done = 2)
              \/ (Head(todo) = "delete" /\ Done = 3)
              \/ (Head(todo) = "removeData" /\ Done = 4)
              \/ (Head(todo) = "removeProgram" /\ Done = 5)
<1>1. CASE kind = "config"
  <2>1. Len(Steps(kind)) = 9
    BY <1>1, Lengths
  <2>2. Done \in 0..8
    BY <2>1, NextStep
  <2>3. Head(todo) = Steps("config")[Done + 1]
    BY <1>1, NextStep
  <2>4. Steps("config") = <<"fetch", "saveConfig", "open", "stop", "stopped",
        "delete", "saveExe", "create", "start">>
    BY DEF Steps
  <2>5. \A n \in 0..8 : \/ n = 0 \/ n = 1 \/ n = 2 \/ n = 3 \/ n = 4
                       \/ n = 5 \/ n = 6 \/ n = 7 \/ n = 8
    OBVIOUS
  <2> HIDE DEF Done
  <2> QED BY <1>1, <2>2, <2>3, <2>4, <2>5
<1>2. CASE kind = "update"
  <2>1. Len(Steps(kind)) = 7
    BY <1>2, Lengths
  <2>2. Done \in 0..6
    BY <2>1, NextStep
  <2>3. Head(todo) = Steps("update")[Done + 1]
    BY <1>2, NextStep
  <2>4. Steps("update") = <<"open", "stop", "stopped", "readConfig",
        "saveConfig", "saveExe", "start">>
    BY DEF Steps
  <2>5. \A n \in 0..6 : n = 0 \/ n = 1 \/ n = 2 \/ n = 3 \/ n = 4 \/ n = 5 \/ n = 6
    OBVIOUS
  <2> HIDE DEF Done
  <2> QED BY <1>2, <2>2, <2>3, <2>4, <2>5
<1>3. CASE kind = "account"
  <2>1. Len(Steps(kind)) = 9
    BY <1>3, Lengths
  <2>2. Done \in 0..8
    BY <2>1, NextStep
  <2>3. Head(todo) = Steps("account")[Done + 1]
    BY <1>3, NextStep
  <2>4. Steps("account") = <<"open", "stop", "stopped", "readConfig",
        "saveConfig", "saveExe", "delete", "create", "start">>
    BY DEF Steps
  <2>5. \A n \in 0..8 : \/ n = 0 \/ n = 1 \/ n = 2 \/ n = 3 \/ n = 4
                       \/ n = 5 \/ n = 6 \/ n = 7 \/ n = 8
    OBVIOUS
  <2> HIDE DEF Done
  <2> QED BY <1>3, <2>2, <2>3, <2>4, <2>5
<1>4. CASE kind = "uninstall"
  <2>1. Len(Steps(kind)) = 6
    BY <1>4, Lengths
  <2>2. Done \in 0..5
    BY <2>1, NextStep
  <2>3. Head(todo) = Steps("uninstall")[Done + 1]
    BY <1>4, NextStep
  <2>4. Steps("uninstall") = <<"open", "stop", "stopped", "delete",
        "removeData", "removeProgram">>
    BY DEF Steps
  <2>5. \A n \in 0..5 : n = 0 \/ n = 1 \/ n = 2 \/ n = 3 \/ n = 4 \/ n = 5
    OBVIOUS
  <2> HIDE DEF Done
  <2> QED BY <1>4, <2>2, <2>3, <2>4, <2>5
<1> QED BY <1>1, <1>2, <1>3, <1>4, NextStep DEF Kinds

(* The same by step: which commands have it, and where.                     *)
LEMMA Where ==
  ASSUME Types, JobInv
  PROVE  /\ At("fetch") => kind = "config" /\ Done = 0
         /\ At("saveConfig") => /\ kind \in {"config", "update", "account"}
                                /\ kind = "config" => Done = 1
                                /\ kind \in {"update", "account"} => Done = 4
         /\ At("open") => /\ kind \in {"config", "update", "account", "uninstall"}
                          /\ kind \in {"update", "account", "uninstall"} => Done = 0
                          /\ kind = "config" => Done = 2
         /\ At("stop") => /\ kind \in {"config", "update", "account", "uninstall"}
                          /\ kind \in {"update", "account", "uninstall"} => Done = 1
                          /\ kind = "config" => Done = 3
         /\ At("stopped") => /\ kind \in {"config", "update", "account", "uninstall"}
                             /\ kind \in {"update", "account", "uninstall"} => Done = 2
                             /\ kind = "config" => Done = 4
         /\ At("delete") => /\ kind \in {"config", "account", "uninstall"}
                            /\ kind = "uninstall" => Done = 3
                            /\ kind = "config" => Done = 5
                            /\ kind = "account" => Done = 6
         /\ At("readConfig") => kind \in {"update", "account"} /\ Done = 3
         /\ At("saveExe") => /\ kind \in {"config", "update", "account"}
                             /\ kind \in {"update", "account"} => Done = 5
                             /\ kind = "config" => Done = 6
         /\ At("create") => kind \in {"config", "account"} /\ Done = 7
         /\ At("start") => /\ kind \in {"config", "update", "account"}
                           /\ kind = "update" => Done = 6
                           /\ kind \in {"config", "account"} => Done = 8
         /\ At("removeData") => kind = "uninstall" /\ Done = 4
         /\ At("removeProgram") => kind = "uninstall" /\ Done = 5
<1>1. kind # "none" => kind \in Kinds
  BY NextStep
<1>2. At("fetch") => kind = "config" /\ Done = 0
  BY <1>1, Table DEF At, Kinds
<1>3. At("saveConfig") => /\ kind \in {"config", "update", "account"}
                          /\ kind = "config" => Done = 1
                          /\ kind \in {"update", "account"} => Done = 4
  BY <1>1, Table DEF At, Kinds
<1>4. At("open") => /\ kind \in {"config", "update", "account", "uninstall"}
                    /\ kind \in {"update", "account", "uninstall"} => Done = 0
                    /\ kind = "config" => Done = 2
  BY <1>1, Table DEF At, Kinds
<1>5. At("stop") => /\ kind \in {"config", "update", "account", "uninstall"}
                    /\ kind \in {"update", "account", "uninstall"} => Done = 1
                    /\ kind = "config" => Done = 3
  BY <1>1, Table DEF At, Kinds
<1>6. At("stopped") => /\ kind \in {"config", "update", "account", "uninstall"}
                       /\ kind \in {"update", "account", "uninstall"} => Done = 2
                       /\ kind = "config" => Done = 4
  BY <1>1, Table DEF At, Kinds
<1>7. At("delete") => /\ kind \in {"config", "account", "uninstall"}
                      /\ kind = "uninstall" => Done = 3
                      /\ kind = "config" => Done = 5
                      /\ kind = "account" => Done = 6
  BY <1>1, Table DEF At, Kinds
<1>8. At("readConfig") => kind \in {"update", "account"} /\ Done = 3
  BY <1>1, Table DEF At, Kinds
<1>9. At("saveExe") => /\ kind \in {"config", "update", "account"}
                       /\ kind \in {"update", "account"} => Done = 5
                       /\ kind = "config" => Done = 6
  BY <1>1, Table DEF At, Kinds
<1>10. At("create") => kind \in {"config", "account"} /\ Done = 7
  BY <1>1, Table DEF At, Kinds
<1>11. At("start") => /\ kind \in {"config", "update", "account"}
                      /\ kind = "update" => Done = 6
                      /\ kind \in {"config", "account"} => Done = 8
  BY <1>1, Table DEF At, Kinds
<1>12. At("removeData") => kind = "uninstall" /\ Done = 4
  BY <1>1, Table DEF At, Kinds
<1>13. At("removeProgram") => kind = "uninstall" /\ Done = 5
  BY <1>1, Table DEF At, Kinds
<1> QED
  BY <1>2, <1>3, <1>4, <1>5, <1>6, <1>7, <1>8, <1>9, <1>10, <1>11, <1>12, <1>13
-----------------------------------------------------------------------------
(* A command that has more than m steps left goes on after m of them.       *)
LEMMA GoesOn ==
  ASSUME Types, JobInv, kind # "none", NEW m \in 1..4, Advance(m),
         Done + m < Len(Steps(kind))
  PROVE  /\ kind' = kind /\ Done' = Done + m /\ outcome' = "none"
         /\ UNCHANGED <<self, number>> /\ JobInv'
<1>1. /\ kind \in Kinds /\ todo = Rest(kind, Done) /\ Done \in Nat
      /\ Len(todo) = Len(Steps(kind)) - Done /\ Len(Steps(kind)) \in Nat
      /\ Steps(kind) \in Seq(StepNames)
  BY NextStep, Lengths
<1>2. m # Len(todo)
  <2> HIDE DEF Done
  <2> QED BY <1>1
<1>3. /\ todo' = SubSeq(todo, m + 1, Len(todo))
      /\ UNCHANGED <<kind, self, number, outcome>>
  BY <1>2 DEF Advance
<1>4. todo' = Rest(kind, Done + m) /\ Len(todo') = Len(Steps(kind)) - (Done + m)
  <2> DEFINE s == Steps(kind)
             d == Done
  <2>1. d \in 0..Len(s) /\ m \in 0..(Len(s) - d) /\ d + m \in 0..Len(s)
    BY <1>1
  <2>2. SubSeq(todo, m + 1, Len(todo)) = SubSeq(s, d + m + 1, Len(s))
    BY <1>1, <2>1, RestOfSeq DEF Rest
  <2>3. Len(SubSeq(s, (d + m) + 1, Len(s))) = Len(s) - (d + m)
    BY <1>1, <2>1, RestOfSeq
  <2> QED BY <1>3, <2>2, <2>3 DEF Rest
<1>5. Done' = Done + m
  <2>1. Done' = Len(Steps(kind)) - Len(todo')
    BY <1>3 DEF Done
  <2> HIDE DEF Done
  <2> QED BY <1>1, <1>4, <2>1
<1>6. JobInv'
  BY <1>1, <1>3, <1>4, <1>5 DEF JobInv
<1> QED BY <1>3, <1>5, <1>6 DEF JobInv

(* A command that has one step left ends with it.                           *)
LEMMA EndsWell ==
  ASSUME Types, JobInv, kind # "none", Advance(1), Done + 1 = Len(Steps(kind))
  PROVE  Ends("ok") /\ JobInv'
<1>1. Len(todo) = Len(Steps(kind)) - Done /\ Done \in Nat /\ Len(Steps(kind)) \in Nat
  BY NextStep, Lengths
<1>2. Len(todo) = 1
  <2> HIDE DEF Done
  <2> QED BY <1>1
<1> QED BY <1>2 DEF Advance, Ends, JobInv
-----------------------------------------------------------------------------
(* The assumptions on the constants that the steps below use.               *)
LEMMA Params ==
    /\ MaxRetries \in Nat /\ MaxCrashes \in Nat /\ MaxCommands \in Nat /\ MaxFaults \in Nat
    /\ Absent # Torn /\ Absent \notin Nat /\ Torn \notin Nat
BY HostBounds, CommandBounds, FileAssumption

(* The injected failures stay within their bound.                           *)
LEMMA FaultsBounded ==
  ASSUME Types, Fault \/ NoFault
  PROVE  faults' \in 0..MaxFaults
<1>1. faults \in 0..MaxFaults
  BY DEF Types
<1>2. CASE Fault
  BY <1>1, <1>2, Params DEF Fault
<1>3. CASE NoFault
  BY <1>1, <1>3 DEF NoFault
<1> QED BY <1>2, <1>3

(* A command that does not end well leaves nothing to be said but that the  *)
(* manager knows no service without a unit.                                 *)
LEMMA EndsBadly ==
  ASSUME NEW r \in {"failed", "killed"}, Ends(r), Types', registered' => unit'
  PROVE  IInv'
<1>1. kind' = "none" /\ todo' = <<>> /\ outcome' = r
  BY DEF Ends
<1>2. JobInv' /\ FilesInv' /\ RemovalInv' /\ ResultInv'
  BY <1>1 DEF JobInv, FilesInv, RemovalInv, ResultInv
<1>3. UnitInv'
  BY <1>1 DEF UnitInv
<1> QED BY <1>2, <1>3 DEF IInv

(* A process that is down stays down by itself, and one that was asked to   *)
(* stop is not brought back by the manager.                                 *)
LEMMA HostMoves ==
  ASSUME HostTypeOK, Process \/ Updates \/ Crashes
  PROVE  /\ HostTypeOK' /\ Apart
         /\ proc = "down" => proc' = "down"
         /\ Live /\ asked => proc' = "down" \/ (Live' /\ asked')
<1> USE Params DEF HostTypeOK, Live
<1>1. CASE Process
  <2>1. Apart /\ (Load \/ LoadFails \/ Stop \/ Return \/ Relaunch)
    BY <1>1 DEF Process
  <2>2. CASE Load
    BY <2>1, <2>2 DEF Load
  <2>3. CASE LoadFails
    BY <2>1, <2>3 DEF LoadFails
  <2>4. CASE Stop
    BY <2>1, <2>4 DEF Stop
  <2>5. CASE Return
    BY <2>1, <2>5 DEF Return
  <2>6. CASE Relaunch
    BY <2>1, <2>6 DEF Relaunch
  <2> QED BY <2>1, <2>2, <2>3, <2>4, <2>5, <2>6
<1>2. CASE Updates
  <2>1. Apart /\ UpdaterStep
    BY <1>2 DEF Updates
  <2>2. UNCHANGED <<platform, proc, asked, crashes>>
    BY <2>1 DEF UpdaterStep, Tick, StopSeen, UpToDate, NewRelease, Downloaded, RunFails,
      BackoffElapses, Updater
  <2>3. upd' \in {"off", "wait", "check", "download", "launch", "backoff", "done"}
    BY <2>1 DEF UpdaterStep, Tick, StopSeen, UpToDate, NewRelease, Downloaded, RunFails,
      BackoffElapses, Updater, Exhausted
  <2>4. attempt' \in 0..MaxRetries
    <3>1. attempt' = 0 \/ attempt' = attempt \/ (attempt < MaxRetries /\ attempt' = attempt + 1)
      BY <2>1 DEF UpdaterStep, Tick, StopSeen, UpToDate, NewRelease, Downloaded, RunFails,
        BackoffElapses
    <3> QED BY <3>1
  <2> QED BY <2>1, <2>2, <2>3, <2>4
<1>3. CASE Crashes
  <2>1. Apart /\ Crash
    BY <1>3 DEF Crashes
  <2>2. crashes' \in 0..MaxCrashes
    BY <2>1 DEF Crash
  <2>3. /\ proc' \in {"down", "restarting"} /\ proc # "down" /\ (asked => proc' = "down")
        /\ asked' = FALSE /\ upd' = "off" /\ attempt' = 0 /\ platform' = platform
    BY <2>1 DEF Crash
  <2>5. attempt' \in 0..MaxRetries
    BY <2>3
  <2>4. HostTypeOK'
    BY <2>2, <2>3, <2>5
  <2> HIDE DEF HostTypeOK
  <2> QED BY <2>1, <2>3, <2>4
<1> QED BY <1>1, <1>2, <1>3

(* The process and its update runner change nothing that is installed.      *)
LEMMA HostStep ==
  ASSUME IInv, Process \/ Updates \/ Crashes
  PROVE  IInv'
<1>1. /\ HostTypeOK' /\ UNCHANGED <<kind, todo, self, number, outcome, registered, unit>>
      /\ UNCHANGED <<config, exe, missed, faults>>
      /\ proc = "down" => proc' = "down"
      /\ Live /\ asked => proc' = "down" \/ (Live' /\ asked')
  BY HostMoves DEF IInv, Types, Apart, jobVars, mgrVars, diskVars
<1>2. Done' = Done
  BY <1>1 DEF Done
<1>3. Types' /\ JobInv' /\ FilesInv' /\ UnitInv'
  BY <1>1, <1>2 DEF IInv, Types, JobInv, FilesInv, UnitInv
<1>4. RemovalInv' /\ ResultInv'
  BY <1>1, <1>2 DEF IInv, RemovalInv, ResultInv, Installed, Removed
<1> QED BY <1>3, <1>4 DEF IInv

(* A reboot ends a running command; what succeeded before is still there,   *)
(* and the manager loads only what it knows.                                *)
LEMMA RebootStep ==
  ASSUME IInv, Reboot
  PROVE  IInv'
<1>1. /\ UNCHANGED <<platform, unit, config, exe, missed, faults>>
      /\ registered' = IF platform = "darwin" THEN unit ELSE registered
      /\ proc' = IF registered' THEN "loading" ELSE "down"
      /\ crashes < MaxCrashes /\ crashes' = crashes + 1
      /\ asked' = FALSE /\ upd' = "off" /\ attempt' = 0
  BY DEF Reboot, diskVars
<1>2. HostTypeOK' /\ registered' \in BOOLEAN /\ (registered' => unit')
  <2>1. crashes' \in 0..MaxCrashes
    BY <1>1, Params DEF IInv, Types, HostTypeOK
  <2>2. attempt' \in 0..MaxRetries
    BY <1>1, Params
  <2>3. proc' \in {"loading", "down"} /\ registered' \in BOOLEAN
    BY <1>1 DEF IInv, Types
  <2>4. HostTypeOK'
    BY <1>1, <2>1, <2>2, <2>3 DEF IInv, Types, HostTypeOK
  <2> QED BY <1>1, <2>3, <2>4 DEF IInv, UnitInv
<1>3. CASE kind = "none"
  <2>1. UNCHANGED <<kind, todo, outcome, self, number>>
    BY <1>3 DEF Reboot
  <2>2. Types' /\ JobInv'
    BY <1>1, <1>2, <1>3, <2>1 DEF IInv, Types, JobInv
  <2>3. FilesInv' /\ UnitInv' /\ RemovalInv'
    BY <1>2, <1>3, <2>1 DEF FilesInv, UnitInv, RemovalInv
  <2>4. ResultInv'
    BY <1>1, <1>2, <2>1 DEF IInv, ResultInv, Installed, Removed, UnitInv, Types
  <2> QED BY <2>2, <2>3, <2>4 DEF IInv
<1>4. CASE kind # "none"
  <2>1. Ends("killed")
    BY <1>4 DEF Reboot
  <2>2. Types'
    BY <1>1, <1>2, <2>1 DEF IInv, Types, Ends
  <2> QED BY <1>2, <2>1, <2>2, EndsBadly
<1> QED BY <1>3, <1>4

(* A command begins with nothing done.                                      *)
LEMMA BeginStep ==
  ASSUME IInv, NEW k \in Kinds, NEW b \in BOOLEAN, Begins(k, b), HostTypeOK', proc' = proc
  PROVE  IInv'
<1>1. /\ kind' = k /\ todo' = Steps(k) /\ self' = b /\ number' = number + 1
      /\ outcome' = "none" /\ missed' = FALSE /\ number < MaxCommands
      /\ UNCHANGED <<registered, unit, config, exe, faults>>
  BY DEF Begins, mgrVars, diskVars
<1>2. Types'
  <2>1. number' \in 0..MaxCommands
    BY <1>1, Params DEF IInv, Types
  <2> QED BY <1>1, <2>1 DEF IInv, Types
<1>3. Steps(k) \in Seq(StepNames) /\ Len(Steps(k)) \in Nat \ {0} /\ k # "none"
  <2>1. Len(Steps(k)) \in {6, 7, 9}
    BY Lengths DEF Kinds
  <2>2. Steps(k) \in Seq(StepNames)
    BY Lengths
  <2>3. k # "none"
    BY DEF Kinds
  <2>4. Len(Steps(k)) \in Nat \ {0}
    BY <2>1
  <2> QED BY <2>2, <2>3, <2>4
<1>4. Done' = 0
  BY <1>1, <1>3 DEF Done
<1>5. JobInv'
  <2>1. SubSeq(Steps(k), 0 + 1, Len(Steps(k))) = Steps(k)
    BY <1>3
  <2>2. number' >= 1
    BY <1>1 DEF IInv, Types
  <2> QED BY <1>1, <1>3, <1>4, <2>1, <2>2 DEF JobInv, Rest
<1>6. FilesInv' /\ RemovalInv' /\ UnitInv' /\ ResultInv'
  BY <1>1, <1>4 DEF IInv, FilesInv, RemovalInv, UnitInv, ResultInv
<1> QED BY <1>2, <1>5, <1>6 DEF IInv
-----------------------------------------------------------------------------
(* Only start and removeProgram are the last step of a command.             *)
LEMMA LastSteps ==
  ASSUME Types, JobInv, kind # "none"
  PROVE  /\ At("start") \/ At("removeProgram") => Done + 1 = Len(Steps(kind))
         /\ ~At("start") /\ ~At("removeProgram") => Done + 1 < Len(Steps(kind))
         /\ At("stop") => Done + 2 < Len(Steps(kind))
         /\ At("open") /\ kind = "config" => Done + 4 < Len(Steps(kind))
<1>1. kind \in Kinds
  BY NextStep
<1>2. CASE kind = "config"
  <2>1. Len(Steps(kind)) = 9
    BY <1>2, Lengths
  <2>2. Done \in 0..8
    BY <2>1, NextStep
  <2>3. Done = 8 => At("start")
    BY <1>2, Table DEF At
  <2>4. (At("start") \/ At("removeProgram") => Done = 8) /\ (At("stop") => Done = 3)
    BY <1>2, Where
  <2>5. At("start") \/ At("removeProgram") => Done + 1 = 9
    BY <2>4
  <2>6. ~At("start") /\ ~At("removeProgram") => Done + 1 < 9
    BY <2>2, <2>3
  <2>7. At("stop") => Done + 2 < 9
    BY <2>4
  <2>8. At("open") /\ kind = "config" => Done + 4 < 9
    BY <1>2, Where
  <2> QED BY <2>1, <2>5, <2>6, <2>7, <2>8
<1>3. CASE kind = "update"
  <2>1. Len(Steps(kind)) = 7
    BY <1>3, Lengths
  <2>2. Done \in 0..6
    BY <2>1, NextStep
  <2>3. Done = 6 => At("start")
    BY <1>3, Table DEF At
  <2>4. (At("start") \/ At("removeProgram") => Done = 6) /\ (At("stop") => Done = 1)
    BY <1>3, Where
  <2>5. At("start") \/ At("removeProgram") => Done + 1 = 7
    BY <2>4
  <2>6. ~At("start") /\ ~At("removeProgram") => Done + 1 < 7
    BY <2>2, <2>3
  <2>7. At("stop") => Done + 2 < 7
    BY <2>4
  <2>8. At("open") /\ kind = "config" => Done + 4 < 7
    BY <1>3, Where
  <2> QED BY <2>1, <2>5, <2>6, <2>7, <2>8
<1>4. CASE kind = "account"
  <2>1. Len(Steps(kind)) = 9
    BY <1>4, Lengths
  <2>2. Done \in 0..8
    BY <2>1, NextStep
  <2>3. Done = 8 => At("start")
    BY <1>4, Table DEF At
  <2>4. (At("start") \/ At("removeProgram") => Done = 8) /\ (At("stop") => Done = 1)
    BY <1>4, Where
  <2>5. At("start") \/ At("removeProgram") => Done + 1 = 9
    BY <2>4
  <2>6. ~At("start") /\ ~At("removeProgram") => Done + 1 < 9
    BY <2>2, <2>3
  <2>7. At("stop") => Done + 2 < 9
    BY <2>4
  <2>8. At("open") /\ kind = "config" => Done + 4 < 9
    BY <1>4, Where
  <2> QED BY <2>1, <2>5, <2>6, <2>7, <2>8
<1>5. CASE kind = "uninstall"
  <2>1. Len(Steps(kind)) = 6
    BY <1>5, Lengths
  <2>2. Done \in 0..5
    BY <2>1, NextStep
  <2>3. Done = 5 => At("removeProgram")
    BY <1>5, Table DEF At
  <2>4. (At("start") \/ At("removeProgram") => Done = 5) /\ (At("stop") => Done = 1)
    BY <1>5, Where
  <2>5. At("start") \/ At("removeProgram") => Done + 1 = 6
    BY <2>4
  <2>6. ~At("start") /\ ~At("removeProgram") => Done + 1 < 6
    BY <2>2, <2>3
  <2>7. At("stop") => Done + 2 < 6
    BY <2>4
  <2>8. At("open") /\ kind = "config" => Done + 4 < 6
    BY <1>5, Where
  <2> QED BY <2>1, <2>5, <2>6, <2>7, <2>8
<1> QED BY <1>1, <1>2, <1>3, <1>4, <1>5 DEF Kinds

(* A step that is not the last one, done.                                   *)
LEMMA StepDone ==
  ASSUME Types, JobInv, kind # "none", Advance(1), ~At("start"), ~At("removeProgram")
  PROVE  /\ kind' = kind /\ Done' = Done + 1 /\ outcome' = "none"
         /\ UNCHANGED <<self, number>> /\ JobInv'
BY LastSteps, GoesOn

(* What a step that goes on has to keep: the files and the unit that the    *)
(* command needs at its next place, and what an uninstall has removed.      *)
LEMMA PlaceKept ==
  ASSUME IInv, kind # "none", Advance(1), ~At("start"), ~At("removeProgram"),
         HostTypeOK', missed' \in BOOLEAN, faults' = faults,
         registered' \in BOOLEAN, unit' \in BOOLEAN, registered' => unit',
         kind = "update" => unit' = unit /\ (At("open") => registered),
         At("create") => unit',
         config' = config \/ (config' = number /\ At("saveConfig"))
                          \/ (config' = Absent /\ At("removeData")),
         At("saveConfig") => config' = number, At("removeData") => config' = Absent,
         exe' = exe \/ (exe' = number /\ At("saveExe")), At("saveExe") => exe' = number,
         RemovalInv'
  PROVE  IInv'
<1>1. Types /\ JobInv /\ FilesInv /\ UnitInv
  BY DEF IInv
<1>2. /\ kind' = kind /\ Done' = Done + 1 /\ outcome' = "none"
      /\ UNCHANGED <<self, number>> /\ JobInv'
  BY <1>1, StepDone
<1>3. kind \in Kinds /\ Done \in Nat /\ number \in 1..MaxCommands
  BY <1>1, NextStep DEF JobInv, Types
<1>4. Types'
  BY <1>1, <1>2, <1>3 DEF Types, Files
<1>5. FilesInv'
  <2>1. CASE kind = "config"
    <3>1. Done = 1 => At("saveConfig")
      BY <1>1, <2>1, Table DEF At
    <3>2. Done = 6 => At("saveExe")
      BY <1>1, <2>1, Table DEF At
    <3>3. ~At("removeData")
      BY <1>1, <2>1, Where
    <3>6. /\ Done >= 2 => config = number
          /\ Done >= 7 => exe = number
      BY <1>1, <2>1 DEF FilesInv
    <3>7. (Done = 1 \/ Done >= 2 => config' = number) /\ (Done = 6 \/ Done >= 7 => exe' = number)
      BY <3>1, <3>2, <3>3, <3>6
    <3>4. Done + 1 >= 2 => config' = number
      BY <1>3, <3>7
    <3>5. Done + 1 >= 7 => exe' = number
      BY <1>3, <3>7
    <3> QED BY <1>2, <2>1, <3>4, <3>5 DEF FilesInv
  <2>2. CASE kind \in {"update", "account"}
    <3>1. Done = 4 => At("saveConfig")
      BY <1>1, <2>2, Table DEF At
    <3>2. Done = 5 => At("saveExe")
      BY <1>1, <2>2, Table DEF At
    <3>3. ~At("removeData")
      BY <1>1, <2>2, Where
    <3>4. Done + 1 >= 5 => config' = number
      BY <1>1, <1>3, <2>2, <3>1, <3>3 DEF FilesInv
    <3>5. Done + 1 >= 6 => exe' = number
      BY <1>1, <1>3, <2>2, <3>2 DEF FilesInv
    <3> QED BY <1>2, <2>2, <3>4, <3>5 DEF FilesInv
  <2>3. CASE kind = "uninstall"
    BY <1>2, <2>3 DEF FilesInv
  <2> QED BY <1>3, <2>1, <2>2, <2>3 DEF Kinds
<1>6. UnitInv'
  <2>1. CASE kind \in {"config", "account"}
    <3>1. Done = 7 => At("create")
      BY <1>1, <2>1, Table DEF At
    <3>2. Done + 1 >= 8 => Done = 7 \/ Done >= 8
      BY <1>3
    <3>3. Done < 8
      <4>1. Len(Steps(kind)) = 9 /\ Done + 1 < Len(Steps(kind))
        BY <1>1, <2>1, LastSteps, Lengths
      <4> QED BY <1>3, <4>1
    <3>4. Done + 1 >= 8 => unit'
      BY <1>3, <3>1, <3>2, <3>3
    <3> QED BY <1>2, <2>1, <3>4 DEF UnitInv
  <2>2. CASE kind = "update"
    <3>1. Done = 0 => At("open")
      BY <1>1, <2>2, Table DEF At
    <3>2. Done + 1 >= 1 => unit'
      BY <1>1, <1>3, <2>2, <3>1 DEF UnitInv
    <3> QED BY <1>2, <2>2, <3>2 DEF UnitInv
  <2>3. CASE kind = "uninstall"
    BY <1>2, <2>3 DEF UnitInv
  <2> QED BY <1>3, <2>1, <2>2, <2>3 DEF Kinds
<1>7. ResultInv'
  BY <1>2 DEF ResultInv
<1> QED BY <1>2, <1>4, <1>5, <1>6, <1>7 DEF IInv

(* What an uninstall has removed stays removed, unless the step is one of   *)
(* its own four.                                                            *)
LEMMA RemovalKept ==
  ASSUME IInv, kind # "none", Advance(1), ~At("start"), ~At("removeProgram"),
         UNCHANGED <<proc, asked, missed>>,
         kind = "uninstall" =>
            /\ ~At("stop")
            /\ At("stopped") => ~Live
            /\ At("delete") => ~unit' /\ ~registered'
            /\ At("removeData") => config' = Absent
            /\ ~At("delete") => unit' = unit /\ (registered' => registered)
            /\ ~At("removeData") => config' = config
  PROVE  RemovalInv'
<1>1. SUFFICES ASSUME kind' = "uninstall" PROVE RemovalInv'
  BY DEF RemovalInv
<1>2. Types /\ JobInv /\ RemovalInv
  BY DEF IInv
<1>3. kind = "uninstall" /\ Done' = Done + 1 /\ Done \in Nat
  BY <1>1, <1>2, StepDone, NextStep
<1>4. /\ Done = 1 => At("stop")
      /\ Done = 2 => At("stopped")
      /\ Done = 3 => At("delete")
      /\ Done = 4 => At("removeData")
  BY <1>2, <1>3, Table DEF At
<1>5. Done # 1
  BY <1>3, <1>4
<1>6. Done + 1 >= 3 => missed \/ proc = "down"
  <2>1. Done = 2 => proc = "down"
    BY <1>3, <1>4 DEF IInv, RemovalInv
  <2>2. Done >= 3 => missed \/ proc = "down"
    BY <1>2, <1>3 DEF RemovalInv
  <2> QED BY <1>3, <2>1, <2>2
<1>7. Done + 1 >= 4 => ~unit' /\ ~registered'
  <2>1. Done = 3 => ~unit' /\ ~registered'
    BY <1>3, <1>4
  <2>2. Done >= 4 => ~unit /\ ~registered
    BY <1>2, <1>3 DEF RemovalInv
  <2>3. Done >= 4 => ~unit' /\ ~registered'
    BY <1>3, <2>2
  <2> QED BY <1>3, <2>1, <2>3
<1>8. Done + 1 >= 5 => config' = Absent
  <2>1. Done = 4 => config' = Absent
    BY <1>3, <1>4
  <2>2. Done >= 5 => config = Absent
    BY <1>2, <1>3 DEF RemovalInv
  <2>3. Done >= 5 => config' = Absent
    BY <1>3, <2>2
  <2> QED BY <1>3, <2>1, <2>3
<1>9. Done + 1 # 2
  BY <1>3, <1>5
<1> QED BY <1>3, <1>6, <1>7, <1>8, <1>9 DEF RemovalInv

(* The steps that end a command well, and Start before all: the service has *)
(* its files and its unit, and the manager knows it.                        *)
LEMMA StartStep ==
  ASSUME IInv, Start
  PROVE  IInv'
<1>1. /\ Types /\ JobInv /\ FilesInv /\ UnitInv
      /\ At("start") /\ kind # "none" /\ Advance(1)
  BY DEF IInv, Start, At
<1>2. Ends("ok") /\ JobInv'
  BY <1>1, LastSteps, EndsWell
<1>3. /\ registered' = TRUE /\ proc' = IF Live THEN proc ELSE "loading"
      /\ UNCHANGED <<platform, asked, upd, attempt, crashes, unit, config, exe, missed, faults>>
      /\ kind' = "none" /\ outcome' = "ok" /\ UNCHANGED <<self, number>>
  BY <1>2 DEF Start, Ends, diskVars
<1>4. Types'
  BY <1>1, <1>3 DEF Types, HostTypeOK
<1>5. config = number /\ exe = number /\ unit /\ number >= 1
  <2>1. CASE kind = "update"
    <3>1. Done = 6
      BY <1>1, <2>1, Where
    <3> QED BY <1>1, <2>1, <3>1 DEF FilesInv, UnitInv, JobInv
  <2>2. CASE kind \in {"config", "account"}
    <3>1. Done = 8
      BY <1>1, <2>2, Where
    <3> QED BY <1>1, <2>2, <3>1 DEF FilesInv, UnitInv, JobInv
  <2> QED BY <1>1, <2>1, <2>2, Where
<1>6. FilesInv' /\ UnitInv' /\ RemovalInv' /\ ResultInv'
  BY <1>3, <1>5 DEF FilesInv, UnitInv, RemovalInv, ResultInv, Installed
<1> QED BY <1>2, <1>4, <1>6 DEF IInv

(* The end of an uninstall: all that it had to remove is gone.              *)
LEMMA RemoveProgramStep ==
  ASSUME IInv, RemoveProgram
  PROVE  IInv'
<1>1. /\ Types /\ JobInv /\ RemovalInv /\ UnitInv
      /\ At("removeProgram") /\ kind = "uninstall" /\ kind # "none" /\ Done = 5
  BY Where DEF IInv, RemoveProgram, At
<1>2. UNCHANGED <<platform, proc, asked, upd, attempt, crashes>>
      /\ UNCHANGED <<registered, unit, config, missed, faults>>
  BY DEF RemoveProgram, hostVars, mgrVars
<1>3. CASE Ends("failed") /\ UNCHANGED exe
  <2>1. Types' /\ (registered' => unit')
    BY <1>1, <1>2, <1>3 DEF Types, HostTypeOK, Ends, UnitInv
  <2> QED BY <1>3, <2>1, EndsBadly
<1>4. CASE Advance(1) /\ exe' = Absent
  <2>1. Ends("ok") /\ JobInv'
    BY <1>1, <1>4, LastSteps, EndsWell
  <2>2. kind' = "none" /\ outcome' = "ok" /\ UNCHANGED <<self, number>>
    BY <2>1 DEF Ends
  <2>3. Types'
    BY <1>1, <1>2, <1>4, <2>2 DEF Types, HostTypeOK, Files
  <2>4. /\ config = Absent /\ ~unit /\ ~registered /\ number >= 1
        /\ missed \/ proc = "down"
    BY <1>1 DEF RemovalInv, JobInv
  <2>5. FilesInv' /\ UnitInv' /\ RemovalInv' /\ ResultInv'
    BY <1>2, <1>4, <2>2, <2>4 DEF FilesInv, UnitInv, RemovalInv, ResultInv, Removed
  <2> QED BY <2>1, <2>3, <2>5 DEF IInv
<1> QED BY <1>3, <1>4 DEF RemoveProgram

(* The stop of the service, asked for or skipped.                           *)
LEMMA StopStep ==
  ASSUME IInv, SkipStop \/ AskStop
  PROVE  IInv'
<1>1. /\ Types /\ JobInv /\ FilesInv /\ UnitInv
      /\ At("stop") /\ kind # "none" /\ kind \in Kinds
      /\ ~At("start") /\ ~At("removeProgram") /\ ~At("delete") /\ ~At("create")
      /\ ~At("open") /\ ~At("saveConfig") /\ ~At("saveExe") /\ ~At("removeData")
  BY NextStep DEF IInv, SkipStop, AskStop, At
<1>2. UNCHANGED <<registered, unit, config, exe, faults, platform, proc, upd, attempt, crashes>>
  BY DEF SkipStop, AskStop, hostVars, mgrVars, diskVars
<1>3. asked' \in BOOLEAN /\ missed' \in BOOLEAN
  BY <1>1 DEF SkipStop, AskStop, Types, HostTypeOK, hostVars, Live
<1>4. HostTypeOK'
  BY <1>1, <1>2, <1>3 DEF Types, HostTypeOK
<1>5. CASE SkipStop
  <2>1. /\ kind' = kind /\ Done' = Done + 2 /\ outcome' = "none"
        /\ UNCHANGED <<self, number>> /\ JobInv'
    BY <1>1, <1>5, LastSteps, GoesOn DEF SkipStop
  <2>2. Types'
    BY <1>1, <1>2, <1>3, <1>4, <2>1 DEF Types
  <2>3. CASE kind = "config"
    <3>1. Done = 3
      BY <1>1, <2>3, Where
    <3>2. Done' = 5
      BY <2>1, <3>1
    <3>3. config = number
      BY <1>1, <2>3, <3>1 DEF FilesInv
    <3> QED BY <1>1, <1>2, <2>1, <2>2, <2>3, <3>2, <3>3
      DEF IInv, FilesInv, UnitInv, RemovalInv, ResultInv
  <2>4. CASE kind # "config"
    <3>1. Done = 1
      BY <1>1, <2>4, Where
    <3>2. Done' = 3
      BY <2>1, <3>1
    <3>3. kind = "update" => unit
      BY <1>1, <3>1 DEF UnitInv
    <3>4. missed' \/ proc' = "down"
      BY <1>1, <1>2, <1>5 DEF SkipStop, Types, HostTypeOK, Live
    <3>5. FilesInv' /\ UnitInv' /\ RemovalInv' /\ ResultInv'
      BY <1>1, <1>2, <2>1, <2>4, <3>2, <3>3, <3>4
      DEF FilesInv, UnitInv, RemovalInv, ResultInv
    <3> QED BY <2>1, <2>2, <3>5 DEF IInv
  <2> QED BY <2>3, <2>4
<1>6. CASE AskStop
  <2>1. CASE Ends("killed")
    <3>1. Types' /\ (registered' => unit')
      BY <1>1, <1>2, <1>3, <1>4, <2>1 DEF Types, Ends, UnitInv
    <3> QED BY <2>1, <3>1, EndsBadly
  <2>2. CASE Advance(1)
    <3>1. kind' = kind /\ Done' = Done + 1
      BY <1>1, <2>2, StepDone
    <3>2. kind = "uninstall" => Done = 1
      BY <1>1, Where
    <3>3. Live' /\ asked'
      BY <1>2, <1>6 DEF AskStop, LooksActive, Live, Types, HostTypeOK, IInv
    <3>4. RemovalInv'
      BY <3>1, <3>2, <3>3 DEF RemovalInv
    <3>5. missed' = missed
      BY <1>6 DEF AskStop
    <3> QED BY <1>1, <1>2, <1>3, <1>4, <2>2, <3>4, PlaceKept DEF Types, UnitInv
  <2> QED BY <1>6, <2>1, <2>2 DEF AskStop
<1> QED BY <1>5, <1>6

(* The steps that only look: the download, the read of config.json and the  *)
(* manager's answer to Open.                                                *)
LEMMA LookStep ==
  ASSUME IInv, Fetch \/ ReadConfig \/ Open \/ StepFails \/ ExeBusy \/ CreateFails
  PROVE  IInv'
<1>1. /\ Types /\ JobInv /\ UnitInv /\ (registered => unit)
      /\ kind # "none"
  BY DEF IInv, UnitInv, Fetch, ReadConfig, Open, StepFails, ExeBusy, CreateFails, At
<1>2. /\ UNCHANGED <<platform, proc, asked, upd, attempt, crashes>>
      /\ UNCHANGED <<registered, unit, config, exe, missed>>
  BY DEF Fetch, ReadConfig, Open, StepFails, ExeBusy, CreateFails, hostVars, mgrVars, diskVars
<1>3. faults' \in 0..MaxFaults
  <2>1. Fault \/ NoFault
    BY DEF Fetch, ReadConfig, Open, StepFails, ExeBusy, CreateFails, NoFault
  <2> QED BY <1>1, <2>1, FaultsBounded
<1>4. HostTypeOK'
  BY <1>1, <1>2 DEF Types, HostTypeOK
<1>5. CASE Ends("failed")
  <2>1. Types'
    BY <1>1, <1>2, <1>3, <1>4, <1>5 DEF Types, Ends
  <2> QED BY <1>1, <1>2, <1>5, <2>1, EndsBadly
<1>6. CASE Advance(1) /\ faults' = faults /\ (At("fetch") \/ At("readConfig") \/ At("open"))
                      /\ (At("open") => registered)
  <2>1. /\ ~At("start") /\ ~At("removeProgram") /\ ~At("delete") /\ ~At("create")
        /\ ~At("saveConfig") /\ ~At("saveExe") /\ ~At("removeData") /\ ~At("stop")
        /\ ~At("stopped")
    BY <1>6 DEF At
  <2>2. RemovalInv'
    BY <1>1, <1>2, <1>6, <2>1, RemovalKept
  <2> QED BY <1>1, <1>2, <1>4, <1>6, <2>1, <2>2, PlaceKept DEF Types
<1> QED
  BY <1>5, <1>6 DEF Fetch, ReadConfig, Open, StepFails, ExeBusy, CreateFails, At

(* Open fails: the config command takes it for "not installed" and goes on  *)
(* with the copy, the others end.                                           *)
LEMMA OpenFailsStep ==
  ASSUME IInv, OpenFails
  PROVE  IInv'
<1>1. /\ Types /\ JobInv /\ FilesInv /\ UnitInv /\ kind # "none" /\ At("open")
  BY DEF IInv, OpenFails, At
<1>2. /\ UNCHANGED <<platform, proc, asked, upd, attempt, crashes>>
      /\ UNCHANGED <<registered, unit, config, exe>> /\ missed' \in BOOLEAN
  BY DEF OpenFails, hostVars, mgrVars, diskVars, Live
<1>3. faults' \in 0..MaxFaults
  <2>1. Fault \/ NoFault
    BY DEF OpenFails
  <2> QED BY <1>1, <2>1, FaultsBounded
<1>4. HostTypeOK'
  BY <1>1, <1>2 DEF Types, HostTypeOK
<1>5. CASE kind = "config"
  <2>1. /\ kind' = kind /\ Done' = Done + 4 /\ outcome' = "none"
        /\ UNCHANGED <<self, number>> /\ JobInv'
    BY <1>1, <1>5, LastSteps, GoesOn DEF OpenFails
  <2>2. Done = 2 /\ Done' = 6
    BY <1>1, <1>5, <2>1, Where
  <2>3. config = number
    BY <1>1, <1>5, <2>2 DEF FilesInv
  <2>4. Types'
    BY <1>1, <1>2, <1>3, <1>4, <2>1 DEF Types
  <2>5. FilesInv' /\ UnitInv' /\ RemovalInv' /\ ResultInv'
    BY <1>1, <1>2, <1>5, <2>1, <2>2, <2>3 DEF FilesInv, UnitInv, RemovalInv, ResultInv
  <2> QED BY <2>1, <2>4, <2>5 DEF IInv
<1>6. CASE kind # "config"
  <2>1. Ends("failed")
    BY <1>6 DEF OpenFails
  <2>2. Types' /\ (registered' => unit')
    BY <1>1, <1>2, <1>3, <1>4, <2>1 DEF Types, Ends, UnitInv
  <2> QED BY <2>1, <2>2, EndsBadly
<1> QED BY <1>5, <1>6

(* The writes and the removal of config.json and the executable; a write    *)
(* that fails ends the command.                                             *)
LEMMA FileStep ==
  ASSUME IInv, SaveConfig \/ SaveExe \/ RemoveData
  PROVE  IInv'
<1>1. /\ Types /\ JobInv /\ UnitInv /\ (registered => unit) /\ kind # "none"
      /\ At("saveConfig") \/ At("saveExe") \/ At("removeData")
  BY DEF IInv, UnitInv, SaveConfig, SaveExe, RemoveData, Saves, At
<1>2. /\ UNCHANGED <<platform, proc, asked, upd, attempt, crashes>>
      /\ UNCHANGED <<registered, unit, missed>>
  BY DEF SaveConfig, SaveExe, RemoveData, hostVars, mgrVars
<1>3. HostTypeOK'
  BY <1>1, <1>2 DEF Types, HostTypeOK
<1>4. CASE Ends("failed")
  <2>1. faults' \in 0..MaxFaults
    <3>1. Fault \/ NoFault
      BY DEF SaveConfig, SaveExe, RemoveData, Saves, NoFault
    <3> QED BY <1>1, <3>1, FaultsBounded
  <2>2. outcome' = "failed" /\ config' \in Files /\ exe' \in Files
    BY <1>1, <1>4 DEF SaveConfig, SaveExe, RemoveData, Written, Ends, Types, Files
  <2>3. Types'
    BY <1>1, <1>2, <1>3, <1>4, <2>1, <2>2 DEF Types, Ends
  <2> QED BY <1>1, <1>2, <1>4, <2>3, EndsBadly
<1>5. CASE Advance(1) /\ faults' = faults
  <2>1. /\ ~At("start") /\ ~At("removeProgram") /\ ~At("delete") /\ ~At("create")
        /\ ~At("open") /\ ~At("stop") /\ ~At("stopped")
    BY <1>1 DEF At
  <2>2. outcome' = "none"
    BY <1>1, <1>5, <2>1, StepDone
  <2>3. /\ At("saveConfig") => config' = number /\ exe' = exe
        /\ At("saveExe") => exe' = number /\ config' = config
        /\ At("removeData") => config' = Absent /\ exe' = exe
    BY <2>2 DEF SaveConfig, SaveExe, RemoveData, Saves, Written, At
  <2>4. /\ At("saveConfig") => ~At("saveExe") /\ ~At("removeData") /\ kind # "uninstall"
        /\ At("saveExe") => ~At("removeData") /\ kind # "uninstall"
    <3>1. /\ At("saveConfig") => ~At("saveExe") /\ ~At("removeData")
          /\ At("saveExe") => ~At("removeData")
      BY DEF At
    <3> QED BY <1>1, <3>1, Where
  <2>5. RemovalInv'
    BY <1>1, <1>2, <1>5, <2>1, <2>3, <2>4, RemovalKept
  <2> QED BY <1>1, <1>2, <1>3, <1>5, <2>1, <2>3, <2>4, <2>5, PlaceKept DEF Types
<1> QED BY <1>4, <1>5 DEF SaveConfig, SaveExe, RemoveData, Saves, NoFault

(* What a command does at the service manager.                              *)
LEMMA ManagerStep ==
  ASSUME IInv, Stopped \/ Delete \/ Create
  PROVE  IInv'
<1>1. /\ Types /\ JobInv /\ UnitInv /\ (registered => unit) /\ kind # "none"
      /\ At("stopped") \/ At("delete") \/ At("create")
  BY DEF IInv, UnitInv, Stopped, Delete, Create, At
<1>2. /\ UNCHANGED <<platform, proc, asked, upd, attempt, crashes>>
      /\ UNCHANGED <<config, exe, missed, faults>> /\ Advance(1)
  BY DEF Stopped, Delete, Create, hostVars, diskVars
<1>3. HostTypeOK'
  BY <1>1, <1>2 DEF Types, HostTypeOK
<1>4. /\ ~At("start") /\ ~At("removeProgram") /\ ~At("open") /\ ~At("stop")
      /\ ~At("saveConfig") /\ ~At("saveExe") /\ ~At("removeData")
  BY <1>1 DEF At
<1>5. /\ At("stopped") => ~Live /\ unit' = unit /\ registered' = (registered /\ platform # "darwin")
      /\ At("delete") => registered' = FALSE /\ unit' = FALSE
      /\ At("create") => unit' = TRUE /\ registered' = (platform # "darwin")
  BY DEF Stopped, Delete, Create, At
<1>6. /\ At("stopped") => ~At("delete") /\ ~At("create")
      /\ At("delete") => ~At("create") /\ kind # "update"
      /\ At("create") => kind \notin {"update", "uninstall"}
  <2>1. /\ At("stopped") => ~At("delete") /\ ~At("create")
        /\ At("delete") => ~At("create")
    BY DEF At
  <2> QED BY <1>1, <2>1, Where
<1>7. registered' \in BOOLEAN /\ unit' \in BOOLEAN /\ (registered' => unit')
  <2>1. registered \in BOOLEAN /\ unit \in BOOLEAN
    BY <1>1 DEF Types
  <2>2. CASE At("stopped")
    BY <1>1, <1>5, <2>1, <2>2
  <2>3. CASE At("delete")
    BY <1>5, <2>3
  <2>4. CASE At("create")
    BY <1>5, <2>4
  <2> QED BY <1>1, <2>2, <2>3, <2>4
<1>8. RemovalInv'
  BY <1>1, <1>2, <1>4, <1>5, <1>6, RemovalKept
<1> QED BY <1>1, <1>2, <1>3, <1>4, <1>5, <1>6, <1>7, <1>8, PlaceKept DEF Types

(* A Delete or Create that fails halfway on Linux and macOS.                *)
LEMMA HalfStep ==
  ASSUME IInv, DeleteHalf \/ CreateHalf
  PROVE  IInv'
<1>1. /\ Types /\ UnitInv /\ Ends("failed") /\ faults' \in 0..MaxFaults
      /\ UNCHANGED <<platform, proc, asked, upd, attempt, crashes, config, exe, missed>>
  <2>1. Types /\ UnitInv /\ Ends("failed") /\ Fault
    BY DEF IInv, DeleteHalf, CreateHalf
  <2>2. UNCHANGED <<platform, proc, asked, upd, attempt, crashes, config, exe, missed>>
    BY DEF DeleteHalf, CreateHalf, hostVars, diskVars
  <2>3. faults' \in 0..MaxFaults
    BY <2>1, FaultsBounded
  <2> QED BY <2>1, <2>2, <2>3
<1>2. registered' \in BOOLEAN /\ unit' \in BOOLEAN /\ (registered' => unit')
  BY <1>1 DEF DeleteHalf, CreateHalf, Types, UnitInv
<1>3. HostTypeOK'
  BY <1>1 DEF Types, HostTypeOK
<1>4. Types'
  BY <1>1, <1>2, <1>3 DEF Types, Ends
<1> QED BY <1>1, <1>2, <1>4, EndsBadly
-----------------------------------------------------------------------------
(* The initial states satisfy the inductive invariant.                      *)
LEMMA InitInv == Init => IInv
<1> SUFFICES ASSUME Init PROVE IInv
  OBVIOUS
<1>1. HostTypeOK
  <2>1. 0 \in 0..MaxRetries /\ 0 \in 0..MaxCrashes
    BY Params
  <2> QED BY <2>1 DEF Init, HostInit, HostTypeOK
<1>2. Types
  <2>1. 0 \in 0..MaxCommands /\ 0 \in 0..MaxFaults
    BY Params
  <2>2. Absent \in Files
    BY DEF Files
  <2> QED BY <1>1, <2>1, <2>2 DEF Init, Types
<1>3. JobInv /\ FilesInv /\ UnitInv /\ RemovalInv /\ ResultInv
  BY DEF Init, JobInv, FilesInv, UnitInv, RemovalInv, ResultInv
<1> QED BY <1>2, <1>3 DEF IInv

(* The invariant is inductive, and so holds in every reachable state.       *)
THEOREM Invariance == Spec => []IInv
<1>1. IInv /\ [Next]_vars => IInv'
  <2> SUFFICES ASSUME IInv, [Next]_vars PROVE IInv'
    OBVIOUS
  <2>1. ASSUME NEW k \in Kinds, Run(k) PROVE IInv'
    <3>1. Begins(k, FALSE) /\ UNCHANGED <<platform, proc, asked, upd, attempt, crashes>>
      BY <2>1 DEF Run, hostVars
    <3>2. HostTypeOK'
      BY <3>1 DEF IInv, Types, HostTypeOK
    <3> QED BY <3>1, <3>2, BeginStep
  <2>2. CASE SelfUpdate
    <3>1. Begins("update", TRUE) /\ UNCHANGED <<platform, proc, asked, attempt, crashes>>
      BY <2>2 DEF SelfUpdate, Launch, Updater
    <3>2. upd' = "wait"
      BY <2>2 DEF SelfUpdate, Launch, Updater
    <3>3. HostTypeOK'
      BY <3>1, <3>2 DEF IInv, Types, HostTypeOK
    <3>4. "update" \in Kinds
      BY DEF Kinds
    <3> QED BY <3>1, <3>3, <3>4, BeginStep
  <2>3. CASE Work
    BY <2>3, LookStep, OpenFailsStep, FileStep, ManagerStep, StopStep, StartStep,
      RemoveProgramStep DEF Work
  <2>4. CASE Faulty
    BY <2>4, LookStep, OpenFailsStep, FileStep, HalfStep DEF Faulty
  <2>5. CASE Process \/ Updates \/ Crashes
    BY <2>5, HostStep
  <2>6. CASE Reboot
    BY <2>6, RebootStep
  <2>7. CASE UNCHANGED vars
    <3>1. /\ UNCHANGED <<platform, proc, asked, upd, attempt, crashes>>
          /\ UNCHANGED <<kind, todo, self, number, outcome, registered, unit>>
          /\ UNCHANGED <<config, exe, missed, faults>>
      BY <2>7 DEF vars, hostVars, jobVars, mgrVars, diskVars
    <3>2. Done' = Done /\ HostTypeOK' /\ Live' = Live
      BY <3>1 DEF Done, IInv, Types, HostTypeOK, Live
    <3> QED BY <3>1, <3>2 DEF IInv, Types, JobInv, FilesInv, UnitInv, RemovalInv, ResultInv,
      Installed, Removed
  <2> QED BY <2>1, <2>2, <2>3, <2>4, <2>5, <2>6, <2>7 DEF Next
<1> QED BY <1>1, InitInv, PTL DEF Spec

(* The steps that are left to a command are a rest of its steps.            *)
LEMMA TodoIsRest ==
  ASSUME Types, JobInv
  PROVE  \E k \in Kinds : \E n \in 0..Len(Steps(k)) :
           /\ todo = SubSeq(Steps(k), n + 1, Len(Steps(k)))
           /\ kind = (IF n = Len(Steps(k)) THEN "none" ELSE k)
<1>1. CASE kind = "none"
  <2>1. Len(Steps("update")) = 7 /\ "update" \in Kinds /\ Steps("update") \in Seq(StepNames)
    BY Lengths DEF Kinds
  <2>2. SubSeq(Steps("update"), 7 + 1, 7) = <<>>
    BY <2>1
  <2>3. todo = <<>> /\ 7 \in 0..7
    BY <1>1 DEF JobInv
  <2> QED BY <1>1, <2>1, <2>2, <2>3
<1>2. CASE kind # "none"
  <2> DEFINE d == Done
             L == Len(Steps(kind))
  <2>1. kind \in Kinds /\ todo = SubSeq(Steps(kind), d + 1, L) /\ d \in 0..(L - 1) /\ L \in Nat
    BY <1>2, NextStep, Lengths DEF Rest
  <2> HIDE DEF d
  <2>2. d \in 0..L /\ d # L
    BY <2>1
  <2> QED BY <2>1, <2>2
<1> QED BY <1>1, <1>2

(* Type correctness: the steps left to a command are a rest of its own.     *)
THEOREM TypeCorrect == Spec => []TypeOK
<1>1. IInv => TypeOK
  BY TodoIsRest DEF IInv, Types, TypeOK
<1> QED BY <1>1, Invariance, PTL

(* Whatever failed in earlier commands and whatever the service process     *)
(* does meanwhile: a config or update command that reports success has put  *)
(* its own config.json and executable in place, and the service is known.   *)
THEOREM SuccessInstalls == Spec => []SuccessMeansInstalled
<1>1. IInv => SuccessMeansInstalled
  BY DEF IInv, ResultInv, Installed, Removed, SuccessMeansInstalled
<1> QED BY <1>1, Invariance, PTL

(* An uninstall that reports success leaves no file and no registration,    *)
(* and no process that IsActive had not denied: Stop keeps the manager from *)
(* restarting what it stopped.                                              *)
THEOREM UninstallRemoves == Spec => []UninstallComplete
<1>1. IInv => UninstallComplete
  BY Params DEF IInv, Types, ResultInv, Installed, Removed, UninstallComplete, Live
<1> QED BY <1>1, Invariance, PTL
=============================================================================
