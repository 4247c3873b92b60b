---------------------- MODULE NotifierSupervisor_proofs ----------------------
(* The inductive invariant of NotifierSupervisor and the theorems that      *)
(* follow.                                                                  *)
EXTENDS NotifierSupervisor, InductionLemmas

(* mu is held across a launch and nowhere else.  During the launch nothing  *)
(* can be killed a second time: there is no handle, no subprocess, and Kill *)
(* has not run.                                                             *)
LaunchInv ==
    /\ \A a \in Actors : pc[a] = "launching" <=> mu = a
    /\ pc[Monitor] \in {"idle", "launching"}
    /\ mu # None => handle = None /\ ~closed

(* One subprocess at most, the one of the handle, and go-plugin has observed *)
(* no exit of a subprocess that runs.                                       *)
ProcessInv ==
    /\ running \subseteq {handle}
    /\ running \cap noticed = {}
    /\ closed => running = {} /\ handle = None

(* The schedule is where the launches since its reset have brought it, and  *)
(* what has not been waited yet is in wait.                                 *)
ScheduleInv ==
    /\ backoff = Delay[streak + 1]
    /\ wait + since >= Delay[streak]

IInv == TypeOK /\ LaunchInv /\ ProcessInv /\ ScheduleInv
-----------------------------------------------------------------------------
(* The assumptions on the constants, as the steps below use them.           *)
LEMMA Params ==
    /\ Base \in Nat \ {0} /\ Limit \in Nat \ {0} /\ Stable \in Nat \ {0}
    /\ Base <= Limit
    /\ None \notin Handles /\ None \notin Actors
    /\ Monitor \in Actors /\ Monitor \notin Callers /\ Callers \subseteq Actors
BY ActorsAssumption, HandlesAssumption, TimesAssumption DEF Actors

(* The delays: the first is Base, each is the double of the one before, up  *)
(* to Limit, where they stay.                                               *)
LEMMA FirstDelays == Delay[0] = 0 /\ Delay[1] = Base
<1>1. 2 ^ 0 = 1 OBVIOUS
<1> QED BY <1>1, Params DEF Delay, Lesser

LEMMA NextDelay ==
  ASSUME NEW k \in Nat \ {0}
  PROVE  /\ Delay[k] \in Base..Limit
         /\ Delay[k + 1] = Lesser(2 * Delay[k], Limit)
<1> DEFINE p == 2 ^ (k - 1)
<1>1. k - 1 \in Nat /\ (k - 1) + 1 = k OBVIOUS
<1>2. p \in Nat /\ p > k - 1 /\ 2 ^ k = 2 * p
  BY <1>1, PowerOfTwo, PowerGrows
<1>3. Delay[k] = Lesser(Base * p, Limit) BY DEF Delay
<1>4. Delay[k + 1] = Lesser(Base * 2 ^ k, Limit)
  BY k + 1 \in Nat, k + 1 # 0, (k + 1) - 1 = k DEF Delay
<1> HIDE DEF p
<1>5. Base * p >= Base /\ Base * p \in Nat /\ Base * (2 * p) = 2 * (Base * p)
  BY <1>1, <1>2, Params
<1> QED BY <1>2, <1>3, <1>4, <1>5, Params DEF Lesser

(* The schedule reaches its limit, in at most Limit + 1 steps.              *)
LEMMA StreakLimit ==
    /\ MaxStreak \in Nat \ {0}
    /\ Delay[MaxStreak] = Limit
<1> DEFINE K == {k \in Nat \ {0} : Delay[k] = Limit}
<1>1. Limit + 1 \in K
  <2>1. 2 ^ Limit \in Nat /\ 2 ^ Limit > Limit
    BY Params, PowerOfTwo, PowerGrows
  <2>2. Delay[Limit + 1] = Lesser(Base * 2 ^ Limit, Limit)
    BY Params, Limit + 1 \in Nat, Limit + 1 # 0, (Limit + 1) - 1 = Limit
    DEF Delay
  <2>3. Base * 2 ^ Limit >= 2 ^ Limit /\ Base * 2 ^ Limit \in Nat
    BY <2>1, Params
  <2>4. Delay[Limit + 1] = Limit BY <2>1, <2>2, <2>3, Params DEF Lesser
  <2> QED BY <2>4, Params
<1>2. PICK k \in K : \A j \in K : k <= j
  BY <1>1, LeastNat, K \in SUBSET Nat, K # {}
<1>3. k \in 1..(Limit + 1) BY <1>1, <1>2, Params
<1>4. ASSUME NEW j \in 1..(k - 1) PROVE Delay[j] < Limit
  <2>1. j \notin K /\ j \in Nat \ {0} BY <1>2
  <2>2. Delay[j] \in Base..Limit BY <2>1, NextDelay
  <2> QED BY <2>1, <2>2, Params
<1>5. \E i \in 1..(Limit + 1) :
         Delay[i] = Limit /\ \A j \in 1..(i - 1) : Delay[j] < Limit
  BY <1>2, <1>3, <1>4
<1>6. MaxStreak \in 1..(Limit + 1) /\ Delay[MaxStreak] = Limit
  BY <1>5 DEF MaxStreak
<1> QED BY <1>6, Params

(* No delay is longer than a later one of a launch.                         *)
LEMMA AtTheLimit == Delay[MaxStreak + 1] = Limit /\ Delay[MaxStreak + 2] = Limit
<1>1. Delay[MaxStreak + 1] = Lesser(2 * Limit, Limit)
  BY StreakLimit, NextDelay
<1>2. Delay[MaxStreak + 1] = Limit BY <1>1, Params DEF Lesser
<1>3. MaxStreak + 1 \in Nat \ {0} /\ (MaxStreak + 1) + 1 = MaxStreak + 2
  BY StreakLimit
<1>4. Delay[MaxStreak + 2] = Lesser(2 * Limit, Limit)
  BY <1>2, <1>3, NextDelay
<1> QED BY <1>2, <1>4, Params DEF Lesser
-----------------------------------------------------------------------------
(* The delays the schedule can hold, with the number of launches saturated  *)
(* as the model saturates it.                                               *)
LEMMA ScheduleTypes ==
  ASSUME TypeOK
  PROVE  /\ streak \in Nat /\ streak <= MaxStreak + 1
         /\ Delay[streak] \in 0..Limit
         /\ Delay[streak + 1] \in Base..Limit
         /\ Delay[streak + 2] = Lesser(2 * Delay[streak + 1], Limit)
         /\ streak = MaxStreak + 1 =>
               Delay[streak] = Limit /\ Delay[streak + 1] = Limit
<1>1. streak \in Nat /\ streak <= MaxStreak + 1
  BY StreakLimit DEF TypeOK
<1>2. Delay[streak] \in 0..Limit
  <2>1. CASE streak = 0 BY <2>1, FirstDelays, Params
  <2>2. CASE streak # 0 BY <1>1, <2>2, NextDelay, Params
  <2> QED BY <2>1, <2>2
<1>3. streak + 1 \in Nat \ {0} /\ (streak + 1) + 1 = streak + 2 BY <1>1
<1>4. streak = MaxStreak + 1 => streak + 1 = MaxStreak + 2
  BY StreakLimit
<1> QED BY <1>1, <1>2, <1>3, <1>4, NextDelay, AtTheLimit

(* Every step keeps the types.                                              *)
LEMMA TypeStep ==
  ASSUME IInv, [Next]_vars
  PROVE  TypeOK'
<1> USE Params, StreakLimit DEF IInv, TypeOK, LaunchInv, ProcessInv, Goto, vars,
    schedule, procs, history, Actors
<1>1. ASSUME NEW a \in Actors, Restart(a) PROVE TypeOK'
  BY <1>1 DEF Restart, Enters, Dead, Charge, CleanSlate, DropLocked, Lesser
<1>2. ASSUME NEW a \in Actors, Launched(a) PROVE TypeOK'
  BY <1>2 DEF Launched, BeginCall
<1>3. ASSUME NEW a \in Actors, LaunchFails(a) PROVE TypeOK'
  BY <1>3 DEF LaunchFails
<1>4. ASSUME NEW c \in Callers, Notify(c) PROVE TypeOK'
  BY <1>4 DEF Notify, Enters, BeginCall
<1>5. ASSUME NEW c \in Callers, Answered(c) PROVE TypeOK'
  BY <1>5 DEF Answered
<1>6. ASSUME NEW c \in Callers, Broken(c) PROVE TypeOK'
  BY <1>6 DEF Broken
<1>7. ASSUME NEW c \in Callers, Drop(c) PROVE TypeOK'
  BY <1>7 DEF Drop, DropLocked
<1>8. ASSUME NEW c \in Callers, RecordFailure(c) PROVE TypeOK'
  BY <1>8 DEF RecordFailure
<1>9. ASSUME NEW c \in Callers, RecordSuccess(c) PROVE TypeOK'
  <2>1. pc' = [pc EXCEPT ![c] = "idle"] /\ rpc' = [rpc EXCEPT ![c] = None]
    BY <1>9 DEF RecordSuccess
  <2>2. backoff' \in Base..Limit /\ wait' \in 0..Limit
        /\ streak' \in 0..(MaxStreak + 1)
    BY <1>9 DEF RecordSuccess
  <2>3. pc' \in [Actors -> {"idle", "launching", "calling", "broken", "failed",
                             "succeeded"}]
        /\ rpc' \in [Callers -> Handles \cup {None}]
    BY <2>1
  <2>4. UNCHANGED <<mu, closed, handle, age, running, noticed, since, uptime>>
        /\ failing' = FALSE
    BY <1>9 DEF RecordSuccess
  <2> HIDE DEF LaunchInv, ProcessInv
  <2> QED BY <2>2, <2>3, <2>4
<1>10. CASE Kill BY <1>10 DEF Kill, DropLocked
<1>11. CASE Dies BY <1>11 DEF Dies
<1>12. CASE ExitNoticed BY <1>12 DEF ExitNoticed
<1>13. CASE Tick BY <1>13 DEF Tick, Lesser
<1>14. CASE UNCHANGED vars BY <1>14
<1> QED
  BY <1>1, <1>2, <1>3, <1>4, <1>5, <1>6, <1>7, <1>8, <1>9, <1>10, <1>11, <1>12,
     <1>13, <1>14 DEF Next, Record

(* Only the actor that holds mu ends its launch, and nobody else enters      *)
(* meanwhile.                                                               *)
LEMMA LaunchStep ==
  ASSUME IInv, [Next]_vars
  PROVE  LaunchInv'
<1> USE Params DEF IInv, TypeOK, LaunchInv, Goto, vars, schedule, procs, history,
    Actors
<1>1. ASSUME NEW a \in Actors, Restart(a) PROVE LaunchInv'
  BY <1>1 DEF Restart, Enters, DropLocked
<1>2. ASSUME NEW a \in Actors, Launched(a) PROVE LaunchInv'
  BY <1>2 DEF Launched, BeginCall
<1>3. ASSUME NEW a \in Actors, LaunchFails(a) PROVE LaunchInv'
  BY <1>3 DEF LaunchFails
<1>4. ASSUME NEW c \in Callers, Notify(c) PROVE LaunchInv'
  BY <1>4 DEF Notify, Enters, BeginCall
<1>5. ASSUME NEW c \in Callers, Answered(c) PROVE LaunchInv'
  BY <1>5 DEF Answered
<1>6. ASSUME NEW c \in Callers, Broken(c) PROVE LaunchInv'
  BY <1>6 DEF Broken
<1>7. ASSUME NEW c \in Callers, Drop(c) PROVE LaunchInv'
  BY <1>7 DEF Drop, DropLocked
<1>8. ASSUME NEW c \in Callers, RecordFailure(c) PROVE LaunchInv'
  BY <1>8 DEF RecordFailure
<1>9. ASSUME NEW c \in Callers, RecordSuccess(c) PROVE LaunchInv'
  BY <1>9 DEF RecordSuccess
<1>10. CASE Kill BY <1>10 DEF Kill, DropLocked
<1>11. CASE Dies BY <1>11 DEF Dies
<1>12. CASE ExitNoticed BY <1>12 DEF ExitNoticed
<1>13. CASE Tick BY <1>13 DEF Tick
<1>14. CASE UNCHANGED vars BY <1>14
<1> QED
  BY <1>1, <1>2, <1>3, <1>4, <1>5, <1>6, <1>7, <1>8, <1>9, <1>10, <1>11, <1>12,
     <1>13, <1>14 DEF Next, Record

(* A launch starts one subprocess when there is none; every other step only *)
(* ends some.                                                               *)
LEMMA ProcessStep ==
  ASSUME IInv, [Next]_vars
  PROVE  ProcessInv'
<1> USE Params DEF IInv, TypeOK, LaunchInv, ProcessInv, vars, schedule, procs,
    history
<1>1. ASSUME NEW a \in Actors, Restart(a) PROVE ProcessInv'
  BY <1>1 DEF Restart, Enters, DropLocked
<1>2. ASSUME NEW a \in Actors, Launched(a) PROVE ProcessInv'
  BY <1>2 DEF Launched
<1>3. ASSUME NEW a \in Actors, LaunchFails(a) PROVE ProcessInv'
  BY <1>3 DEF LaunchFails
<1>4. ASSUME NEW c \in Callers, Notify(c) PROVE ProcessInv'
  BY <1>4 DEF Notify
<1>5. ASSUME NEW c \in Callers, Answered(c) PROVE ProcessInv'
  BY <1>5 DEF Answered
<1>6. ASSUME NEW c \in Callers, Broken(c) PROVE ProcessInv'
  BY <1>6 DEF Broken
<1>7. ASSUME NEW c \in Callers, Drop(c) PROVE ProcessInv'
  BY <1>7 DEF Drop, DropLocked
<1>8. ASSUME NEW c \in Callers, RecordFailure(c) PROVE ProcessInv'
  BY <1>8 DEF RecordFailure
<1>9. ASSUME NEW c \in Callers, RecordSuccess(c) PROVE ProcessInv'
  BY <1>9 DEF RecordSuccess
<1>10. CASE Kill BY <1>10 DEF Kill, DropLocked
<1>11. CASE Dies BY <1>11 DEF Dies
<1>12. CASE ExitNoticed BY <1>12 DEF ExitNoticed
<1>13. CASE Tick BY <1>13 DEF Tick
<1>14. CASE UNCHANGED vars BY <1>14
<1> QED
  BY <1>1, <1>2, <1>3, <1>4, <1>5, <1>6, <1>7, <1>8, <1>9, <1>10, <1>11, <1>12,
     <1>13, <1>14 DEF Next, Record

(* A launch is charged the delay of its place in the schedule; only a        *)
(* success and a clean slate go back to its start.                          *)
LEMMA ScheduleStep ==
  ASSUME IInv, [Next]_vars
  PROVE  ScheduleInv'
<1>0. IInv /\ TypeOK /\ ScheduleInv BY DEF IInv
<1>1. ASSUME NEW a \in Actors, Restart(a) PROVE ScheduleInv'
  <2>1. since' = 0 BY <1>1 DEF Restart
  <2>2. CASE CleanSlate
    <3>1. streak' = 1 /\ wait' = Base /\ backoff' = Lesser(2 * Base, Limit)
      BY <1>1, <2>2 DEF Restart, Charge
    <3>2. Delay[1 + 1] = Lesser(2 * Base, Limit)
      BY FirstDelays, NextDelay, 1 \in Nat \ {0}
    <3> QED BY <2>1, <3>1, <3>2, FirstDelays, Params DEF ScheduleInv
  <2>3. CASE ~CleanSlate
    <3>1. /\ streak' = Lesser(streak + 1, MaxStreak + 1)
          /\ wait' = backoff /\ backoff' = Lesser(2 * backoff, Limit)
      BY <1>1, <2>3 DEF Restart, Charge
    <3>2. CASE streak < MaxStreak + 1
      <4>1. streak' = streak + 1
        BY <1>0, <3>1, <3>2, ScheduleTypes, StreakLimit DEF Lesser
      <4>2. streak' + 1 = streak + 2 BY <1>0, <4>1, ScheduleTypes
      <4> QED
        BY <1>0, <2>1, <3>1, <4>1, <4>2, ScheduleTypes, Params
        DEF ScheduleInv
    <3>3. CASE streak = MaxStreak + 1
      <4>1. streak' = streak
        BY <1>0, <3>1, <3>3, ScheduleTypes, StreakLimit DEF Lesser
      <4>2. backoff = Limit BY <1>0, <3>3, ScheduleTypes DEF ScheduleInv
      <4>3. backoff' = Limit /\ wait' = Limit
        BY <3>1, <4>2, Params DEF Lesser
      <4> QED BY <1>0, <2>1, <3>3, <4>1, <4>3, ScheduleTypes, Params
          DEF ScheduleInv
    <3> QED BY <1>0, <3>2, <3>3, ScheduleTypes, StreakLimit
  <2> QED BY <2>2, <2>3
<1>2. ASSUME NEW c \in Callers, RecordSuccess(c) PROVE ScheduleInv'
  BY <1>0, <1>2, FirstDelays DEF RecordSuccess, ScheduleInv, TypeOK
<1>3. CASE Tick
  <2>1. streak' = streak /\ backoff' = backoff BY <1>3 DEF Tick
  <2>2. /\ wait' = IF wait > 0 THEN wait - 1 ELSE 0
        /\ since' = Lesser(since + 1, Limit)
    BY <1>3 DEF Tick
  <2> QED BY <1>0, <2>1, <2>2, ScheduleTypes, Params
      DEF ScheduleInv, TypeOK, Lesser
<1>4. ASSUME UNCHANGED <<backoff, wait, since, streak>> PROVE ScheduleInv'
  BY <1>0, <1>4 DEF ScheduleInv
<1>5. ASSUME NEW a \in Actors, Launched(a) \/ LaunchFails(a)
      PROVE  UNCHANGED <<backoff, wait, since, streak>>
  BY <1>5 DEF Launched, LaunchFails, schedule, history
<1>6. ASSUME NEW c \in Callers,
             Notify(c) \/ Answered(c) \/ Broken(c) \/ Drop(c) \/ RecordFailure(c)
      PROVE  UNCHANGED <<backoff, wait, since, streak>>
  BY <1>6 DEF Notify, Answered, Broken, Drop, RecordFailure, schedule, history
<1>7. ASSUME Kill \/ Dies \/ ExitNoticed \/ UNCHANGED vars
      PROVE  UNCHANGED <<backoff, wait, since, streak>>
  BY <1>7 DEF Kill, Dies, ExitNoticed, schedule, history, vars
<1> QED
  BY <1>1, <1>2, <1>3, <1>4, <1>5, <1>6, <1>7 DEF Next, Record
-----------------------------------------------------------------------------
LEMMA InitInv == Init => IInv
<1> SUFFICES ASSUME Init PROVE IInv OBVIOUS
<1>1. TypeOK
  <2>1. /\ backoff \in Base..Limit /\ wait \in 0..Limit /\ age \in 0..Stable
        /\ since \in 0..Limit /\ streak \in 0..(MaxStreak + 1)
        /\ uptime \in 0..Stable
    BY Params, StreakLimit DEF Init
  <2>2. /\ pc \in [Actors -> {"idle", "launching", "calling", "broken", "failed",
                              "succeeded"}]
        /\ rpc \in [Callers -> Handles \cup {None}]
    BY DEF Init
  <2> QED BY <2>1, <2>2 DEF Init, TypeOK
<1>2. LaunchInv BY Params DEF Init, LaunchInv
<1>3. ProcessInv BY Params DEF Init, ProcessInv
<1>4. ScheduleInv BY Params, FirstDelays DEF Init, ScheduleInv
<1> QED BY <1>1, <1>2, <1>3, <1>4 DEF IInv

(* The invariant is inductive: it holds in every reachable state.           *)
THEOREM Invariance == Spec => []IInv
<1>1. ASSUME IInv, [Next]_vars PROVE IInv'
  BY <1>1, TypeStep, LaunchStep, ProcessStep, ScheduleStep DEF IInv
<1> QED BY <1>1, InitInv, PTL DEF Spec

(* The handle, the lock, the schedule and the calls are well typed: a delay *)
(* of the schedule is between restartBaseBackoff and restartMaxBackoff.     *)
THEOREM TypeCorrect == Spec => []TypeOK
<1>1. IInv => TypeOK BY DEF IInv
<1> QED BY <1>1, Invariance, PTL

(* optionalNotifierWrapper.Kill is final: whatever launch or delivery runs  *)
(* beside it, no subprocess runs afterwards.                                *)
THEOREM KillIsFinal == Spec => []NoProcessAfterKill
<1>1. IInv => NoProcessAfterKill BY DEF IInv, ProcessInv, NoProcessAfterKill
<1> QED BY <1>1, Invariance, PTL

(* A relaunch leaves no older subprocess behind: the one that runs is the   *)
(* one that dropLocked and Kill will end.                                   *)
THEOREM NoneLeftBehind == Spec => []NoOrphan
<1>1. IInv => NoOrphan BY DEF IInv, ProcessInv, NoOrphan
<1> QED BY <1>1, Invariance, PTL

(* Notify drops the handle of its own call only: a subprocess that runs     *)
(* loses its handle by the failure of a call on it, or by Kill.  A relaunch *)
(* drops only a handle whose exit was observed.                             *)
THEOREM OwnHandleDropped == Spec => OwnHandleOnly
<1>1. ASSUME IInv, [Next]_vars, NEW g \in running, handle = g, handle' = None
      PROVE  closed' \/ \E c \in Callers : pc[c] = "broken" /\ rpc[c] = g
  <2>0. g # None /\ g \notin noticed
    BY <1>1, Params DEF IInv, TypeOK, ProcessInv
  <2>1. ASSUME NEW a \in Actors, Restart(a) PROVE FALSE
    BY <1>1, <2>0, <2>1 DEF Restart, Dead
  <2>2. ASSUME NEW a \in Actors, Launched(a) PROVE FALSE
    BY <1>1, <2>2, Params DEF Launched
  <2>3. ASSUME NEW a \in Actors, LaunchFails(a) PROVE FALSE
    BY <1>1, <2>0, <2>3 DEF LaunchFails
  <2>4. ASSUME NEW c \in Callers,
               Notify(c) \/ Answered(c) \/ Broken(c) \/ RecordFailure(c)
               \/ RecordSuccess(c)
        PROVE  FALSE
    BY <1>1, <2>0, <2>4 DEF Notify, Answered, Broken, RecordFailure, RecordSuccess
  <2>5. ASSUME NEW c \in Callers, Drop(c)
        PROVE  pc[c] = "broken" /\ rpc[c] = g
    BY <1>1, <2>0, <2>5 DEF Drop
  <2>6. CASE Kill BY <2>6 DEF Kill
  <2>7. ASSUME Dies \/ ExitNoticed \/ Tick \/ UNCHANGED vars PROVE FALSE
    BY <1>1, <2>0, <2>7 DEF Dies, ExitNoticed, Tick, vars
  <2> QED
    BY <1>1, <2>1, <2>2, <2>3, <2>4, <2>5, <2>6, <2>7 DEF Next, Record
<1>2. IInv /\ [Next]_vars
        => [\A g \in running : (handle = g /\ handle' = None) =>
              closed' \/ \E c \in Callers : pc[c] = "broken" /\ rpc[c] = g]_vars
  BY <1>1
<1> QED BY <1>2, Invariance, PTL DEF Spec, OwnHandleOnly

(* restartLocked: two launches without a success or a stable run between    *)
(* them are apart by the delay of the first one's place in the schedule,    *)
(* for all values of the base, the limit and the stability window.          *)
THEOREM LaunchesApart == Spec => RestartsBackedOff
<1>1. ASSUME IInv, [Next]_vars, NEW a \in Actors, pc[a] = "idle",
             pc'[a] = "launching"
      PROVE  since >= Delay[streak' - 1]
  <2>0. TypeOK /\ ScheduleInv BY <1>1 DEF IInv
  <2>1. PICK b \in Actors : Restart(b)
    <3> USE <1>1, Params DEF Goto, TypeOK, IInv, LaunchInv, Actors
    <3>1. ASSUME NEW b \in Actors, Launched(b) \/ LaunchFails(b) PROVE FALSE
      BY <3>1 DEF Launched, LaunchFails, BeginCall
    <3>2. ASSUME NEW c \in Callers,
                 Notify(c) \/ Answered(c) \/ Broken(c) \/ Record(c)
          PROVE  FALSE
      BY <3>2 DEF Notify, Answered, Broken, Record, Drop, RecordFailure,
         RecordSuccess, BeginCall
    <3>3. ASSUME Kill \/ Dies \/ ExitNoticed \/ Tick \/ UNCHANGED vars
          PROVE FALSE
      BY <3>3 DEF Kill, Dies, ExitNoticed, Tick, vars
    <3> QED BY <3>1, <3>2, <3>3 DEF Next
  <2>2. CASE CleanSlate
    <3>1. streak' - 1 = 0 BY <2>1, <2>2 DEF Restart
    <3> QED BY <2>0, <3>1, FirstDelays DEF TypeOK
  <2>3. CASE ~CleanSlate
    <3>1. wait = 0 /\ streak' = Lesser(streak + 1, MaxStreak + 1)
      BY <2>1, <2>3 DEF Restart, MayRestart
    <3>2. since >= Delay[streak]
      BY <2>0, <3>1, ScheduleTypes DEF ScheduleInv, TypeOK
    <3>3. CASE streak' = streak + 1
      BY <2>0, <3>2, <3>3, ScheduleTypes
    <3>4. CASE streak = MaxStreak + 1 /\ streak' = MaxStreak + 1
      BY <2>0, <3>2, <3>4, ScheduleTypes, StreakLimit
    <3> QED BY <2>0, <3>1, <3>3, <3>4, ScheduleTypes, StreakLimit DEF Lesser
  <2> QED BY <2>2, <2>3
<1>2. IInv /\ [Next]_vars
        => [(\E a \in Actors : pc[a] = "idle" /\ pc'[a] = "launching")
              => since >= Delay[streak' - 1]]_vars
  BY <1>1
<1> QED BY <1>2, Invariance, PTL DEF Spec, RestartsBackedOff
=============================================================================
