--------------------------- MODULE PostbackSpool ---------------------------
(***************************************************************************)
(* The way of a command result from the worker to the engine:              *)
(* sendPostbackWithRetry and its retry loop (cmd/agent_smith/service.go),  *)
(* the spool directory with its lock, pruning and atomic write, and the    *)
(* flush that each connection starts and never joins                       *)
(* (cmd/agent_smith/postback_spool.go).                                    *)
(*                                                                         *)
(* A result stands for one executed command with a post_id; at most one    *)
(* spool file is ever made for it, so the file is named by the result.     *)
(* File names sort by creation time: born gives that order.  A worker      *)
(* handles one result; all results may be handled at the same time.  The   *)
(* counter droppedTotal is output only and is left out.                    *)
(***************************************************************************)
EXTENDS Naturals, FiniteSets

CONSTANTS
    Results,       \* the results of the commands that are executed
    Answers,       \* the engine's answers to consider, [status, body]
    Flushes,       \* goroutines that may run flush at the same time (a bound)
    MaxEntries,    \* the spool's maxEntries
    MaxAttempts,   \* PostbackMaxAttempts
    MaxCrashes,    \* bound on the crashes of the process
    MaxStuck,      \* bound on the entries that os.Remove fails for
    None           \* no result

ASSUME ResultsAssumption == IsFiniteSet(Results) /\ None \notin Results
ASSUME AnswersAssumption ==
    Answers \subseteq [status : 200..599, body : {"empty", "text", "error", "fulfilled"}]
ASSUME BoundsAssumption ==
    /\ MaxEntries \in Nat \ {0}
    /\ MaxAttempts \in Nat \ {0}
    /\ MaxCrashes \in Nat /\ MaxStuck \in Nat

VARIABLES
    online,      \* the context of the current cycle is not cancelled
    stage,       \* per result: where its worker stands
    tries,       \* per result: attempts made by sendPostbackWithRetry
    lock,        \* the result whose worker holds mu, or None
    victims,     \* entries the holder of mu has still to remove
    born,        \* per result: rank of its CreatedAt, 0 before
    dir,         \* results with a .json file in the spool directory
    tmp,         \* results with a .json.tmp file
    whole,       \* results whose file holds all its data
    expired,     \* results whose CreatedAt is older than maxAge
    stuck,       \* results whose file could not be removed once
    flush,       \* per flush: its state
    crashes,     \* number of crashes so far
    resolved,    \* history: results for which attemptPostback was done
    discarded,   \* history: entries removed for capacity or age
    abandoned    \* history: results given up on cancellation, on a failed
                 \* write, or by a crash

workVars == <<stage, tries, lock, victims, born>>
dirVars  == <<dir, tmp, whole, stuck>>
envVars  == <<online, expired, crashes>>
history  == <<resolved, discarded, abandoned>>
vars     == <<envVars, workVars, dirVars, flush, history>>

Stages == {"ready", "attempt", "backoff", "exhausted", "waiting", "pruning",
           "writing", "renaming", "done"}
FlushStages == {"idle", "listing", "next", "delivering", "removing"}
NoFlush == [at |-> "idle", live |-> FALSE, todo |-> {}, cut |-> {}, cur |-> None]

TypeOK ==
    /\ online \in BOOLEAN
    /\ stage \in [Results -> Stages]
    /\ tries \in [Results -> 0..MaxAttempts]
    /\ lock \in Results \cup {None}
    /\ victims \subseteq Results
    /\ born \in [Results -> 0..Cardinality(Results)]
    /\ dir \subseteq Results /\ tmp \subseteq Results /\ whole \subseteq Results
    /\ expired \subseteq Results /\ stuck \subseteq Results
    /\ flush \in [Flushes -> [at : FlushStages, live : BOOLEAN, todo : SUBSET Results,
                              cut : SUBSET Results, cur : Results \cup {None}]]
    /\ crashes \in 0..MaxCrashes
    /\ resolved \subseteq Results
    /\ discarded \subseteq Results /\ abandoned \subseteq Results

Older(r, s) == born[r] < born[s]

(* The k oldest results of S. *)
Oldest(S, k) == {r \in S : Cardinality({s \in S : Older(s, r)}) < k}

Busy(r) == stage[r] \notin {"ready", "done"}
-----------------------------------------------------------------------------
Init ==
    /\ online = FALSE
    /\ stage = [r \in Results |-> "ready"] /\ tries = [r \in Results |-> 0]
    /\ lock = None /\ victims = {} /\ born = [r \in Results |-> 0]
    /\ dir = {} /\ tmp = {} /\ whole = {} /\ expired = {} /\ stuck = {}
    /\ flush = [f \in Flushes |-> NoFlush]
    /\ crashes = 0
    /\ resolved = {} /\ discarded = {} /\ abandoned = {}
-----------------------------------------------------------------------------
(* The connection cycle, as far as the postbacks see it. *)

(* runCycle after the SUBACK: the flush gets a goroutine of its own.  The  *)
(* workers of the cycle before were joined, its flush was not.  Mutant: no *)
(* flush is started.                                                       *)
GoOnlineOnly ==
    /\ ~online /\ \A r \in Results : ~Busy(r)
    /\ online' = TRUE
    /\ UNCHANGED <<workVars, dirVars, flush, expired, crashes, history>>
GoOnline ==
    /\ ~online /\ \A r \in Results : ~Busy(r)
    /\ online' = TRUE
    /\ \E f \in Flushes :
         /\ flush[f].at = "idle"
         /\ flush' = [flush EXCEPT ![f] = [NoFlush EXCEPT !.at = "listing", !.live = TRUE]]
    /\ UNCHANGED <<workVars, dirVars, expired, crashes, history>>

(* The cycle ends, cycleCtx is cancelled. *)
EndCycle ==
    /\ online
    /\ online' = FALSE
    /\ flush' = [f \in Flushes |-> [flush[f] EXCEPT !.live = FALSE]]
    /\ UNCHANGED <<workVars, dirVars, expired, crashes, history>>

(* The process dies and is started again: files stay, all else is gone.    *)
Crash ==
    /\ crashes < MaxCrashes
    /\ crashes' = crashes + 1
    /\ online' = FALSE
    /\ stage' = [r \in Results |-> IF Busy(r) THEN "done" ELSE stage[r]]
    /\ abandoned' = abandoned \cup {r \in Results : Busy(r)}
    /\ lock' = None /\ victims' = {}
    /\ flush' = [f \in Flushes |-> NoFlush]
    /\ UNCHANGED <<tries, born, dirVars, expired, resolved, discarded>>

(* maxAge passes; an older entry has expired before. *)
Age(r) ==
    /\ born[r] > 0 /\ r \notin expired
    /\ \A s \in Results : (born[s] > 0 /\ Older(s, r)) => s \in expired
    /\ expired' = expired \cup {r}
    /\ UNCHANGED <<online, crashes, workVars, dirVars, flush, history>>
-----------------------------------------------------------------------------
(* attemptPostback. *)

(* The body parses as errorResponse. *)
Parses(a) == a.body \in {"error", "fulfilled"}

(* No further retry: 200, 400 with "fulfilled", and any other answer below *)
(* 500 whose body parses.                                                  *)
Done(a) == a.status = 200 \/ (Parses(a) /\ a.status < 500)

(* An answer that ends the attempts for r has been read.  A request that   *)
(* cannot even be created does the same as one the engine refuses.         *)
AnsweredDone(r) ==
    (\E a \in Answers : Done(a)) /\ resolved' = resolved \cup {r}

(* An answer that asks for a retry has been read, or the request or the    *)
(* reading of its answer has failed.                                       *)
AnsweredRetry(r) == UNCHANGED resolved
-----------------------------------------------------------------------------
(* sendPostbackWithRetry. *)

Goto(r, s) == stage' = [stage EXCEPT ![r] = s]

(* A command has run, its result is to be posted. *)
Start(r) ==
    /\ online /\ stage[r] = "ready"
    /\ Goto(r, "attempt") /\ tries' = [tries EXCEPT ![r] = 1]
    /\ UNCHANGED <<envVars, lock, victims, born, dirVars, flush, history>>

PostDone(r) ==
    /\ stage[r] = "attempt"
    /\ AnsweredDone(r)
    /\ Goto(r, "done")
    /\ UNCHANGED <<envVars, tries, lock, victims, born, dirVars, flush, discarded, abandoned>>

(* The loop runs once more.  Mutant: off by one. *)
OneMoreAttempt(r) == tries[r] <= MaxAttempts
MayRetry(r) == tries[r] < MaxAttempts

PostRetry(r) ==
    /\ stage[r] = "attempt"
    /\ AnsweredRetry(r)
    /\ Goto(r, IF MayRetry(r) THEN "backoff" ELSE "exhausted")
    /\ UNCHANGED <<envVars, tries, lock, victims, born, dirVars, flush, discarded, abandoned>>

BackoffElapsed(r) ==
    /\ stage[r] = "backoff"
    /\ Goto(r, "attempt") /\ tries' = [tries EXCEPT ![r] = @ + 1]
    /\ UNCHANGED <<envVars, lock, victims, born, dirVars, flush, history>>

(* ctx.Done in the backoff: the result is given up, not spooled. *)
BackoffCancelled(r) ==
    /\ stage[r] = "backoff" /\ ~online
    /\ Goto(r, "done") /\ abandoned' = abandoned \cup {r}
    /\ UNCHANGED <<envVars, tries, lock, victims, born, dirVars, flush, resolved, discarded>>

(* All attempts failed: AgentPostbackFailed is notified, the entry gets its *)
(* CreatedAt, and enqueue asks for mu.                                     *)
CallEnqueue(r) ==
    /\ stage[r] = "exhausted"
    /\ Goto(r, "waiting")
    /\ born' = [born EXCEPT ![r] = 1 + Cardinality({s \in Results : born[s] > 0})]
    /\ UNCHANGED <<envVars, tries, lock, victims, dirVars, flush, history>>
-----------------------------------------------------------------------------
(* postbackSpool.enqueue, under mu. *)

(* pruneLocked(maxEntries - 1): the expired entries, then the oldest of the *)
(* others until there is room for one more.  Mutants: the room for the new *)
(* entry is forgotten; the newest are evicted.                             *)
SurplusOfFull(n) == IF n > MaxEntries THEN n - MaxEntries ELSE 0
Surplus(n) == IF n > MaxEntries - 1 THEN n - (MaxEntries - 1) ELSE 0
PruneNewest ==
    LET fresh == dir \ expired
        keep == Oldest(fresh, Cardinality(fresh) - Surplus(Cardinality(fresh)))
    IN  (dir \cap expired) \cup (fresh \ keep)
ToPrune ==
    LET fresh == dir \ expired
    IN  (dir \cap expired) \cup Oldest(fresh, Surplus(Cardinality(fresh)))

Lock(r) ==
    /\ stage[r] = "waiting" /\ lock = None
    /\ lock' = r /\ victims' = ToPrune
    /\ Goto(r, "pruning")
    /\ UNCHANGED <<envVars, tries, born, dirVars, flush, history>>

(* removeLocked; a flush may have taken the file before. *)
Prune(r) ==
    /\ stage[r] = "pruning"
    /\ \E v \in Oldest(victims, 1) :
         /\ victims' = victims \ {v}
         /\ dir' = dir \ {v} /\ whole' = whole \ {v}
         /\ discarded' = IF v \in dir THEN discarded \cup {v} ELSE discarded
    /\ UNCHANGED <<envVars, stage, tries, lock, born, tmp, stuck, flush, resolved, abandoned>>

(* os.Remove fails: logged, and the pruning goes on. *)
PruneFails(r) ==
    /\ stage[r] = "pruning" /\ Cardinality(stuck) < MaxStuck
    /\ \E v \in Oldest(victims, 1) :
         /\ v \in dir
         /\ victims' = victims \ {v} /\ stuck' = stuck \cup {v}
    /\ UNCHANGED <<envVars, stage, tries, lock, born, dir, tmp, whole, flush,
                   history>>

(* Mutant: the entry is written under its final name. *)
WriteInPlace(r) ==
    /\ stage[r] = "pruning" /\ victims = {}
    /\ Goto(r, "writing") /\ dir' = dir \cup {r}
    /\ UNCHANGED <<envVars, tries, lock, victims, born, tmp, whole, stuck, flush,
                   history>>
BeginWrite(r) ==
    /\ stage[r] = "pruning" /\ victims = {}
    /\ Goto(r, "writing") /\ tmp' = tmp \cup {r}
    /\ UNCHANGED <<envVars, tries, lock, victims, born, dir, whole, stuck, flush,
                   history>>

EndWrite(r) ==
    /\ stage[r] = "writing"
    /\ Goto(r, "renaming") /\ whole' = whole \cup {r}
    /\ UNCHANGED <<envVars, tries, lock, victims, born, dir, tmp, stuck, flush,
                   history>>

Rename(r) ==
    /\ stage[r] = "renaming"
    /\ Goto(r, "done") /\ lock' = None
    /\ dir' = dir \cup {r} /\ tmp' = tmp \ {r}
    /\ UNCHANGED <<envVars, tries, victims, born, whole, stuck, flush, history>>

(* There is no spool, or MkdirAll, WriteFile or Rename fails.  Only a       *)
(* failed Rename removes the temporary file.                               *)
Unwritten(r) ==
    \/ stage[r] = "waiting" /\ lock = None /\ UNCHANGED <<tmp, whole>>
    \/ stage[r] = "writing" /\ UNCHANGED <<tmp, whole>>
    \/ stage[r] = "renaming" /\ tmp' = tmp \ {r} /\ whole' = whole \ {r}

(* The worker logs that the result is dropped.  Mutant: it tries again,    *)
(* for ever.                                                               *)
EnqueueRetries(r) ==
    /\ Unwritten(r)
    /\ Goto(r, "waiting") /\ lock' = None
    /\ UNCHANGED <<envVars, tries, victims, born, dir, stuck, flush, history>>
EnqueueFails(r) ==
    /\ Unwritten(r)
    /\ Goto(r, "done") /\ lock' = None
    /\ abandoned' = abandoned \cup {r}
    /\ UNCHANGED <<envVars, tries, victims, born, dir, stuck, flush, resolved, discarded>>
-----------------------------------------------------------------------------
(* postbackSpool.flush, without mu but for the listing. *)

FlushList(f) ==
    /\ flush[f].at = "listing" /\ lock = None
    /\ flush' = [flush EXCEPT ![f].at = "next", ![f].todo = dir, ![f].cut = expired]
    /\ UNCHANGED <<envVars, workVars, dirVars, history>>

(* The loop ends after the last entry, or at an entry with ctx cancelled.  *)
FlushReturns(f) ==
    /\ flush[f].at = "next"
    /\ flush[f].todo = {} \/ ~flush[f].live
    /\ flush' = [flush EXCEPT ![f] = NoFlush]
    /\ UNCHANGED <<envVars, workVars, dirVars, history>>

(* A file that is gone is skipped; a corrupt or an expired entry is to be  *)
(* removed, any other to be delivered.                                     *)
FlushRead(f) ==
    /\ flush[f].at = "next" /\ flush[f].live
    /\ \E r \in Oldest(flush[f].todo, 1) :
         flush' = [flush EXCEPT ![f].todo = @ \ {r}, ![f].cur = r,
                     ![f].at = IF r \notin dir THEN "next"
                               ELSE IF r \notin whole \/ r \in flush[f].cut
                               THEN "removing" ELSE "delivering"]
    /\ UNCHANGED <<envVars, workVars, dirVars, history>>

(* ReadFile fails: logged, the entry stays for the next flush. *)
FlushReadFails(f) ==
    /\ flush[f].at = "next" /\ flush[f].live
    /\ \E r \in Oldest(flush[f].todo, 1) :
         r \in dir /\ flush' = [flush EXCEPT ![f].todo = @ \ {r}]
    /\ UNCHANGED <<envVars, workVars, dirVars, history>>

FlushDone(f) ==
    /\ flush[f].at = "delivering"
    /\ AnsweredDone(flush[f].cur)
    /\ flush' = [flush EXCEPT ![f].at = "removing"]
    /\ UNCHANGED <<envVars, workVars, dirVars, discarded, abandoned>>

(* deliver asks for a retry: the flush stops, this entry and the rest stay. *)
(* Mutant: the entry is removed all the same.                              *)
FlushIgnoresRetry(f) ==
    /\ flush[f].at = "delivering"
    /\ AnsweredRetry(flush[f].cur)
    /\ flush' = [flush EXCEPT ![f].at = "removing"]
    /\ UNCHANGED <<envVars, workVars, dirVars, discarded, abandoned>>
FlushStops(f) ==
    /\ flush[f].at = "delivering"
    /\ AnsweredRetry(flush[f].cur)
    /\ flush' = [flush EXCEPT ![f] = NoFlush]
    /\ UNCHANGED <<envVars, workVars, dirVars, discarded, abandoned>>

(* remove: an expired entry is discarded here without being counted. *)
FlushRemove(f) ==
    LET r == flush[f].cur
    IN  /\ flush[f].at = "removing"
        /\ flush' = [flush EXCEPT ![f].at = "next"]
        /\ dir' = dir \ {r} /\ whole' = whole \ {r}
        /\ discarded' = IF r \in dir \cap flush[f].cut THEN discarded \cup {r}
                        ELSE discarded
        /\ UNCHANGED <<envVars, workVars, tmp, stuck, resolved,
                       abandoned>>

(* os.Remove fails: logged, the entry stays for the next flush. *)
FlushRemoveFails(f) ==
    /\ flush[f].at = "removing" /\ flush[f].cur \in dir /\ Cardinality(stuck) < MaxStuck
    /\ flush' = [flush EXCEPT ![f].at = "next"]
    /\ stuck' = stuck \cup {flush[f].cur}
    /\ UNCHANGED <<envVars, workVars, dir, tmp, whole, history>>
-----------------------------------------------------------------------------
Enqueuing(r) ==
    \/ Lock(r) \/ Prune(r) \/ PruneFails(r)
    \/ BeginWrite(r) \/ EndWrite(r) \/ Rename(r) \/ EnqueueFails(r)

Posting(r) ==
    \/ PostDone(r) \/ PostRetry(r) \/ BackoffElapsed(r) \/ BackoffCancelled(r)
    \/ CallEnqueue(r) \/ Enqueuing(r)

Flush(f) ==
    \/ FlushList(f) \/ FlushReturns(f) \/ FlushRead(f) \/ FlushReadFails(f) \/ FlushDone(f)
    \/ FlushStops(f) \/ FlushRemove(f) \/ FlushRemoveFails(f)

Next ==
    \/ GoOnline \/ EndCycle \/ Crash
    \/ \E r \in Results : Age(r) \/ Start(r) \/ Posting(r)
    \/ \E f \in Flushes : Flush(f)

Spec == Init /\ [][Next]_vars

(* Goroutines are scheduled and requests end: the HTTP client has a        *)
(* timeout.  Cycles end, at the latest when the SAS token is renewed, and  *)
(* are followed by others.  The engine does not stay unreachable, reads do *)
(* not go on to fail, and not every cycle ends before its flush has made   *)
(* its next step: the strong conditions.                                   *)
Fairness ==
    /\ WF_vars(GoOnline) /\ WF_vars(EndCycle)
    /\ \A r \in Results : WF_vars(Posting(r))
    /\ \A f \in Flushes : WF_vars(Flush(f))
    /\ SF_vars(\E f \in Flushes : flush[f].live /\ FlushList(f))
    /\ SF_vars(\E f \in Flushes : FlushRead(f))
    /\ SF_vars(\E f \in Flushes : FlushDone(f))

FairSpec == Spec /\ Fairness
-----------------------------------------------------------------------------
(* Properties. *)

(* The spool directory never holds more entries than its cap, but for those *)
(* the file system would not remove, although pruning and writing are      *)
(* separate steps and flushes run beside them.                             *)
SpoolBounded == Cardinality(dir \ stuck) <= MaxEntries

(* enqueue writes a temporary file and renames it: no flush ever sees, and *)
(* so no flush discards as corrupt, an entry written in part, wherever the *)
(* process crashes.                                                        *)
NoPartialEntry == dir \subseteq whole

(* The worker is done with a result only when the engine has answered for  *)
(* good, when it is in the spool or was evicted there, or in one of the    *)
(* ways the code logs: cancelled in a backoff, not written, crash.         *)
ResultAccounted ==
    \A r \in Results : stage[r] = "done" => r \in resolved \cup dir \cup discarded \cup abandoned

(* Capacity evicts the oldest entries first: whenever an entry that has    *)
(* not expired is discarded, every entry that stays and can be removed is  *)
(* younger.                                                                *)
EvictsOldest ==
    [][\A r \in discarded' \ (discarded \cup expired) :
         \A s \in dir' \ stuck : Older(r, s)]_vars

(* enqueue does not wait for the network: a worker that asks for mu gets   *)
(* its entry written, or an error, whatever the flushes do.                *)
WorkersNotStalled ==
    \A r \in Results : (stage[r] = "waiting") ~> (stage[r] = "done")

(* A spooled result is delivered or discarded once the engine keeps giving *)
(* it answers that are final: the README has the spool re-attempted on the *)
(* next cycle.  Age is not fair: the many cycles of a day must do, without *)
(* the help of the expiry.                                                 *)
SpoolDrains == \A r \in Results : (r \in dir) ~> (r \notin dir)
=============================================================================
