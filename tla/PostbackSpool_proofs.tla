------------------------ MODULE PostbackSpool_proofs ------------------------
(* The inductive invariant of PostbackSpool and the theorems that follow.   *)
EXTENDS PostbackSpool, InductionLemmas

Holding == {"pruning", "writing", "renaming"}

(* mu belongs to the worker that is inside enqueue, an entry gets its rank  *)
(* before it asks for mu, and no attempt is made beyond PostbackMaxAttempts. *)
WorkInv ==
    /\ \A r \in Results :
         /\ stage[r] = "backoff" => tries[r] < MaxAttempts
         /\ stage[r] \in Holding <=> lock = r
         /\ stage[r] \in {"waiting"} \cup Holding => born[r] > 0
         /\ stage[r] \in {"ready", "attempt", "backoff", "exhausted"} => born[r] = 0
    /\ victims # {} => lock # None /\ stage[lock] = "pruning"

(* The ranks are given in turn: none is given twice.                        *)
Born == {s \in Results : born[s] > 0}
RankInv ==
    /\ \A r \in Results : born[r] <= Cardinality(Born)
    /\ \A r, s \in Born : born[r] = born[s] => r = s

(* What is in the directory was written to its end by a worker that is done *)
(* with it, so nobody writes it a second time.                              *)
DirInv ==
    /\ \A r \in dir \cup victims : stage[r] = "done" /\ born[r] > 0
    /\ dir \subseteq whole
    /\ \A r \in Results : stage[r] = "renaming" => r \in whole

(* A flush works on entries that were in the directory, and it removes only *)
(* those the engine has answered for and those that are too old.            *)
FlushInv ==
    \A f \in Flushes :
        /\ \A r \in flush[f].todo : stage[r] = "done"
        /\ flush[f].cut \subseteq expired
        /\ flush[f].cur # None => stage[flush[f].cur] = "done"
        /\ flush[f].at \in {"delivering", "removing"} => flush[f].cur # None
        /\ flush[f].at = "removing" => flush[f].cur \in resolved \cup flush[f].cut

(* The worker in enqueue leaves room for its own entry.                     *)
Kept == (dir \ stuck) \ victims
RoomInv ==
    /\ SpoolBounded
    /\ lock # None => Cardinality(Kept) <= MaxEntries - 1

(* What is left to be pruned for capacity is older than what is kept.       *)
EvictInv == \A v \in victims \ expired : \A s \in Kept : Older(v, s)

IInv == TypeOK /\ WorkInv /\ RankInv /\ DirInv /\ FlushInv /\ ResultAccounted
        /\ RoomInv /\ EvictInv
-----------------------------------------------------------------------------
(* The assumptions on the constants, as the steps below use them.           *)
LEMMA Params ==
    /\ IsFiniteSet(Results) /\ None \notin Results
    /\ MaxEntries \in Nat \ {0} /\ MaxAttempts \in Nat \ {0}
    /\ MaxCrashes \in Nat /\ MaxStuck \in Nat
BY ResultsAssumption, BoundsAssumption

(* Sets of results are finite, and a part of one has no more members.       *)
LEMMA SetsOfResults ==
  ASSUME NEW S \in SUBSET Results
  PROVE  /\ IsFiniteSet(S) /\ Cardinality(S) \in Nat
         /\ \A T \in SUBSET S : Cardinality(T) <= Cardinality(S)
<1>1. IsFiniteSet(S) BY Params, FS_Subset
<1> QED BY <1>1, FS_Subset, FS_CardinalityType

(* Oldest finds as many as it is asked for, if there are as many.           *)
LEMMA OldestCount ==
  ASSUME TypeOK, NEW S \in SUBSET Results, NEW k \in Nat, k <= Cardinality(S)
  PROVE  Cardinality(S \ Oldest(S, k)) <= Cardinality(S) - k
<1> DEFINE O == Oldest(S, k)
<1>1. O \subseteq S BY DEF Oldest
<1>2. Cardinality(S \ O) = Cardinality(S) - Cardinality(O)
  <2>1. Cardinality(S \ O) = Cardinality(S) - Cardinality(S \cap O)
    BY SetsOfResults, FS_Difference
  <2>2. S \cap O = O BY <1>1
  <2> QED BY <2>1, <2>2
<1>3. Cardinality(O) \in Nat /\ Cardinality(S) \in Nat BY <1>1, SetsOfResults
<1>4. CASE S \ O = {}
  <2>1. O = S BY <1>1, <1>4
  <2> QED BY <1>2, <1>3, <2>1
<1>5. CASE S \ O # {}
  <2>1. PICK x \in S \ O : \A y \in S \ O : born[x] <= born[y]
    <3>1. \A y \in S \ O : born[y] \in Nat BY DEF TypeOK
    <3> HIDE DEF O
    <3> QED BY <1>5, <3>1, LeastRank
  <2> DEFINE B == {s \in S : Older(s, x)}
  <2>2. B \subseteq O
    <3>1. ASSUME NEW s \in S, Older(s, x), s \notin O PROVE FALSE
      BY <2>1, <3>1 DEF Older, TypeOK
    <3> QED BY <3>1
  <2>3. Cardinality(B) \in Nat /\ Cardinality(B) <= Cardinality(O)
    BY <1>1, <2>2, SetsOfResults
  <2>4. ~(Cardinality(B) < k) BY <2>1 DEF Oldest
  <2> QED BY <1>2, <1>3, <2>3, <2>4
<1> QED BY <1>4, <1>5

(* A member of Oldest is older than one that is not.                        *)
LEMMA OldestFirst ==
  ASSUME TypeOK, RankInv, NEW S \in SUBSET Born, NEW k \in Nat,
         NEW v \in Oldest(S, k), NEW s \in S \ Oldest(S, k)
  PROVE  Older(v, s)
<1>0. S \subseteq Results /\ v \in S /\ born[v] \in Nat /\ born[s] \in Nat
  BY DEF Born, Oldest, TypeOK
<1>1. SUFFICES ASSUME born[s] < born[v] PROVE FALSE
  <2>1. v # s OBVIOUS
  <2>2. born[v] # born[s] BY <1>0, <2>1 DEF RankInv
  <2> QED BY <1>0, <2>2 DEF Older
<1> DEFINE A == {x \in S : Older(x, s)}
           B == {x \in S : Older(x, v)}
<1>2. A \subseteq B BY <1>0, <1>1 DEF Older, TypeOK
<1>3. Cardinality(A) <= Cardinality(B) /\ Cardinality(A) \in Nat
      /\ Cardinality(B) \in Nat
  <2>1. A \in SUBSET Results /\ B \in SUBSET Results BY <1>0
  <2> HIDE DEF A, B
  <2> QED BY <1>2, <2>1, SetsOfResults
<1>4. Cardinality(B) < k /\ ~(Cardinality(A) < k) BY DEF Oldest
<1> QED BY <1>3, <1>4

(* The entry that is pruned next is the oldest of those to be pruned.       *)
LEMMA OldestOne ==
  ASSUME TypeOK, RankInv, NEW S \in SUBSET Born,
         NEW v \in Oldest(S, 1), NEW s \in S, s # v
  PROVE  v \in S /\ Older(v, s)
<1> DEFINE B == {x \in S : Older(x, v)}
<1>0. S \subseteq Results /\ v \in S BY DEF Born, Oldest
<1>1. Cardinality(B) \in Nat /\ IsFiniteSet(B) BY <1>0, SetsOfResults
<1>2. Cardinality(B) < 1 BY DEF Oldest
<1>3. B = {} BY <1>1, <1>2, FS_EmptySet
<1>4. ~Older(s, v) BY <1>3
<1>5. born[v] # born[s] BY <1>0 DEF RankInv
<1> QED BY <1>0, <1>4, <1>5 DEF Older, TypeOK

(* pruneLocked leaves room for one entry more.                              *)
LEMMA PruneLeavesRoom ==
  ASSUME TypeOK
  PROVE  /\ ToPrune \subseteq dir
         /\ Cardinality(dir \ ToPrune) <= MaxEntries - 1
<1> DEFINE fresh == dir \ expired
           n == Cardinality(fresh)
<1>1. fresh \subseteq Results /\ n \in Nat BY SetsOfResults DEF TypeOK
<1>2. ToPrune = (dir \cap expired) \cup Oldest(fresh, Surplus(n))
  BY DEF ToPrune
<1>3. dir \ ToPrune = fresh \ Oldest(fresh, Surplus(n)) BY <1>2
<1>4. Surplus(n) \in Nat /\ Surplus(n) <= n /\ n - Surplus(n) <= MaxEntries - 1
  <2> HIDE DEF n
  <2> QED BY <1>1, Params DEF Surplus
<1>5. Cardinality(fresh \ Oldest(fresh, Surplus(n))) <= n - Surplus(n)
  BY <1>1, <1>4, OldestCount
<1>6. Cardinality(dir \ ToPrune) \in Nat BY SetsOfResults DEF TypeOK
<1>7. ToPrune \subseteq dir BY <1>2 DEF Oldest
<1>8. Cardinality(dir \ ToPrune) <= n - Surplus(n) BY <1>3, <1>5
<1>9. ASSUME NEW c \in Nat, NEW m \in Nat, NEW k \in Nat, c <= m - k,
             m - k <= MaxEntries - 1
      PROVE  c <= MaxEntries - 1
  BY <1>9, Params
<1> QED BY <1>1, <1>4, <1>6, <1>7, <1>8, <1>9

(* What pruneLocked chooses for capacity is older than what it keeps.       *)
LEMMA PruneChoosesOldest ==
  ASSUME TypeOK, RankInv, DirInv, NEW v \in ToPrune \ expired,
         NEW s \in dir \ ToPrune
  PROVE  Older(v, s)
<1> DEFINE fresh == dir \ expired
           k == Surplus(Cardinality(fresh))
<1>1. fresh \subseteq Born BY DEF DirInv, Born, TypeOK
<1>2. Cardinality(fresh) \in Nat BY SetsOfResults DEF TypeOK
<1>3. k \in Nat BY <1>2, Params DEF Surplus
<1>4. v \in Oldest(fresh, k) /\ s \in fresh \ Oldest(fresh, k)
  BY DEF ToPrune
<1> HIDE DEF fresh, k
<1> QED BY <1>1, <1>3, <1>4, OldestFirst
-----------------------------------------------------------------------------
(* What a flush is: TypeOK without the name of each flush.                  *)
FlushType == [at : FlushStages, live : BOOLEAN, todo : SUBSET Results,
              cut : SUBSET Results, cur : Results \cup {None}]

(* Every step keeps the types.                                              *)
LEMMA TypeStep ==
  ASSUME IInv, [Next]_vars
  PROVE  TypeOK'
<1>0. IInv /\ TypeOK /\ WorkInv /\ FlushInv BY DEF IInv
<1> USE <1>0, Params DEF TypeOK, Stages, vars, workVars, dirVars, envVars, history,
    Goto, AnsweredDone, AnsweredRetry
<1>1. CASE GoOnline
  <2> DEFINE started == [NoFlush EXCEPT !.at = "listing", !.live = TRUE]
  <2>1. started \in FlushType BY DEF NoFlush, FlushType, FlushStages
  <2>2. PICK f \in Flushes : flush' = [flush EXCEPT ![f] = started]
    BY <1>1 DEF GoOnline
  <2>3. flush' \in [Flushes -> FlushType]
    <3> HIDE DEF started
    <3> QED BY <2>1, <2>2 DEF FlushType
  <2>4. UNCHANGED <<workVars, dirVars, expired, crashes, history>>
        /\ online' = TRUE
    BY <1>1 DEF GoOnline
  <2> QED BY <2>3, <2>4 DEF FlushType
<1>2. CASE EndCycle
  <2>1. flush' \in [Flushes -> FlushType] BY <1>2 DEF EndCycle, FlushType
  <2> QED BY <1>2, <2>1 DEF EndCycle, FlushType
<1>3. CASE Crash
  <2>1. NoFlush \in FlushType BY DEF NoFlush, FlushType, FlushStages
  <2>2. flush' \in [Flushes -> FlushType] BY <1>3, <2>1 DEF Crash
  <2>3. stage' \in [Results -> Stages] BY <1>3 DEF Crash
  <2>4. abandoned' \subseteq Results BY <1>3 DEF Crash
  <2>5. crashes' \in 0..MaxCrashes BY <1>3 DEF Crash
  <2>6. lock' = None /\ victims' = {} /\ online' = FALSE
        /\ UNCHANGED <<tries, born, dir, tmp, whole, stuck, expired, resolved,
                       discarded>>
    BY <1>3 DEF Crash
  <2> HIDE DEF WorkInv, FlushInv
  <2> QED BY <2>2, <2>3, <2>4, <2>5, <2>6 DEF FlushType
<1>4. ASSUME NEW r \in Results, Age(r) PROVE TypeOK' BY <1>4 DEF Age
<1>5. ASSUME NEW r \in Results, Start(r) PROVE TypeOK' BY <1>5 DEF Start
<1>6. ASSUME NEW r \in Results, PostDone(r) PROVE TypeOK'
  BY <1>6 DEF PostDone
<1>7. ASSUME NEW r \in Results, PostRetry(r) PROVE TypeOK'
  BY <1>7 DEF PostRetry
<1>8. ASSUME NEW r \in Results, BackoffElapsed(r) PROVE TypeOK'
  <2>1. tries[r] + 1 \in 0..MaxAttempts BY <1>8 DEF BackoffElapsed, WorkInv
  <2> QED BY <1>8, <2>1 DEF BackoffElapsed
<1>9. ASSUME NEW r \in Results, BackoffCancelled(r) PROVE TypeOK'
  BY <1>9 DEF BackoffCancelled
<1>10. ASSUME NEW r \in Results, CallEnqueue(r) PROVE TypeOK'
  <2>1. r \notin Born /\ Born \subseteq Results
    BY <1>10 DEF CallEnqueue, WorkInv, Born
  <2>2. Cardinality(Born) + 1 <= Cardinality(Results)
        /\ Cardinality(Born) \in Nat /\ Cardinality(Results) \in Nat
    <3>1. Cardinality(Born \cup {r}) = Cardinality(Born) + 1
      BY <2>1, SetsOfResults, FS_AddElement
    <3>2. Born \cup {r} \in SUBSET Results BY <2>1
    <3> QED BY <2>1, <3>1, <3>2, SetsOfResults
  <2>3. 1 + Cardinality(Born) \in 0..Cardinality(Results) BY <2>2
  <2>4. born' = [born EXCEPT ![r] = 1 + Cardinality(Born)]
    BY <1>10 DEF CallEnqueue, Born
  <2>5. born' \in [Results -> 0..Cardinality(Results)] BY <2>3, <2>4
  <2>6. stage' \in [Results -> Stages] BY <1>10 DEF CallEnqueue
  <2> QED BY <1>10, <2>5, <2>6 DEF CallEnqueue
<1>11. ASSUME NEW r \in Results, Lock(r) PROVE TypeOK'
  <2>1. ToPrune \subseteq Results BY DEF ToPrune, Oldest
  <2> QED BY <1>11, <2>1 DEF Lock
<1>12. ASSUME NEW r \in Results, Prune(r) PROVE TypeOK'
  BY <1>12 DEF Prune, Oldest
<1>13. ASSUME NEW r \in Results, PruneFails(r) PROVE TypeOK'
  BY <1>13 DEF PruneFails, Oldest
<1>14. ASSUME NEW r \in Results, BeginWrite(r) PROVE TypeOK'
  BY <1>14 DEF BeginWrite
<1>15. ASSUME NEW r \in Results, EndWrite(r) PROVE TypeOK'
  BY <1>15 DEF EndWrite
<1>16. ASSUME NEW r \in Results, Rename(r) PROVE TypeOK'
  BY <1>16 DEF Rename
<1>17. ASSUME NEW r \in Results, EnqueueFails(r) PROVE TypeOK'
  BY <1>17 DEF EnqueueFails, Unwritten
<1>18. ASSUME NEW f \in Flushes, FlushList(f) PROVE TypeOK'
  <2>1. flush' \in [Flushes -> FlushType]
    <3>1. [flush[f] EXCEPT !.at = "next", !.todo = dir, !.cut = expired]
            \in FlushType
      BY DEF FlushType, FlushStages
    <3>2. flush' = [flush EXCEPT ![f] = [flush[f] EXCEPT !.at = "next",
                                           !.todo = dir, !.cut = expired]]
      BY <1>18 DEF FlushList
    <3> QED BY <3>1, <3>2 DEF FlushType
  <2> QED BY <1>18, <2>1 DEF FlushList, FlushType
<1>19. ASSUME NEW f \in Flushes, FlushReturns(f) PROVE TypeOK'
  BY <1>19 DEF FlushReturns, NoFlush, FlushStages
<1>20. ASSUME NEW f \in Flushes, FlushRead(f) PROVE TypeOK'
  <2>1. PICK r \in Oldest(flush[f].todo, 1), at \in FlushStages :
          flush' = [flush EXCEPT ![f].todo = @ \ {r}, ![f].cur = r, ![f].at = at]
    BY <1>20 DEF FlushRead, FlushStages
  <2>2. r \in Results BY DEF Oldest
  <2>3. flush' \in [Flushes -> FlushType]
    <3>1. [flush[f] EXCEPT !.todo = @ \ {r}, !.cur = r, !.at = at] \in FlushType
      BY <2>2 DEF FlushType
    <3>2. flush' = [flush EXCEPT ![f] = [flush[f] EXCEPT !.todo = @ \ {r},
                                           !.cur = r, !.at = at]]
      BY <2>1
    <3> QED BY <3>1, <3>2 DEF FlushType
  <2> QED BY <1>20, <2>3 DEF FlushRead, FlushType
<1>21. ASSUME NEW f \in Flushes, FlushReadFails(f) PROVE TypeOK'
  BY <1>21 DEF FlushReadFails, FlushStages
<1>22. ASSUME NEW f \in Flushes, FlushDone(f) PROVE TypeOK'
  BY <1>22 DEF FlushDone, FlushStages, FlushInv
<1>23. ASSUME NEW f \in Flushes, FlushStops(f) PROVE TypeOK'
  BY <1>23 DEF FlushStops, NoFlush, FlushStages
<1>24. ASSUME NEW f \in Flushes, FlushRemove(f) PROVE TypeOK'
  BY <1>24 DEF FlushRemove, FlushStages
<1>25. ASSUME NEW f \in Flushes, FlushRemoveFails(f) PROVE TypeOK'
  BY <1>25 DEF FlushRemoveFails, FlushStages
<1>26. CASE UNCHANGED vars BY <1>26
<1> QED
  BY <1>1, <1>2, <1>3, <1>4, <1>5, <1>6, <1>7, <1>8, <1>9, <1>10, <1>11, <1>12,
     <1>13, <1>14, <1>15, <1>16, <1>17, <1>18, <1>19, <1>20, <1>21, <1>22, <1>23,
     <1>24, <1>25, <1>26 DEF Next, Posting, Enqueuing, Flush

(* Only the flushes, the age and the cycle move without the workers.        *)
LEMMA FlushKeepsWork ==
  ASSUME NEW f \in Flushes, Flush(f)
  PROVE  UNCHANGED <<workVars, envVars, abandoned, tmp>>
BY DEF Flush, FlushList, FlushReturns, FlushRead, FlushReadFails, FlushDone,
   FlushStops, FlushRemove, FlushRemoveFails, workVars, envVars, dirVars, history

LEMMA WorkStep ==
  ASSUME IInv, [Next]_vars
  PROVE  WorkInv'
<1>0. IInv /\ TypeOK /\ WorkInv BY DEF IInv
<1> USE <1>0, Params DEF TypeOK, WorkInv, Holding, Stages, workVars, history, Goto
<1>1. CASE Crash BY <1>1 DEF Crash, Busy
<1>2. ASSUME NEW r \in Results, Start(r) PROVE WorkInv'
  BY <1>2 DEF Start
<1>3. ASSUME NEW r \in Results, PostDone(r) PROVE WorkInv'
  BY <1>3 DEF PostDone
<1>4. ASSUME NEW r \in Results, PostRetry(r) PROVE WorkInv'
  BY <1>4 DEF PostRetry, MayRetry
<1>5. ASSUME NEW r \in Results, BackoffElapsed(r) PROVE WorkInv'
  BY <1>5 DEF BackoffElapsed
<1>6. ASSUME NEW r \in Results, BackoffCancelled(r) PROVE WorkInv'
  BY <1>6 DEF BackoffCancelled
<1>7. ASSUME NEW r \in Results, CallEnqueue(r) PROVE WorkInv'
  <2>1. Cardinality(Born) \in Nat BY SetsOfResults DEF Born
  <2>2. born' = [born EXCEPT ![r] = 1 + Cardinality(Born)]
        /\ stage' = [stage EXCEPT ![r] = "waiting"] /\ stage[r] = "exhausted"
        /\ UNCHANGED <<tries, lock, victims>>
    BY <1>7 DEF CallEnqueue, Born
  <2> QED BY <2>1, <2>2
<1>8. ASSUME NEW r \in Results, Lock(r) PROVE WorkInv'
  BY <1>8 DEF Lock
<1>9. ASSUME NEW r \in Results, Prune(r) PROVE WorkInv'
  BY <1>9 DEF Prune
<1>10. ASSUME NEW r \in Results, PruneFails(r) PROVE WorkInv'
  BY <1>10 DEF PruneFails
<1>11. ASSUME NEW r \in Results, BeginWrite(r) PROVE WorkInv'
  BY <1>11 DEF BeginWrite
<1>12. ASSUME NEW r \in Results, EndWrite(r) PROVE WorkInv'
  BY <1>12 DEF EndWrite
<1>13. ASSUME NEW r \in Results, Rename(r) PROVE WorkInv'
  BY <1>13 DEF Rename
<1>14. ASSUME NEW r \in Results, EnqueueFails(r) PROVE WorkInv'
  BY <1>14 DEF EnqueueFails, Unwritten
<1>15. ASSUME UNCHANGED workVars PROVE WorkInv' BY <1>15
<1>16. ASSUME GoOnline \/ EndCycle \/ UNCHANGED vars PROVE UNCHANGED workVars
  BY <1>16 DEF GoOnline, EndCycle, vars
<1>17. ASSUME NEW r \in Results, Age(r) PROVE UNCHANGED workVars
  BY <1>17 DEF Age
<1> QED
  BY <1>1, <1>2, <1>3, <1>4, <1>5, <1>6, <1>7, <1>8, <1>9, <1>10, <1>11, <1>12,
     <1>13, <1>14, <1>15, <1>16, <1>17, FlushKeepsWork
  DEF Next, Posting, Enqueuing

(* A rank is given by CallEnqueue alone, one above those that were given.   *)
LEMMA BornStep ==
  ASSUME IInv, [Next]_vars
  PROVE  \/ UNCHANGED born
         \/ \E r \in Results : CallEnqueue(r)
BY FlushKeepsWork DEF Next, GoOnline, EndCycle, Crash, Age, Start, Posting, PostDone,
   PostRetry, BackoffElapsed, BackoffCancelled, Enqueuing, Lock, Prune, PruneFails,
   BeginWrite, EndWrite, Rename, EnqueueFails, workVars, vars

LEMMA RankStep ==
  ASSUME IInv, [Next]_vars
  PROVE  RankInv'
<1>0. TypeOK /\ WorkInv /\ RankInv BY DEF IInv
<1>1. CASE UNCHANGED born BY <1>0, <1>1 DEF RankInv, Born
<1>2. ASSUME NEW r \in Results, CallEnqueue(r) PROVE RankInv'
  <2>1. r \notin Born /\ Born \subseteq Results
    BY <1>0, <1>2 DEF CallEnqueue, WorkInv, Born
  <2>2. Cardinality(Born) \in Nat /\ IsFiniteSet(Born) BY <2>1, SetsOfResults
  <2>3. born' = [born EXCEPT ![r] = 1 + Cardinality(Born)]
    BY <1>2 DEF CallEnqueue, Born
  <2>4. Born' = Born \cup {r}
    <3>1. ASSUME NEW s \in Results PROVE born'[s] > 0 <=> s \in Born \cup {r}
      <4>1. CASE s = r BY <1>0, <2>2, <2>3, <4>1 DEF TypeOK
      <4>2. CASE s # r BY <1>0, <2>3, <4>2 DEF TypeOK, Born
      <4> QED BY <4>1, <4>2
    <3>2. Born' = {s \in Results : born'[s] > 0} BY DEF Born
    <3> QED BY <2>1, <3>1, <3>2
  <2>5. Cardinality(Born') = Cardinality(Born) + 1
    BY <2>1, <2>2, <2>4, FS_AddElement
  <2>6. \A s \in Results : born'[s] <= Cardinality(Born')
    <3> TAKE s \in Results
    <3>1. CASE s = r BY <1>0, <2>2, <2>3, <2>5, <3>1 DEF TypeOK
    <3>2. CASE s # r
      <4>1. born'[s] = born[s] /\ born[s] \in Nat /\ born[s] <= Cardinality(Born)
        BY <1>0, <2>3, <3>2 DEF RankInv, TypeOK
      <4> QED BY <2>2, <2>5, <4>1
    <3> QED BY <3>1, <3>2
  <2>7. ASSUME NEW s \in Born', NEW t \in Born', born'[s] = born'[t]
        PROVE  s = t
    <3>1. \A x \in Born : born'[x] = born[x] /\ born[x] < born'[r]
      BY <1>0, <2>1, <2>2, <2>3 DEF RankInv, TypeOK
    <3> QED BY <1>0, <2>1, <2>4, <2>7, <3>1 DEF RankInv, TypeOK
  <2> QED BY <2>6, <2>7 DEF RankInv
<1> QED BY <1>1, <1>2, BornStep

(* A worker that is done stays done, and a rank is kept.                    *)
LEMMA DoneStays ==
  ASSUME IInv, [Next]_vars, NEW r \in Results
  PROVE  /\ stage[r] = "done" => stage'[r] = "done"
         /\ born[r] > 0 => born'[r] = born[r]
<1>0. TypeOK /\ WorkInv BY DEF IInv
<1>1. stage[r] = "done" => stage'[r] = "done"
  <2> USE <1>0 DEF TypeOK, WorkInv, Goto, workVars
  <2>1. ASSUME NEW s \in Results, Posting(s), stage[r] = "done"
        PROVE  stage'[r] = "done"
    BY <2>1 DEF Posting, PostDone, PostRetry, BackoffElapsed, BackoffCancelled,
       CallEnqueue, Enqueuing, Lock, Prune, PruneFails, BeginWrite, EndWrite,
       Rename, EnqueueFails, Unwritten
  <2>2. ASSUME NEW s \in Results, Age(s) \/ Start(s), stage[r] = "done"
        PROVE  stage'[r] = "done"
    BY <2>2 DEF Age, Start
  <2>3. ASSUME GoOnline \/ EndCycle \/ Crash \/ UNCHANGED vars, stage[r] = "done"
        PROVE  stage'[r] = "done"
    BY <2>3 DEF GoOnline, EndCycle, Crash, vars
  <2> QED BY <2>1, <2>2, <2>3, FlushKeepsWork DEF Next
<1>2. ASSUME NEW s \in Results, CallEnqueue(s), born[r] > 0
      PROVE  born'[r] = born[r]
  BY <1>0, <1>2 DEF CallEnqueue, WorkInv, TypeOK
<1> QED BY <1>1, <1>2, BornStep

(* What enters the directory has just been renamed; what leaves it leaves   *)
(* with its data.                                                           *)
LEMMA DirChanges ==
  ASSUME [Next]_vars
  PROVE  \/ UNCHANGED <<dir, whole>>
         \/ \E r \in Results : Rename(r) \/ EndWrite(r) \/ EnqueueFails(r)
                               \/ Prune(r)
         \/ \E f \in Flushes : FlushRemove(f)
BY DEF Next, GoOnline, EndCycle, Crash, Age, Start, Posting, PostDone, PostRetry,
   BackoffElapsed, BackoffCancelled, CallEnqueue, Enqueuing, Lock, PruneFails,
   BeginWrite, Flush, FlushList, FlushReturns, FlushRead, FlushReadFails,
   FlushDone, FlushStops, FlushRemoveFails, dirVars, vars

(* The entries to be pruned are chosen with the lock, and only become fewer. *)
LEMMA VictimChanges ==
  ASSUME [Next]_vars
  PROVE  \/ UNCHANGED victims
         \/ victims' = {}
         \/ \E r \in Results : Lock(r) \/ Prune(r) \/ PruneFails(r)
BY FlushKeepsWork DEF Next, GoOnline, EndCycle, Crash, Age, Start, Posting, PostDone,
   PostRetry, BackoffElapsed, BackoffCancelled, CallEnqueue, Enqueuing,
   BeginWrite, EndWrite, Rename, EnqueueFails, workVars, vars

LEMMA DirStep ==
  ASSUME IInv, [Next]_vars
  PROVE  DirInv'
<1>0. TypeOK /\ WorkInv /\ DirInv /\ FlushInv BY DEF IInv
<1>1. dir' \ dir \subseteq {r \in Results : Rename(r)}
  BY DirChanges DEF Rename, EndWrite, EnqueueFails, Prune, FlushRemove
<1>2. ASSUME NEW r \in dir'
      PROVE  stage'[r] = "done" /\ born'[r] > 0
  <2>1. CASE r \in dir
    BY <1>0, <2>1, DoneStays DEF DirInv, TypeOK
  <2>2. CASE r \notin dir
    <3>1. r \in Results /\ Rename(r) BY <1>1, <2>2
    <3> QED BY <1>0, <3>1 DEF Rename, Goto, WorkInv, Holding, TypeOK
  <2> QED BY <2>1, <2>2
<1>3. ASSUME NEW r \in victims'
      PROVE  stage'[r] = "done" /\ born'[r] > 0
  <2>1. victims' \subseteq dir \cup victims
    BY VictimChanges, <1>0, PruneLeavesRoom DEF Lock, Prune, PruneFails
  <2> QED BY <1>0, <2>1, DoneStays DEF DirInv, TypeOK
<1>4. dir' \subseteq whole'
  <2>1. ASSUME NEW r \in Results, Rename(r) PROVE dir' \subseteq whole'
    BY <1>0, <2>1 DEF Rename, DirInv, TypeOK
  <2>2. ASSUME NEW r \in Results, EndWrite(r) PROVE dir' \subseteq whole'
    BY <1>0, <2>2 DEF EndWrite, DirInv
  <2>3. ASSUME NEW r \in Results, EnqueueFails(r) PROVE dir' \subseteq whole'
    BY <1>0, <2>3 DEF EnqueueFails, Unwritten, DirInv
  <2>4. ASSUME NEW r \in Results, Prune(r) PROVE dir' \subseteq whole'
    BY <1>0, <2>4 DEF Prune, DirInv
  <2>5. ASSUME NEW f \in Flushes, FlushRemove(f) PROVE dir' \subseteq whole'
    BY <1>0, <2>5 DEF FlushRemove, DirInv
  <2> QED BY <1>0, <2>1, <2>2, <2>3, <2>4, <2>5, DirChanges DEF DirInv
<1>5. ASSUME NEW r \in Results, stage'[r] = "renaming"
      PROVE  r \in whole'
  <2>1. CASE stage[r] # "renaming"
    <3>1. EndWrite(r)
      <4> USE <1>0, <1>5, <2>1 DEF TypeOK, Goto
      <4>1. ASSUME NEW s \in Results, Posting(s) PROVE EndWrite(r)
        BY <4>1 DEF Posting, PostDone, PostRetry, BackoffElapsed,
           BackoffCancelled, CallEnqueue, Enqueuing, Lock, Prune, PruneFails,
           BeginWrite, EndWrite, Rename, EnqueueFails
      <4>2. ASSUME NEW s \in Results, Age(s) \/ Start(s) PROVE FALSE
        BY <4>2 DEF Age, Start, workVars
      <4>3. ASSUME GoOnline \/ EndCycle \/ Crash \/ UNCHANGED vars PROVE FALSE
        BY <4>3 DEF GoOnline, EndCycle, Crash, vars, workVars
      <4>4. ASSUME NEW f \in Flushes, Flush(f) PROVE FALSE
        BY <4>4, FlushKeepsWork DEF workVars
      <4> QED BY <4>1, <4>2, <4>3, <4>4 DEF Next
    <3> QED BY <3>1 DEF EndWrite
  <2>2. CASE stage[r] = "renaming"
    <3>0. r \in whole /\ lock = r BY <1>0, <2>2 DEF DirInv, WorkInv, Holding
    <3>1. ASSUME NEW s \in Results, Rename(s) \/ EndWrite(s) PROVE r \in whole'
      BY <3>0, <3>1 DEF Rename, EndWrite
    <3>2. ASSUME NEW s \in Results, EnqueueFails(s) PROVE r \in whole'
      <4>1. s # r BY <1>0, <1>5, <3>2 DEF EnqueueFails, Goto, TypeOK
      <4> QED BY <3>0, <3>2, <4>1 DEF EnqueueFails, Unwritten
    <3>3. ASSUME NEW s \in Results, Prune(s) PROVE r \in whole'
      <4>1. lock = s /\ s # r
        BY <1>0, <2>2, <3>3 DEF Prune, WorkInv, Holding
      <4> QED BY <3>0, <4>1
    <3>4. ASSUME NEW f \in Flushes, FlushRemove(f) PROVE r \in whole'
      <4>1. flush[f].cur # None /\ flush[f].cur # r
        BY <1>0, <2>2, <3>4 DEF FlushRemove, FlushInv
      <4> QED BY <3>0, <3>4, <4>1 DEF FlushRemove
    <3> QED BY <3>0, <3>1, <3>2, <3>3, <3>4, DirChanges
  <2> QED BY <2>1, <2>2
<1> QED BY <1>2, <1>3, <1>4, <1>5 DEF DirInv

(* What has expired, failed to be removed or been accounted for stays so.   *)
LEMMA Grows ==
  ASSUME [Next]_vars
  PROVE  /\ expired \subseteq expired' /\ stuck \subseteq stuck'
         /\ resolved \subseteq resolved' /\ discarded \subseteq discarded'
         /\ abandoned \subseteq abandoned'
<1> USE DEF vars, workVars, dirVars, envVars, history, AnsweredDone, AnsweredRetry
<1>1. ASSUME NEW r \in Results, Posting(r)
      PROVE  /\ expired \subseteq expired' /\ stuck \subseteq stuck'
             /\ resolved \subseteq resolved' /\ discarded \subseteq discarded'
             /\ abandoned \subseteq abandoned'
  BY <1>1 DEF Posting, PostDone, PostRetry, BackoffElapsed, BackoffCancelled,
     CallEnqueue, Enqueuing, Lock, Prune, PruneFails, BeginWrite, EndWrite, Rename,
     EnqueueFails
<1>2. ASSUME NEW f \in Flushes, Flush(f)
      PROVE  /\ expired \subseteq expired' /\ stuck \subseteq stuck'
             /\ resolved \subseteq resolved' /\ discarded \subseteq discarded'
             /\ abandoned \subseteq abandoned'
  BY <1>2 DEF Flush, FlushList, FlushReturns, FlushRead, FlushReadFails, FlushDone,
     FlushStops, FlushRemove, FlushRemoveFails
<1>3. ASSUME GoOnline \/ EndCycle \/ Crash \/ UNCHANGED vars
             \/ \E r \in Results : Age(r) \/ Start(r)
      PROVE  /\ expired \subseteq expired' /\ stuck \subseteq stuck'
             /\ resolved \subseteq resolved' /\ discarded \subseteq discarded'
             /\ abandoned \subseteq abandoned'
  BY <1>3 DEF GoOnline, EndCycle, Crash, Age, Start
<1> QED BY <1>1, <1>2, <1>3 DEF Next

(* One flush as it should be.                                               *)
FlushOK(fl) ==
    /\ \A r \in fl.todo : stage[r] = "done"
    /\ fl.cut \subseteq expired
    /\ fl.cur # None => stage[fl.cur] = "done"
    /\ fl.at \in {"delivering", "removing"} => fl.cur # None
    /\ fl.at = "removing" => fl.cur \in resolved \cup fl.cut

LEMMA FlushStep ==
  ASSUME IInv, [Next]_vars
  PROVE  FlushInv'
<1>0. TypeOK /\ WorkInv /\ DirInv /\ FlushInv BY DEF IInv
(* What was as it should be stays so as long as the flush does not move.    *)
<1>1. ASSUME NEW f \in Flushes, flush'[f] = flush[f] PROVE FlushOK(flush[f])'
  <2>1. FlushOK(flush[f]) BY <1>0 DEF FlushInv, FlushOK
  <2>2. flush[f].todo \subseteq Results /\ flush[f].cur \in Results \cup {None}
    BY <1>0 DEF TypeOK
  <2> QED BY <1>1, <2>1, <2>2, DoneStays, Grows DEF FlushOK
<1>2. ASSUME NEW f \in Flushes, flush'[f] = NoFlush PROVE FlushOK(flush[f])'
  BY <1>2 DEF FlushOK, NoFlush
<1>3. CASE GoOnline
  <2>1. PICK f \in Flushes :
          flush' = [flush EXCEPT ![f] = [NoFlush EXCEPT !.at = "listing",
                                                        !.live = TRUE]]
    BY <1>3 DEF GoOnline
  <2>2. ASSUME NEW g \in Flushes PROVE FlushOK(flush[g])'
    <3>1. CASE g = f
      <4>1. flush'[g] = [NoFlush EXCEPT !.at = "listing", !.live = TRUE]
        BY <1>0, <2>1, <3>1 DEF TypeOK
      <4> QED BY <4>1 DEF FlushOK, NoFlush
    <3>2. CASE g # f
      <4>1. flush'[g] = flush[g] BY <1>0, <2>1, <3>2 DEF TypeOK
      <4> QED BY <1>1, <4>1
    <3> QED BY <3>1, <3>2
  <2> QED BY <2>2 DEF FlushInv, FlushOK
<1>4. CASE EndCycle
  <2>1. ASSUME NEW g \in Flushes PROVE FlushOK(flush[g])'
    <3>1. flush'[g] = [flush[g] EXCEPT !.live = FALSE] BY <1>4 DEF EndCycle
    <3>2. FlushOK(flush[g]) BY <1>0 DEF FlushInv, FlushOK
    <3>3. /\ flush'[g].at = flush[g].at /\ flush'[g].todo = flush[g].todo
          /\ flush'[g].cut = flush[g].cut /\ flush'[g].cur = flush[g].cur
      BY <1>0, <3>1 DEF TypeOK
    <3>4. stage' = stage /\ expired' = expired /\ resolved' = resolved
      BY <1>4 DEF EndCycle, workVars, history
    <3> QED BY <3>2, <3>3, <3>4 DEF FlushOK
  <2> QED BY <2>1 DEF FlushInv, FlushOK
<1>5. CASE Crash
  <2>1. \A g \in Flushes : flush'[g] = NoFlush BY <1>5 DEF Crash
  <2>2. \A g \in Flushes : FlushOK(flush[g])' BY <1>2, <2>1
  <2> QED BY <2>2 DEF FlushInv, FlushOK
<1>6. CASE UNCHANGED flush
  <2>1. \A g \in Flushes : FlushOK(flush[g])' BY <1>1, <1>6
  <2> QED BY <2>1 DEF FlushInv, FlushOK
<1>7. ASSUME NEW f \in Flushes, Flush(f) PROVE FlushInv'
  <2>0. stage' = stage /\ expired' = expired
    BY <1>7, FlushKeepsWork DEF workVars, envVars
  <2>1. FlushOK(flush[f]) /\ flush[f] \in FlushType
    BY <1>0 DEF FlushInv, FlushOK, TypeOK, FlushType
  <2> USE <1>0 DEF TypeOK
  <2>2. CASE FlushList(f)
    <3>1. flush'[f].todo = dir /\ flush'[f].cut = expired
          /\ flush'[f].cur = flush[f].cur /\ flush'[f].at = "next"
      BY <2>2 DEF FlushList
    <3>2. \A g \in Flushes \ {f} : flush'[g] = flush[g] BY <2>2 DEF FlushList
    <3>3. FlushOK(flush[f])' BY <2>0, <2>1, <3>1 DEF FlushOK, DirInv
    <3>4. \A g \in Flushes : FlushOK(flush[g])' BY <1>1, <3>2, <3>3
    <3> QED BY <3>4 DEF FlushInv, FlushOK
  <2>3. CASE FlushReturns(f) \/ FlushStops(f)
    <3>1. flush' = [flush EXCEPT ![f] = NoFlush]
      BY <2>3 DEF FlushReturns, FlushStops
    <3>2. \A g \in Flushes : flush'[g] = flush[g] \/ flush'[g] = NoFlush
      BY <3>1
    <3>3. \A g \in Flushes : FlushOK(flush[g])' BY <1>1, <1>2, <3>2
    <3> QED BY <3>3 DEF FlushInv, FlushOK
  <2>4. CASE FlushRead(f)
    <3>1. PICK r \in Oldest(flush[f].todo, 1) :
            flush' = [flush EXCEPT ![f].todo = @ \ {r}, ![f].cur = r,
                     ![f].at = IF r \notin dir THEN "next"
                               ELSE IF r \notin whole \/ r \in flush[f].cut
                               THEN "removing" ELSE "delivering"]
      BY <2>4 DEF FlushRead
    <3>2. r \in flush[f].todo /\ r \in Results /\ r # None
      BY <2>1, Params DEF Oldest, FlushType
    <3>3. /\ flush'[f].todo = flush[f].todo \ {r} /\ flush'[f].cur = r
          /\ flush'[f].cut = flush[f].cut
          /\ flush'[f].at = IF r \notin dir THEN "next"
                            ELSE IF r \notin whole \/ r \in flush[f].cut
                            THEN "removing" ELSE "delivering"
      BY <3>1
    <3>4. flush'[f].at = "removing" => r \in flush[f].cut
      BY <1>0, <3>3 DEF DirInv
    <3>5. \A g \in Flushes \ {f} : flush'[g] = flush[g] BY <3>1
    <3>6. FlushOK(flush[f])' BY <2>0, <2>1, <3>2, <3>3, <3>4 DEF FlushOK
    <3>7. \A g \in Flushes : FlushOK(flush[g])' BY <1>1, <3>5, <3>6
    <3> QED BY <3>7 DEF FlushInv, FlushOK
  <2>5. CASE FlushReadFails(f)
    <3>1. PICK r \in Oldest(flush[f].todo, 1) :
            flush' = [flush EXCEPT ![f].todo = @ \ {r}]
      BY <2>5 DEF FlushReadFails
    <3>2. /\ flush'[f].todo = flush[f].todo \ {r}
          /\ flush'[f].cur = flush[f].cur
          /\ flush'[f].cut = flush[f].cut /\ flush'[f].at = flush[f].at
      BY <3>1
    <3>3. \A g \in Flushes \ {f} : flush'[g] = flush[g] BY <3>1
    <3>4. FlushOK(flush[f])' BY <2>0, <2>1, <3>2, Grows DEF FlushOK
    <3>5. \A g \in Flushes : FlushOK(flush[g])' BY <1>1, <3>3, <3>4
    <3> QED BY <3>5 DEF FlushInv, FlushOK
  <2>6. CASE FlushDone(f)
    <3>1. /\ flush'[f].todo = flush[f].todo /\ flush'[f].cur = flush[f].cur
          /\ flush'[f].cut = flush[f].cut /\ flush'[f].at = "removing"
          /\ flush[f].at = "delivering" /\ flush[f].cur \in resolved'
      BY <2>6 DEF FlushDone, AnsweredDone
    <3>2. \A g \in Flushes \ {f} : flush'[g] = flush[g] BY <2>6 DEF FlushDone
    <3>3. FlushOK(flush[f])' BY <2>0, <2>1, <3>1 DEF FlushOK
    <3>4. \A g \in Flushes : FlushOK(flush[g])' BY <1>1, <3>2, <3>3
    <3> QED BY <3>4 DEF FlushInv, FlushOK
  <2>7. CASE FlushRemove(f) \/ FlushRemoveFails(f)
    <3>1. flush' = [flush EXCEPT ![f].at = "next"]
      BY <2>7 DEF FlushRemove, FlushRemoveFails
    <3>2. /\ flush'[f].todo = flush[f].todo /\ flush'[f].cur = flush[f].cur
          /\ flush'[f].cut = flush[f].cut /\ flush'[f].at = "next"
      BY <3>1
    <3>3. \A g \in Flushes \ {f} : flush'[g] = flush[g] BY <3>1
    <3>4. FlushOK(flush[f])' BY <2>0, <2>1, <3>2 DEF FlushOK
    <3>5. \A g \in Flushes : FlushOK(flush[g])' BY <1>1, <3>3, <3>4
    <3> QED BY <3>5 DEF FlushInv, FlushOK
  <2> QED BY <1>7, <2>2, <2>3, <2>4, <2>5, <2>6, <2>7 DEF Flush
<1>8. ASSUME NEW r \in Results, Age(r) \/ Start(r) \/ Posting(r)
      PROVE  UNCHANGED flush
  BY <1>8 DEF Age, Start, Posting, PostDone, PostRetry, BackoffElapsed,
     BackoffCancelled, CallEnqueue, Enqueuing, Lock, Prune, PruneFails, BeginWrite,
     EndWrite, Rename, EnqueueFails
<1>9. CASE UNCHANGED vars BY <1>6, <1>9 DEF vars
<1> QED BY <1>3, <1>4, <1>5, <1>6, <1>7, <1>8, <1>9 DEF Next

(* A result that its worker is done with is never lost sight of.            *)
LEMMA AccountStep ==
  ASSUME IInv, [Next]_vars
  PROVE  ResultAccounted'
<1>0. TypeOK /\ WorkInv /\ DirInv /\ FlushInv /\ ResultAccounted BY DEF IInv
<1>1. SUFFICES ASSUME NEW r \in Results, stage'[r] = "done"
               PROVE  r \in resolved' \cup dir' \cup discarded' \cup abandoned'
  BY DEF ResultAccounted
<1>2. CASE stage[r] = "done" /\ r \notin dir
  BY <1>0, <1>2, Grows DEF ResultAccounted
<1>3. CASE r \in dir
  <2>1. ASSUME NEW s \in Results, Prune(s), r \notin dir' PROVE r \in discarded'
    BY <1>3, <2>1 DEF Prune
  <2>2. ASSUME NEW f \in Flushes, FlushRemove(f), r \notin dir'
        PROVE  r \in discarded' \cup resolved'
    <3>1. r = flush[f].cur /\ r \in resolved \cup flush[f].cut
      BY <1>0, <1>3, <2>2 DEF FlushRemove, FlushInv
    <3> QED BY <1>3, <2>2, <3>1, Grows DEF FlushRemove
  <2> QED
    BY <1>3, <2>1, <2>2, DirChanges DEF Rename, EndWrite, EnqueueFails
<1>4. CASE stage[r] # "done"
  <2> USE <1>0, <1>1, <1>4 DEF TypeOK, Goto
  <2>1. ASSUME NEW s \in Results, Posting(s)
        PROVE  r \in resolved' \cup dir' \cup abandoned'
    BY <2>1 DEF Posting, PostDone, AnsweredDone, PostRetry, BackoffElapsed,
       BackoffCancelled, CallEnqueue, Enqueuing, Lock, Prune, PruneFails,
       BeginWrite, EndWrite, Rename, EnqueueFails
  <2>2. ASSUME NEW s \in Results, Age(s) \/ Start(s) PROVE FALSE
    BY <2>2 DEF Age, Start, workVars
  <2>3. ASSUME Crash PROVE r \in abandoned'
    BY <2>3 DEF Crash
  <2>4. ASSUME GoOnline \/ EndCycle \/ UNCHANGED vars PROVE FALSE
    BY <2>4 DEF GoOnline, EndCycle, vars, workVars
  <2>5. ASSUME NEW f \in Flushes, Flush(f) PROVE FALSE
    BY <2>5, FlushKeepsWork DEF workVars
  <2> QED BY <2>1, <2>2, <2>3, <2>4, <2>5 DEF Next
<1> QED BY <1>2, <1>3, <1>4

(* mu and the entries to be pruned move together.                           *)
LEMMA LockChanges ==
  ASSUME [Next]_vars
  PROVE  \/ UNCHANGED <<lock, victims>>
         \/ lock' = None /\ victims' \in {victims, {}}
         \/ \E r \in Results : Lock(r) \/ Prune(r) \/ PruneFails(r)
BY FlushKeepsWork DEF Next, GoOnline, EndCycle, Crash, Age, Start, Posting, PostDone,
   PostRetry, BackoffElapsed, BackoffCancelled, CallEnqueue, Enqueuing,
   BeginWrite, EndWrite, Rename, EnqueueFails, workVars, vars

(* The sets of entries that count against the cap, and of those that stay   *)
(* when the pruning is over, have members only by a rename or by the lock.  *)
LEMMA KeptShrinks ==
  ASSUME IInv, [Next]_vars,
         \A r \in Results : ~Rename(r) /\ ~Lock(r)
  PROVE  /\ dir' \ stuck' \subseteq dir \ stuck
         /\ victims' # {} \/ lock' # None => Kept' \subseteq Kept
<1>0. TypeOK /\ WorkInv BY DEF IInv
<1>1. dir' \subseteq dir
  BY DirChanges DEF EndWrite, EnqueueFails, Prune, FlushRemove
<1>2. dir' \ stuck' \subseteq dir \ stuck BY <1>1, Grows
<1>3. CASE UNCHANGED <<lock, victims>> BY <1>2, <1>3 DEF Kept
<1>4. CASE lock' = None /\ victims' \in {victims, {}} BY <1>2, <1>4 DEF Kept
<1>5. ASSUME NEW r \in Results, Prune(r) PROVE Kept' \subseteq Kept
  BY <1>5 DEF Kept, Prune
<1>6. ASSUME NEW r \in Results, PruneFails(r) PROVE Kept' \subseteq Kept
  BY <1>6 DEF Kept, PruneFails
<1> QED BY <1>2, <1>3, <1>4, <1>5, <1>6, LockChanges

(* The cap holds in every step: an entry is put in the directory only into  *)
(* the room that was made for it.                                           *)
LEMMA RoomStep ==
  ASSUME IInv, [Next]_vars
  PROVE  RoomInv'
<1>0. TypeOK /\ WorkInv /\ RoomInv /\ lock' \in Results \cup {None}
  BY TypeStep DEF IInv, TypeOK
<1>1. dir \ stuck \in SUBSET Results /\ Kept \in SUBSET Results
  BY <1>0 DEF TypeOK, Kept
<1>2. ASSUME NEW r \in Results, Rename(r) PROVE RoomInv'
  <2>1. lock = r /\ victims = {}
    BY <1>0, <1>2, Params DEF Rename, WorkInv, Holding
  <2>2. Kept = dir \ stuck BY <2>1 DEF Kept
  <2>3. Cardinality(dir \ stuck) <= MaxEntries - 1
    BY <1>0, <2>1, <2>2, Params DEF RoomInv
  <2>4. Cardinality((dir \ stuck) \cup {r}) <= Cardinality(dir \ stuck) + 1
        /\ Cardinality((dir \ stuck) \cup {r}) \in Nat
        /\ Cardinality(dir \ stuck) \in Nat
    <3>1. (dir \ stuck) \cup {r} \in SUBSET Results BY <1>1
    <3>2. IsFiniteSet(dir \ stuck) /\ Cardinality(dir \ stuck) \in Nat
          /\ Cardinality((dir \ stuck) \cup {r}) \in Nat
      BY <1>1, <3>1, SetsOfResults
    <3> QED BY <3>2, FS_AddElement
  <2>5. dir' \ stuck' \subseteq (dir \ stuck) \cup {r} BY <1>2 DEF Rename
  <2>6. Cardinality(dir' \ stuck') <= Cardinality((dir \ stuck) \cup {r})
        /\ Cardinality(dir' \ stuck') \in Nat
    <3>1. (dir \ stuck) \cup {r} \in SUBSET Results BY <1>1
    <3>2. dir' \ stuck' \in SUBSET Results BY <2>5, <3>1
    <3> QED BY <2>5, <3>1, <3>2, SetsOfResults
  <2>7. Cardinality(dir' \ stuck') <= MaxEntries
    BY <2>3, <2>4, <2>6, Params
  <2>8. lock' = None BY <1>2 DEF Rename
  <2> QED BY <2>7, <2>8 DEF RoomInv, SpoolBounded
<1>3. ASSUME NEW r \in Results, Lock(r) PROVE RoomInv'
  <2>1. Kept' = (dir \ stuck) \ ToPrune /\ dir' \ stuck' = dir \ stuck
    BY <1>3 DEF Lock, Kept, dirVars
  <2>2. Cardinality(dir \ ToPrune) <= MaxEntries - 1
    BY <1>0, PruneLeavesRoom
  <2>3. Cardinality(Kept') <= Cardinality(dir \ ToPrune)
        /\ Cardinality(Kept') \in Nat /\ Cardinality(dir \ ToPrune) \in Nat
    <3>1. dir \ ToPrune \in SUBSET Results /\ Kept' \in SUBSET (dir \ ToPrune)
      BY <1>0, <2>1 DEF TypeOK
    <3>2. Kept' \in SUBSET Results BY <3>1
    <3> QED BY <3>1, <3>2, SetsOfResults
  <2>4. Cardinality(Kept') <= MaxEntries - 1 BY <2>2, <2>3, Params
  <2> QED BY <1>0, <2>1, <2>4 DEF RoomInv, SpoolBounded
<1>4. CASE \A r \in Results : ~Rename(r) /\ ~Lock(r)
  <2>1. dir' \ stuck' \subseteq dir \ stuck BY <1>4, KeptShrinks
  <2>2. Cardinality(dir' \ stuck') <= Cardinality(dir \ stuck)
        /\ Cardinality(dir' \ stuck') \in Nat /\ Cardinality(dir \ stuck) \in Nat
    <3>1. dir' \ stuck' \in SUBSET Results BY <1>1, <2>1
    <3> QED BY <1>1, <2>1, <3>1, SetsOfResults
  <2>3. SpoolBounded'
    BY <1>0, <2>2, Params DEF RoomInv, SpoolBounded
  <2>4. ASSUME lock' # None PROVE Cardinality(Kept') <= MaxEntries - 1
    <3>1. Kept' \subseteq Kept BY <1>4, <2>4, KeptShrinks
    <3>2. lock # None
      BY <1>4, <2>4, LockChanges, <1>0, Params DEF Prune, PruneFails, WorkInv, Holding
    <3>3. Cardinality(Kept) <= MaxEntries - 1 BY <1>0, <3>2 DEF RoomInv
    <3>4. Cardinality(Kept') <= Cardinality(Kept)
          /\ Cardinality(Kept') \in Nat /\ Cardinality(Kept) \in Nat
      <4>1. Kept' \in SUBSET Results BY <1>1, <3>1
      <4> QED BY <1>1, <3>1, <4>1, SetsOfResults
    <3> QED BY <3>3, <3>4, Params
  <2> QED BY <2>3, <2>4 DEF RoomInv
<1> QED BY <1>2, <1>3, <1>4

(* The choice that was made with the lock stays right while the pruning     *)
(* goes on beside flushes that remove entries, and entries that expire.     *)
LEMMA EvictStep ==
  ASSUME IInv, [Next]_vars
  PROVE  EvictInv'
<1>0. TypeOK /\ WorkInv /\ RankInv /\ DirInv /\ EvictInv BY DEF IInv
<1>1. ASSUME NEW r \in Results, Rename(r) PROVE EvictInv'
  <2>1. victims' = {} BY <1>0, <1>1, Params DEF Rename, WorkInv, Holding
  <2> QED BY <2>1 DEF EvictInv
<1>2. ASSUME NEW r \in Results, Lock(r) PROVE EvictInv'
  <2>1. /\ victims' = ToPrune /\ expired' = expired /\ born' = born
        /\ Kept' \subseteq dir \ ToPrune
    BY <1>2 DEF Lock, Kept, dirVars, envVars
  <2> QED BY <1>0, <2>1, PruneChoosesOldest DEF EvictInv, Older
<1>3. CASE \A r \in Results : ~Rename(r) /\ ~Lock(r)
  <2>1. SUFFICES ASSUME NEW v \in victims' \ expired', NEW s \in Kept'
                 PROVE  born'[v] < born'[s]
    BY DEF EvictInv, Older
  <2>2. victims' \subseteq victims
    BY <1>3, VictimChanges DEF Prune, PruneFails
  <2>3. v \in victims \ expired /\ s \in Kept
    BY <1>3, <2>2, Grows, KeptShrinks
  <2>4. born[v] > 0 /\ born[s] > 0 /\ v \in Results /\ s \in Results
    BY <1>0, <2>3 DEF DirInv, TypeOK, Kept
  <2>5. born'[v] = born[v] /\ born'[s] = born[s] BY <2>4, DoneStays
  <2> QED BY <1>0, <2>3, <2>5 DEF EvictInv, Older
<1> QED BY <1>1, <1>2, <1>3
-----------------------------------------------------------------------------
LEMMA InitInv == Init => IInv
<1> SUFFICES ASSUME Init PROVE IInv OBVIOUS
<1> USE Params DEF Init
<1>1. TypeOK
  <2>1. 0 \in 0..Cardinality(Results) BY SetsOfResults
  <2>2. flush \in [Flushes -> FlushType] BY DEF NoFlush, FlushType, FlushStages
  <2>3. /\ stage \in [Results -> Stages] /\ tries \in [Results -> 0..MaxAttempts]
        /\ born \in [Results -> 0..Cardinality(Results)]
    BY <2>1 DEF Stages
  <2>4. crashes \in 0..MaxCrashes OBVIOUS
  <2> QED BY <2>2, <2>3, <2>4 DEF TypeOK, FlushType
<1>2. WorkInv BY DEF WorkInv, Holding
<1>3. Born = {} BY DEF Born
<1>4. RankInv BY <1>3, FS_EmptySet DEF RankInv
<1>5. DirInv BY DEF DirInv
<1>6. FlushInv BY DEF FlushInv, NoFlush
<1>7. ResultAccounted BY DEF ResultAccounted
<1>8. RoomInv
  <2>1. Cardinality(dir \ stuck) = 0 BY FS_EmptySet
  <2> QED BY <2>1 DEF RoomInv, SpoolBounded
<1>9. EvictInv BY DEF EvictInv
<1> QED BY <1>1, <1>2, <1>4, <1>5, <1>6, <1>7, <1>8, <1>9 DEF IInv

(* The invariant is inductive: it holds in every reachable state.           *)
THEOREM Invariance == Spec => []IInv
<1>1. ASSUME IInv, [Next]_vars PROVE IInv'
  BY <1>1, TypeStep, WorkStep, RankStep, DirStep, FlushStep, AccountStep, RoomStep,
     EvictStep
  DEF IInv
<1> QED BY <1>1, InitInv, PTL DEF Spec

(* The state of sendPostbackWithRetry, the spool and its flushes is well    *)
(* typed; no result is attempted more than PostbackMaxAttempts times.       *)
THEOREM TypeCorrect == Spec => []TypeOK
<1>1. IInv => TypeOK BY DEF IInv
<1> QED BY <1>1, Invariance, PTL

(* enqueue keeps the directory at maxEntries at most, whatever the number   *)
(* of workers, flushes, crashes and expiries, but for the files that        *)
(* os.Remove has failed for.                                                *)
THEOREM CapKept == Spec => []SpoolBounded
<1>1. IInv => SpoolBounded BY DEF IInv, RoomInv
<1> QED BY <1>1, Invariance, PTL

(* What the directory shows under a final name is complete, at every        *)
(* moment: the rename comes after the write, and no name is used twice.     *)
THEOREM EntriesWhole == Spec => []NoPartialEntry
<1>1. IInv => NoPartialEntry BY DEF IInv, DirInv, NoPartialEntry
<1> QED BY <1>1, Invariance, PTL

(* A result whose worker is done was answered for good, is in the spool,    *)
(* was discarded there, or was given up in one of the ways the code logs.   *)
THEOREM NoneForgotten == Spec => []ResultAccounted
<1>1. IInv => ResultAccounted BY DEF IInv
<1> QED BY <1>1, Invariance, PTL

(* pruneLocked evicts in the order of creation, also when a flush removes   *)
(* entries while the pruning goes on: no younger entry goes for capacity    *)
(* while an older one that can be removed stays.                            *)
THEOREM OldestEvicted == Spec => EvictsOldest
<1>1. ASSUME IInv, [Next]_vars, NEW r \in discarded' \ (discarded \cup expired),
             NEW s \in dir' \ stuck
      PROVE  Older(r, s)
  <2>0. TypeOK /\ RankInv /\ DirInv /\ FlushInv /\ EvictInv BY <1>1 DEF IInv
  <2>1. ASSUME NEW w \in Results, Prune(w) PROVE Older(r, s)
    <3>1. PICK v \in Oldest(victims, 1) :
            /\ dir' = dir \ {v}
            /\ discarded' = IF v \in dir THEN discarded \cup {v} ELSE discarded
      BY <2>1 DEF Prune
    <3>2. r = v /\ s \in dir \ stuck /\ s # v BY <1>1, <3>1
    <3>3. victims \subseteq Born BY <2>0 DEF DirInv, Born, TypeOK
    <3>4. r \in victims \ expired BY <1>1, <3>2 DEF Oldest
    <3>5. CASE s \in victims BY <2>0, <3>2, <3>3, <3>5, OldestOne
    <3>6. CASE s \notin victims
      BY <2>0, <3>2, <3>4, <3>6 DEF EvictInv, Kept
    <3> QED BY <3>5, <3>6
  <2>2. ASSUME NEW f \in Flushes, FlushRemove(f) PROVE FALSE
    BY <1>1, <2>0, <2>2 DEF FlushRemove, FlushInv
  <2>3. \/ UNCHANGED discarded
        \/ \E w \in Results : Prune(w)
        \/ \E f \in Flushes : FlushRemove(f)
    BY <1>1 DEF Next, GoOnline, EndCycle, Crash, Age, Start, Posting, PostDone,
       PostRetry, BackoffElapsed, BackoffCancelled, CallEnqueue, Enqueuing, Lock,
       PruneFails, BeginWrite, EndWrite, Rename, EnqueueFails, Flush, FlushList,
       FlushReturns, FlushRead, FlushReadFails, FlushDone, FlushStops,
       FlushRemoveFails, history, vars
  <2> QED BY <1>1, <2>1, <2>2, <2>3
<1>2. IInv /\ [Next]_vars
        => [\A r \in discarded' \ (discarded \cup expired) :
              \A s \in dir' \ stuck : Older(r, s)]_vars
  BY <1>1
<1> QED BY <1>2, Invariance, PTL DEF Spec, EvictsOldest
=============================================================================
