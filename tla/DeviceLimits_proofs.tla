------------------------ MODULE DeviceLimits_proofs ------------------------
(***************************************************************************)
(* Proofs about DeviceLimits, for every width of the integers, every       *)
(* default, every number an operator may try and every size of a write.    *)
(* The inductive invariant is Inv: its parts Rests (nothing of a command   *)
(* is left while the numbers can change), Choice, Retries and the property *)
(* OutputBounded need one another and the types.  Waits, the relation of   *)
(* the backoff to the number of the attempt, is inductive relative to Inv. *)
(***************************************************************************)
EXTENDS DeviceLimits, InductionLemmas, TLAPS

USE NilAssumption, WidthAssumption, DefaultAssumption, BackoffAssumption,
    InputAssumption, ChunkAssumption

(* Whatever a field holds, the number in force is an int, and a plain one  *)
(* is positive. *)
InForce(n, k) == IF n # Nil /\ n > 0 THEN Scaled(n, k) ELSE Default[k]

LEMMA NumberInForce ==
    ASSUME NEW n \in Int \cup {Nil}, NEW k \in Knobs
    PROVE  /\ InForce(n, k) \in Int
           /\ k \in {"max-output-bytes", "postback-max-attempts"} => InForce(n, k) \in Nat \ {0}
<1>1. \A m \in Int : Wrap(m) \in Int
  BY DEF Wrap
<1>2. Unit(k) \in Nat
  BY DEF Unit, Knobs
<1>3. ASSUME n \in Int PROVE Scaled(n, k) \in Int
  <2>1. n * Unit(k) \in Int
    BY <1>2, <1>3
  <2>2. QED
    BY <1>1, <1>3, <2>1 DEF Scaled
<1>4. InForce(n, k) \in Int
  BY <1>3 DEF InForce
<1>5. ASSUME k \in {"max-output-bytes", "postback-max-attempts"}
      PROVE  InForce(n, k) \in Nat \ {0}
  <2>1. Unit(k) = 1
    BY <1>5 DEF Unit
  <2>2. QED
    BY <2>1 DEF InForce, Scaled
<1>6. QED
  BY <1>4, <1>5

LEMMA ResolvedType ==
    ASSUME file \in [Knobs -> Int \cup {Nil}]
    PROVE  /\ \A k \in Knobs : Resolved(k) \in Int
           /\ Limit \in Nat \ {0} /\ Attempts \in Nat \ {0}
<1>1. \A k \in Knobs : Resolved(k) = InForce(file[k], k)
  BY DEF Resolved, InForce
<1>2. "max-output-bytes" \in Knobs /\ "postback-max-attempts" \in Knobs
  BY DEF Knobs
<1>3. QED
  BY <1>1, <1>2, NumberInForce DEF Limit, Attempts

(* The first delay is positive and at most MaxBackoff. *)
LEMMA BaseInRange ==
    ASSUME file \in [Knobs -> Int \cup {Nil}]
    PROVE  Base \in 1..MaxBackoff
<1>1. "postback-base-retry-backoff-seconds" \in Knobs
  BY DEF Knobs
<1>2. Resolved("postback-base-retry-backoff-seconds") \in Int
  BY <1>1, ResolvedType
<1>3. Default["postback-base-retry-backoff-seconds"] \in Nat \ {0}
  BY <1>1
<1>4. QED
  BY <1>2, <1>3 DEF Base, Smaller

(* Doubling stays in the range, and so does the jitter. *)
LEMMA DoublingInRange ==
    ASSUME NEW b \in 1..MaxBackoff
    PROVE  Doubled(b) \in 1..MaxBackoff
BY DEF Doubled

LEMMA JitterInRange ==
    ASSUME Base \in 1..MaxBackoff, NEW b \in 1..MaxBackoff, NEW d \in Jittered(b)
    PROVE  d \in 1..MaxBackoff
BY DEF Jittered, Larger, Smaller

(* One write keeps what a writer promises. *)
Promise(w) ==
    /\ w \in Writer
    /\ w.kept = Smaller(w.produced, Limit)
    /\ w.kept <= w.cap /\ w.cap <= Limit

LEMMA NewWriterPromise ==
    ASSUME Limit \in Nat \ {0}
    PROVE  Promise(NewWriter)
BY DEF Promise, NewWriter, Writer, Smaller

LEMMA WritePromise ==
    ASSUME Limit \in Nat \ {0}, NEW w, Promise(w), NEW n \in Nat
    PROVE  Promise(Written(w, n))
<1>1. w.kept \in Nat /\ w.cap \in Nat /\ w.produced \in Nat
  BY DEF Promise, Writer
<1>2. CASE Limit > w.kept
  <2> DEFINE k == w.kept + Kept(w, n)
  <2>1. k \in Nat /\ k = Smaller(w.produced + n, Limit)
    BY <1>1, <1>2 DEF Promise, Kept, Smaller
  <2>2. Grown(w, k) \in Nat /\ k <= Grown(w, k) /\ Grown(w, k) <= Limit
    BY <1>1, <2>1 DEF Promise, Grown, Smaller, Larger
  <2>3. Written(w, n) = [kept |-> k, cap |-> Grown(w, k), produced |-> w.produced + n]
    BY <1>2 DEF Written
  <2>4. QED
    BY <1>1, <2>1, <2>2, <2>3 DEF Promise, Writer
<1>3. CASE ~(Limit > w.kept)
  <2>1. Written(w, n) = [w EXCEPT !.produced = @ + n]
    BY <1>3 DEF Written
  <2>2. Written(w, n) = [kept |-> w.kept, cap |-> w.cap, produced |-> w.produced + n]
    BY <2>1 DEF Promise, Writer
  <2>3. QED
    BY <1>1, <1>3, <2>2 DEF Promise, Writer, Smaller
<1>4. QED
  BY <1>2, <1>3

(* The inductive invariant. *)
Rests ==
    /\ phase # "running" => out = [s \in Streams |-> NewWriter]
    /\ phase = "posting" <=> attempt # 0
Choice ==
    \A k \in Knobs :
        \/ chosen[k] # Nil /\ chosen[k] > 0 /\ file[k] = chosen[k]
        \/ chosen[k] = Nil /\ ~(file[k] # Nil /\ file[k] > 0)
Retries == attempt > 1 => backoff \in 1..MaxBackoff /\ delay \in 1..MaxBackoff
Promises == \A s \in Streams : Promise(out[s])
Inv == TypeOK /\ Rests /\ Choice /\ Retries /\ Promises

LEMMA InvInit == Init => Inv
<1> SUFFICES ASSUME Init PROVE Inv
  OBVIOUS
<1>1. PICK v \in Values \cup {Nil} :
        /\ file = [k \in Knobs |-> v]
        /\ chosen = [k \in Knobs |-> IF v \in Int /\ v > 0 THEN v ELSE Nil]
  BY DEF Init
<1>2. v \in Int \cup {Nil}
  OBVIOUS
<1>3. file \in [Knobs -> Int \cup {Nil}] /\ chosen \in [Knobs -> Int \cup {Nil}]
  BY <1>1, <1>2
<1>4. Limit \in Nat \ {0} /\ Attempts \in Nat \ {0}
  BY <1>3, ResolvedType
<1>5. Promises
  BY <1>4, NewWriterPromise DEF Init, Promises
<1>6. TypeOK
  <2>1. NewWriter \in Writer
    BY DEF NewWriter, Writer
  <2>2. QED
    BY <1>3, <1>4, <2>1 DEF Init, TypeOK
<1>7. Choice
  BY <1>1, <1>2 DEF Choice
<1>8. Rests /\ Retries
  BY DEF Init, Rests, Retries
<1>9. QED
  BY <1>5, <1>6, <1>7, <1>8 DEF Inv

(* Config and Update change the numbers while nothing depends on them. *)
LEMMA InvSettings ==
    ASSUME Inv, NEW given \in SUBSET Knobs, NEW v \in Values,
           Config(given, v) \/ Update(given, v)
    PROVE  Inv'
<1>1. v \in Int /\ (given # {} => v > 0)
  BY DEF Config, Update, Valid
<1>2. \A k \in given : v # FlagUnset
  BY DEF Config, Update, Valid, FlagUnset
<1>3. UNCHANGED <<forced, phase, out, attempt, backoff, delay>>
  BY DEF Config, Update, post
<1>4. phase = "stopped" /\ attempt = 0 /\ out = [s \in Streams |-> NewWriter]
  BY DEF Config, Update, Inv, Rests
<1>5. file \in [Knobs -> Int \cup {Nil}] /\ chosen \in [Knobs -> Int \cup {Nil}]
  BY DEF Inv, TypeOK
<1>6. /\ file' \in [Knobs -> Int \cup {Nil}] /\ chosen' \in [Knobs -> Int \cup {Nil}]
      /\ Choice'
  <2>1. CASE Config(given, v)
    <3>1. \A k \in Knobs : /\ file'[k] = IF k \in given THEN v ELSE Nil
                           /\ chosen'[k] = IF k \in given THEN v ELSE Nil
      BY <1>2, <2>1 DEF Config, Flag, TuningPtr, FlagUnset
    <3>2. \A k \in given : v > 0
      BY <2>1 DEF Config, Valid
    <3>3. Choice'
      BY <1>1, <3>1, <3>2 DEF Choice
    <3>4. file' = [k \in Knobs |-> IF k \in given THEN v ELSE Nil]
      BY <1>2, <2>1 DEF Config, Flag, TuningPtr, FlagUnset
    <3>5. QED
      BY <1>1, <2>1, <3>3, <3>4 DEF Config
  <2>2. CASE Update(given, v)
    <3>1. file' = [k \in Knobs |-> IF k \in given THEN v ELSE file[k]]
      BY <1>2, <2>2 DEF Update, Flag, TuningPtr, FlagUnset
    <3>2. chosen' = [k \in Knobs |-> IF k \in given THEN v ELSE chosen[k]]
      BY <2>2 DEF Update
    <3>3. \A k \in given : v > 0
      BY <2>2 DEF Update, Valid
    <3>4. Choice
      BY DEF Inv
    <3>5. ASSUME NEW k \in Knobs
          PROVE  \/ chosen'[k] # Nil /\ chosen'[k] > 0 /\ file'[k] = chosen'[k]
                 \/ chosen'[k] = Nil /\ ~(file'[k] # Nil /\ file'[k] > 0)
      <4>1. CASE k \in given
        BY <1>1, <3>1, <3>2, <3>3, <4>1
      <4>2. CASE k \notin given
        <5>1. file'[k] = file[k] /\ chosen'[k] = chosen[k]
          BY <3>1, <3>2, <4>2
        <5>2. QED
          BY <3>4, <5>1 DEF Choice
      <4>3. QED
        BY <4>1, <4>2
    <3>6. QED
      BY <1>1, <1>5, <3>1, <3>2, <3>5 DEF Choice
  <2>3. QED
    BY <2>1, <2>2
<1>7. Limit' \in Nat \ {0} /\ Attempts' \in Nat \ {0}
  <2>1. "max-output-bytes" \in Knobs /\ "postback-max-attempts" \in Knobs
    BY DEF Knobs
  <2>2. /\ Limit' = InForce(file'["max-output-bytes"], "max-output-bytes")
        /\ Attempts' = InForce(file'["postback-max-attempts"], "postback-max-attempts")
    BY DEF Limit, Attempts, Resolved, InForce
  <2>3. QED
    BY <1>6, <2>1, <2>2, NumberInForce
<1>8. Promises'
  <2>1. Promise(NewWriter)'
    BY <1>7 DEF Promise, NewWriter, Writer, Smaller
  <2>2. \A s \in Streams : out'[s] = NewWriter
    BY <1>3, <1>4
  <2>3. QED
    BY <2>1, <2>2 DEF Promises, Promise, NewWriter
<1>9. TypeOK'
  BY <1>3, <1>4, <1>6, <1>7 DEF Inv, TypeOK
<1>10. Rests' /\ Retries'
  BY <1>3, <1>4 DEF Rests, Retries
<1>11. QED
  BY <1>6, <1>8, <1>9, <1>10 DEF Inv

(* A step that leaves the numbers alone leaves the limits alone. *)
LEMMA LimitsKept ==
    ASSUME UNCHANGED settings
    PROVE  /\ Limit' = Limit /\ Attempts' = Attempts /\ Base' = Base
           /\ \A w : Promise(w)' <=> Promise(w)
BY DEF settings, Limit, Attempts, Base, Resolved, Promise

(* The steps of a running service. *)
LEMMA InvService ==
    ASSUME Inv, Start \/ Stop \/ RunCommand \/ Post \/ Retry \/ Posted
    PROVE  Inv'
<1>1. UNCHANGED settings
  BY DEF Start, Stop, Service, RunCommand, Post, Retry, Posted
<1>2. Limit' = Limit /\ Attempts' = Attempts /\ (\A w : Promise(w)' <=> Promise(w))
  BY <1>1, LimitsKept
<1>3. Limit \in Nat \ {0} /\ Attempts \in Nat \ {0} /\ Base \in 1..MaxBackoff
  BY ResolvedType, BaseInRange DEF Inv, TypeOK
<1>4. Choice'
  BY <1>1 DEF Inv, Choice, settings
<1>5. Promise(NewWriter) /\ NewWriter \in Writer
  BY <1>3, NewWriterPromise DEF Promise
<1>6. \/ UNCHANGED out
      \/ out' = [s \in Streams |-> NewWriter]
  BY DEF Start, Stop, Service, RunCommand, Post, Retry, Posted
<1>7. /\ Promises'
      /\ out' \in [Streams -> Writer]
  <2>1. CASE UNCHANGED out
    BY <1>2, <2>1 DEF Inv, Promises, TypeOK, Promise
  <2>2. CASE out' = [s \in Streams |-> NewWriter]
    BY <1>2, <1>5, <2>2 DEF Promises, Promise
  <2>3. QED
    BY <1>6, <2>1, <2>2
<1>8. CASE Start \/ Stop \/ RunCommand
  <2>1. UNCHANGED <<attempt, backoff, delay>>
    BY <1>8 DEF Start, Stop, Service, RunCommand, post
  <2>2. TypeOK'
    BY <1>1, <1>2, <1>7, <1>8, <2>1 DEF Inv, TypeOK, settings, Start, Stop, Service, RunCommand
  <2>3. Rests' /\ Retries'
    BY <1>8, <2>1 DEF Inv, Rests, Retries, Start, Stop, Service, RunCommand
  <2>4. QED
    BY <1>4, <1>7, <2>2, <2>3 DEF Inv
<1>9. CASE Post \/ Posted
  <2>1. TypeOK'
    BY <1>1, <1>2, <1>3, <1>7, <1>9 DEF Inv, TypeOK, settings, Post, Posted
  <2>2. Rests' /\ Retries'
    BY <1>9 DEF Inv, Rests, Retries, Post, Posted
  <2>3. QED
    BY <1>4, <1>7, <2>1, <2>2 DEF Inv
<1>10. CASE Retry
  <2>1. attempt \in Nat /\ attempt < Attempts
    BY <1>10 DEF Retry, MayRetry, Inv, TypeOK
  <2>2. attempt # 0 /\ (attempt = 1 \/ backoff \in 1..MaxBackoff)
    BY <1>10, <2>1 DEF Inv, Rests, Retries, Retry
  <2>3. backoff' \in 1..MaxBackoff /\ delay' \in 1..MaxBackoff
    <3>1. CASE attempt = 1
      BY <1>3, <1>10, <3>1, JitterInRange DEF Retry
    <3>2. CASE attempt # 1
      <4>1. backoff' = Doubled(backoff) /\ backoff' \in 1..MaxBackoff
        BY <1>10, <2>2, <3>2, DoublingInRange DEF Retry
      <4>2. QED
        BY <1>3, <1>10, <4>1, JitterInRange DEF Retry
    <3>3. QED
      BY <3>1, <3>2
  <2>4. phase = "posting" /\ attempt' = attempt + 1 /\ UNCHANGED <<phase, out>>
    BY <1>10 DEF Retry
  <2>5. TypeOK'
    BY <1>1, <1>2, <1>3, <1>7, <2>1, <2>3, <2>4 DEF Inv, TypeOK, settings
  <2>6. Rests' /\ Retries'
    BY <2>1, <2>3, <2>4 DEF Inv, Rests, Retries
  <2>7. QED
    BY <1>4, <1>7, <2>5, <2>6 DEF Inv
<1>11. QED
  BY <1>8, <1>9, <1>10

(* A write. *)
LEMMA InvWrite ==
    ASSUME Inv, NEW s \in Streams, NEW n \in Chunks, Write(s, n)
    PROVE  Inv'
<1>1. UNCHANGED settings /\ UNCHANGED <<phase, attempt, backoff, delay>>
  BY DEF Write, post
<1>2. Limit' = Limit /\ Attempts' = Attempts /\ (\A w : Promise(w)' <=> Promise(w))
  BY <1>1, LimitsKept
<1>3. Limit \in Nat \ {0}
  BY ResolvedType DEF Inv, TypeOK
<1>4. Promise(Written(out[s], n))
  BY <1>3, WritePromise DEF Inv, Promises
<1>5. out' = [out EXCEPT ![s] = Written(out[s], n)] /\ out \in [Streams -> Writer]
  BY DEF Write, Inv, TypeOK
<1>6. \A t \in Streams : Promise(out'[t])
  BY <1>4, <1>5 DEF Inv, Promises
<1>7. Promises'
  BY <1>2, <1>6 DEF Promises, Promise
<1>8. TypeOK'
  BY <1>1, <1>2, <1>4, <1>5 DEF Inv, TypeOK, settings, Promise
<1>9. Rests' /\ Retries' /\ Choice'
  BY <1>1 DEF Write, Inv, Rests, Retries, Choice, settings
<1>10. QED
  BY <1>7, <1>8, <1>9 DEF Inv

LEMMA Inductive == Spec => []Inv
<1>1. Inv /\ [Next]_vars => Inv'
  <2> SUFFICES ASSUME Inv, [Next]_vars PROVE Inv'
    OBVIOUS
  <2>1. ASSUME NEW given \in SUBSET Knobs, NEW v \in Values,
               Config(given, v) \/ Update(given, v)
        PROVE  Inv'
    BY <2>1, InvSettings
  <2>2. CASE Start \/ Stop \/ RunCommand \/ Post \/ Retry \/ Posted
    BY <2>2, InvService
  <2>3. ASSUME NEW s \in Streams, NEW n \in Chunks, Write(s, n) PROVE Inv'
    BY <2>3, InvWrite
  <2>4. CASE UNCHANGED vars
    <3>1. UNCHANGED settings /\ UNCHANGED <<phase, out, attempt, backoff, delay>>
      BY <2>4 DEF vars, post
    <3>2. Limit' = Limit /\ Attempts' = Attempts /\ (\A w : Promise(w)' <=> Promise(w))
      BY <3>1, LimitsKept
    <3>3. TypeOK' /\ Rests' /\ Choice' /\ Retries'
      BY <3>1, <3>2 DEF Inv, TypeOK, Rests, Choice, Retries, settings
    <3>4. Promises'
      BY <3>1, <3>2 DEF Inv, Promises, Promise
    <3>5. QED
      BY <3>3, <3>4 DEF Inv
  <2>5. QED
    BY <2>1, <2>2, <2>3, <2>4 DEF Next
<1>2. QED
  BY <1>1, InvInit, PTL DEF Spec

(* Every number has its type; a result is posted at most Attempts times.   *)
THEOREM TypeCorrect == Spec => []TypeOK
<1>1. Inv => TypeOK
  BY DEF Inv
<1>2. QED
  BY <1>1, Inductive, PTL

(* The number in force is the operator's last choice or the default        *)
(* (config_context.go:135, update.go:94).                                  *)
THEOREM OperatorDecides == Spec => []ChoiceInForce
<1>1. Inv => ChoiceInForce
  BY DEF Inv, Choice, ChoiceInForce, Resolved
<1>2. QED
  BY <1>1, Inductive, PTL

(* A writer keeps a prefix up to its limit, in an array no larger than     *)
(* that (bounded_writer.go:36, 61).                                        *)
THEOREM WritersBounded == Spec => []OutputBounded
<1>1. Inv => OutputBounded
  BY DEF Inv, Promises, Promise, OutputBounded
<1>2. QED
  BY <1>1, Inductive, PTL

(* A result mentions exactly the bytes that were lost                      *)
(* (bounded_writer.go:111, result.go:46).                                  *)
THEOREM LossTold == Spec => []LossReported
<1>1. ASSUME Inv PROVE LossReported
  <2>1. "stdout" \in Streams /\ "stderr" \in Streams
    BY DEF Streams
  <2>2. Limit \in Nat \ {0}
    BY <1>1, ResolvedType DEF Inv, TypeOK
  <2> DEFINE k(s) == out[s].kept
             p(s) == out[s].produced
             over(s) == Larger(p(s) - Limit, 0)
  <2>3. ASSUME NEW s \in Streams
        PROVE  /\ k(s) \in Nat /\ p(s) \in Nat /\ over(s) = p(s) - k(s)
               /\ over(s) >= 0 /\ (p(s) > k(s) <=> over(s) > 0)
    BY <1>1, <2>2 DEF Inv, Promises, Promise, Writer, Smaller, Larger
  <2>4. Truncated <=> p("stdout") > k("stdout") \/ p("stderr") > k("stderr")
    BY DEF Truncated, Streams
  <2>5. Total("kept") = k("stdout") + k("stderr")
        /\ Total("produced") = p("stdout") + p("stderr")
    BY DEF Total
  <2>6. Signal.truncated <=> over("stdout") + over("stderr") > 0
    BY <2>1, <2>3, <2>4 DEF Signal
  <2>7. Signal.produced - Signal.kept = over("stdout") + over("stderr")
    <3>1. CASE Truncated
      BY <2>1, <2>3, <2>5, <3>1 DEF Signal
    <3>2. CASE ~Truncated
      BY <2>1, <2>3, <2>4, <3>2 DEF Signal
    <3>3. QED
      BY <3>1, <3>2
  <2>8. QED
    BY <2>6, <2>7 DEF LossReported
<1>2. QED
  BY <1>1, Inductive, PTL

(* Every byte of output is kept or reported as lost, and no more is kept   *)
(* than the limit allows (bounded_writer.go:36, 111).                      *)
THEOREM OutputTold == Spec => []OutputAccounted
<1>1. OutputBounded /\ LossReported <=> OutputAccounted
  BY DEF OutputAccounted
<1>2. QED
  BY <1>1, WritersBounded, LossTold, PTL

(* The delay that the next retry has to reach.                             *)
Wanted(n) == Smaller(Base * 2 ^ (n - 2), MaxBackoff)

(* The backoff is never behind the doublings, and the jitter takes at most *)
(* a quarter of it.                                                        *)
Waits ==
    attempt > 1 => backoff >= Wanted(attempt) /\ 4 * delay >= 3 * backoff

(* The wanted delay is the base at first and at most doubles.              *)
LEMMA WantedDoubles ==
    ASSUME Base \in 1..MaxBackoff
    PROVE  /\ Wanted(2) = Base
           /\ \A n \in Nat : n >= 2 =>
                /\ Wanted(n) \in Int /\ Wanted(n + 1) \in Int
                /\ Wanted(n + 1) <= 2 * Wanted(n) /\ Wanted(n + 1) <= MaxBackoff
<1>1. Wanted(2) = Base
  <2>1. 2 ^ (2 - 2) = 1
    OBVIOUS
  <2> QED BY <2>1 DEF Wanted, Smaller
<1>2. ASSUME NEW n \in Nat, n >= 2
      PROVE  /\ Wanted(n) \in Int /\ Wanted(n + 1) \in Int
             /\ Wanted(n + 1) <= 2 * Wanted(n) /\ Wanted(n + 1) <= MaxBackoff
  <2> DEFINE k == n - 2
             p == 2 ^ k
             q == 2 ^ (k + 1)
  <2>1. k \in Nat
    BY <1>2
  <2>2. p \in Nat /\ q = 2 * p
    BY <2>1, PowerOfTwo
  <2>3. Wanted(n) = Smaller(Base * p, MaxBackoff)
    BY DEF Wanted
  <2>4. Wanted(n + 1) = Smaller(Base * q, MaxBackoff)
    <3>1. (n + 1) - 2 = k + 1
      BY <1>2
    <3> QED BY <3>1 DEF Wanted
  <2> HIDE DEF p, q
  <2>5. Base * p \in Nat /\ Base * q = 2 * (Base * p)
    BY <2>2
  <2> QED BY <2>3, <2>4, <2>5 DEF Smaller
<1> QED BY <1>1, <1>2

(* The doubling keeps up with the wanted delay.                            *)
LEMMA DoublingKeepsUp ==
    ASSUME Base \in 1..MaxBackoff, NEW n \in Nat, n >= 2,
           NEW b \in 1..MaxBackoff, b >= Wanted(n)
    PROVE  Doubled(b) >= Wanted(n + 1)
<1>1. /\ Wanted(n) \in Int /\ Wanted(n + 1) \in Int
      /\ Wanted(n + 1) <= 2 * Wanted(n) /\ Wanted(n + 1) <= MaxBackoff
  BY WantedDoubles
<1> QED BY <1>1 DEF Doubled

LEMMA JitterTakesAQuarter ==
    ASSUME Base \in 1..MaxBackoff, NEW b \in 1..MaxBackoff, NEW d \in Jittered(b)
    PROVE  4 * d >= 3 * b
<1>1. Larger(b, -b) = b
  BY DEF Larger
<1>2. PICK j \in Int : -b <= 4 * j
        /\ d = IF b + j <= 0 THEN Base ELSE Smaller(b + j, MaxBackoff)
  BY <1>1 DEF Jittered
<1>3. b + j > 0
  BY <1>2
<1> QED BY <1>2, <1>3 DEF Smaller

LEMMA WaitsStep ==
    ASSUME Inv, Waits, [Next]_vars
    PROVE  Waits'
<1>1. CASE attempt' \in 0..1
  BY <1>1 DEF Waits
<1>2. CASE UNCHANGED <<settings, attempt, backoff, delay>>
  BY <1>2, LimitsKept DEF Waits, Wanted
<1>3. CASE Retry
  <2>1. /\ attempt \in Nat /\ attempt # 0 /\ attempt' = attempt + 1
        /\ Base \in 1..MaxBackoff /\ Base' = Base
    BY <1>3, BaseInRange, LimitsKept, ResolvedType DEF Inv, TypeOK, Rests, Retry
  <2>2. backoff' \in 1..MaxBackoff /\ backoff' >= Wanted(attempt + 1)
    <3>1. CASE attempt = 1
      BY <1>3, <2>1, <3>1, WantedDoubles DEF Retry
    <3>2. CASE attempt # 1
      <4>1. backoff \in 1..MaxBackoff /\ backoff >= Wanted(attempt) /\ attempt >= 2
        BY <2>1, <3>2 DEF Inv, Retries, Waits
      <4>2. backoff' = Doubled(backoff)
        BY <1>3, <3>2 DEF Retry
      <4> QED BY <2>1, <4>1, <4>2, DoublingInRange, DoublingKeepsUp
    <3> QED BY <3>1, <3>2
  <2>3. delay' \in Jittered(backoff')
    BY <1>3 DEF Retry
  <2>4. 4 * delay' >= 3 * backoff'
    BY <2>1, <2>2, <2>3, JitterTakesAQuarter
  <2>5. Wanted(attempt)' = Wanted(attempt + 1)
    BY <2>1 DEF Wanted
  <2> QED BY <2>2, <2>4, <2>5 DEF Waits
<1>4. CASE Post \/ Posted
  <2>1. attempt' = 1 \/ attempt' = 0
    BY <1>4 DEF Post, Posted
  <2> QED BY <1>1, <2>1
<1>5. ASSUME NEW given \in SUBSET Knobs, NEW v \in Values,
             Config(given, v) \/ Update(given, v)
      PROVE  attempt' \in 0..1
  <2>1. phase = "stopped" /\ attempt' = attempt
    BY <1>5 DEF Config, Update, post
  <2>2. attempt = 0
    BY <2>1 DEF Inv, Rests
  <2> QED BY <2>1, <2>2
<1>6. CASE Start \/ Stop \/ RunCommand \/ UNCHANGED vars
  <2>1. UNCHANGED <<settings, attempt, backoff, delay>>
    BY <1>6 DEF Start, Stop, Service, RunCommand, vars, post
  <2> QED BY <1>2, <2>1
<1>7. ASSUME NEW s \in Streams, NEW n \in Chunks, Write(s, n)
      PROVE  UNCHANGED <<settings, attempt, backoff, delay>>
  BY <1>7 DEF Write, post
<1> QED BY <1>1, <1>2, <1>3, <1>4, <1>5, <1>6, <1>7 DEF Next

(* A retry waits at least three quarters of the doubled base, whatever     *)
(* number is configured and however many attempts are allowed              *)
(* (service.go:699).                                                       *)
THEOREM RetriesSpaced == Spec => []RetriesWait
<1>1. Init => Waits
  BY DEF Init, Waits
<1>2. ASSUME Inv, Waits PROVE RetriesWait
  <2>1. CASE attempt > 1
    <3>1. /\ attempt \in Nat /\ backoff \in 1..MaxBackoff /\ delay \in 1..MaxBackoff
          /\ Base \in 1..MaxBackoff
      BY <1>2, <2>1, BaseInRange, ResolvedType DEF Inv, TypeOK, Retries
    <3>2. Wanted(attempt) \in Int
      BY <2>1, <3>1, WantedDoubles
    <3>3. 4 * delay >= 3 * Wanted(attempt)
      BY <1>2, <2>1, <3>1, <3>2 DEF Waits
    <3> QED BY <2>1, <3>1, <3>3 DEF Wanted, RetriesWait, DelayInRange
  <2>2. CASE ~(attempt > 1)
    BY <2>2 DEF RetriesWait, DelayInRange
  <2> QED BY <2>1, <2>2
<1>3. QED
  BY <1>1, <1>2, WaitsStep, Inductive, PTL DEF Spec

(* A token is renewed in time (time.go:153).                               *)
THEOREM RenewalInTime == Spec => []RenewedInTime
<1>1. ASSUME Inv PROVE RenewedInTime
  <2>1. "sas-token-lifetime-hours" \in Knobs
    BY DEF Knobs
  <2>2. SasTokenLifetime \in Int
    BY <1>1, <2>1, ResolvedType DEF Inv, TypeOK, SasTokenLifetime
  <2> DEFINE t == SasTokenLifetime
             m == Smaller(Larger(t \div 10, MinMargin), MaxMargin)
  <2>3. t \div 10 \in Int /\ m \in Int /\ m >= 1
    BY <2>2, MarginAssumption DEF Larger, Smaller
  <2>4. t > 1 => 0 < t \div 2 /\ t \div 2 < t
    BY <2>2
  <2>5. Margin(t) = IF m >= t THEN t \div 2 ELSE m
    BY DEF Margin
  <2>6. QED
    BY <2>2, <2>3, <2>4, <2>5 DEF RenewedInTime, RenewAfter
<1>2. QED
  BY <1>1, Inductive, PTL
=============================================================================
