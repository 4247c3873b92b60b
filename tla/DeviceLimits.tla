---------------------------- MODULE DeviceLimits ----------------------------
(***************************************************************************)
(* The numbers a device is tuned with, from the flags of the config and    *)
(* update commands (cmd/agent_smith/config_context.go, config.go,          *)
(* update.go) through config.json to the values the service resolves       *)
(* (internal/agent/device.go), and what is computed from them: the output  *)
(* kept of a command (internal/interpreter/bounded_writer.go), the delays  *)
(* between the attempts to post its result (cmd/agent_smith/service.go)    *)
(* and the renewal of the SAS token (internal/utils/time.go).              *)
(*                                                                         *)
(* int and time.Duration have the same width; a product that leaves it     *)
(* wraps around.  Four of the nine knobs stand for all of them: two are    *)
(* plain numbers, two are multiplied by a unit.                            *)
(***************************************************************************)
EXTENDS Integers

CONSTANTS
    Nil,            \* an absent field
    MaxInt,         \* the largest int
    Second, Hour,   \* units of time.Duration
    MinMargin, MaxMargin,   \* of the renewal
    MaxBackoff,     \* postbackMaxRetryBackoff
    Default,        \* default of every knob
    Values,         \* numbers the operator tries
    Lifetimes,      \* token lifetimes that a build may force
    Chunks,         \* sizes of one Write
    MaxProduced     \* bound on the bytes of one stream

Knobs == {"max-output-bytes", "postback-max-attempts",
          "postback-base-retry-backoff-seconds", "sas-token-lifetime-hours"}
Streams == {"stdout", "stderr"}

ASSUME NilAssumption == Nil \notin Int
ASSUME WidthAssumption == MaxInt \in Nat /\ Second \in Nat /\ Hour \in Nat
ASSUME MarginAssumption == MinMargin \in Nat \ {0} /\ MaxMargin \in Nat /\ MinMargin <= MaxMargin
ASSUME DefaultAssumption == Default \in [Knobs -> Nat \ {0}]
ASSUME BackoffAssumption == MaxBackoff \in Nat \ {0}
ASSUME InputAssumption == Values \subseteq Int /\ Lifetimes \subseteq Nat \ {0}
ASSUME ChunkAssumption == Chunks \subseteq Nat /\ MaxProduced \in Nat

VARIABLES
    file,      \* the overrides in config.json
    chosen,    \* history: the last number the operator was allowed to give
    forced,    \* sasTokenLifetimeOverrideStr of the build
    phase,     \* "stopped", "idle", "running" a command or "posting" its result
    out,       \* the two boundedWriters of the command
    attempt,   \* attempts to post so far
    backoff,   \* the delay before the jitter
    delay      \* the delay of the last retry

settings == <<file, chosen, forced>>
post     == <<attempt, backoff, delay>>
vars     == <<settings, phase, out, post>>

Smaller(a, b) == IF a < b THEN a ELSE b
Larger(a, b)  == IF a < b THEN b ELSE a

NewWriter == [kept |-> 0, cap |-> 0, produced |-> 0]
Writer    == [kept : Nat, cap : Nat, produced : Nat]

Init ==
    /\ \E v \in Values \cup {Nil} :      \* a file may have been edited by hand
         /\ file = [k \in Knobs |-> v]
         /\ chosen = [k \in Knobs |-> IF v \in Int /\ v > 0 THEN v ELSE Nil]
    /\ forced \in Lifetimes \cup {Nil}
    /\ phase = "stopped" /\ out = [s \in Streams |-> NewWriter]
    /\ attempt = 0 /\ backoff = 0 /\ delay = 0
-----------------------------------------------------------------------------
(* The flags of one command: those in given were given, all with number v; *)
(* an omitted flag reads as the sentinel, which can also be given.         *)
FlagUnset == -1
Flag(given, v, k) == IF k \in given THEN v ELSE FlagUnset

(* validate.  Mutant: it looks at the values only, as if there were no     *)
(* record of which flags were provided.                                    *)
ValidByValue(given, v) == \A k \in Knobs : Flag(given, v, k) # FlagUnset => v > 0
Valid(given, v) == \A k \in given : v > 0

TuningPtr(n) == IF n = FlagUnset THEN Nil ELSE n

(* runConfig overwrites every field; an omitted flag clears it.            *)
Config(given, v) ==
    /\ phase = "stopped" /\ Valid(given, v)
    /\ file' = [k \in Knobs |-> TuningPtr(Flag(given, v, k))]
    /\ chosen' = [k \in Knobs |-> IF k \in given THEN v ELSE Nil]
    /\ UNCHANGED <<forced, phase, out, post>>

(* runUpdate leaves a field alone whose flag is omitted.                   *)
Update(given, v) ==
    /\ phase = "stopped" /\ Valid(given, v)
    /\ file' = [k \in Knobs |-> IF Flag(given, v, k) # FlagUnset
                                THEN TuningPtr(Flag(given, v, k)) ELSE file[k]]
    /\ chosen' = [k \in Knobs |-> IF k \in given THEN v ELSE chosen[k]]
    /\ UNCHANGED <<forced, phase, out, post>>

Service(from, to) == phase = from /\ phase' = to /\ UNCHANGED <<settings, out, post>>
Start == Service("stopped", "idle")
Stop  == Service("idle", "stopped")
-----------------------------------------------------------------------------
(* Device.Resolved... *)

Wrap(n) == ((n + MaxInt + 1) % (2 * (MaxInt + 1))) - (MaxInt + 1)
Unit(k) == CASE k = "postback-base-retry-backoff-seconds" -> Second
             [] k = "sas-token-lifetime-hours"            -> Hour
             [] OTHER                                     -> 1
Scaled(n, k) == IF Unit(k) = 1 THEN n ELSE Wrap(n * Unit(k))

Resolved(k) ==
    IF file[k] # Nil /\ file[k] > 0 THEN Scaled(file[k], k) ELSE Default[k]

SasTokenLifetime ==
    IF forced # Nil THEN forced ELSE Resolved("sas-token-lifetime-hours")

Limit    == Resolved("max-output-bytes")
Attempts == Resolved("postback-max-attempts")
-----------------------------------------------------------------------------
(* No number is out of place; a result is posted at most Attempts times.   *)
TypeOK ==
    /\ file \in [Knobs -> Int \cup {Nil}] /\ chosen \in [Knobs -> Int \cup {Nil}]
    /\ forced \in (Nat \ {0}) \cup {Nil}
    /\ phase \in {"stopped", "idle", "running", "posting"}
    /\ out \in [Streams -> Writer]
    /\ attempt \in 0..Attempts /\ backoff \in Int /\ delay \in Int
-----------------------------------------------------------------------------
(* The output of a command. *)

RunCommand ==
    /\ phase = "idle" /\ phase' = "running"
    /\ out' = [s \in Streams |-> NewWriter]
    /\ UNCHANGED <<settings, post>>

(* Write of n bytes.  A write that does not fit keeps what fits.           *)
Kept(w, n) == Smaller(Limit - w.kept, n)

(* The doubling of appendLocked, up to the limit.                          *)
Grown(w, need) ==
    IF w.cap >= need THEN w.cap ELSE Smaller(Larger(2 * w.cap, need), Limit)

Written(w, n) ==
    IF Limit > w.kept
    THEN [kept     |-> w.kept + Kept(w, n),
          cap      |-> Grown(w, w.kept + Kept(w, n)),
          produced |-> w.produced + n]
    ELSE [w EXCEPT !.produced = @ + n]

Write(s, n) ==
    /\ phase = "running" /\ out[s].produced + n <= MaxProduced
    /\ out' = [out EXCEPT ![s] = Written(@, n)]
    /\ UNCHANGED <<settings, phase, post>>

(* truncationOf and applyTo: what the result says about lost output.       *)
(* Mutant: only stdout is looked at.                                       *)
TruncatedStdout == out["stdout"].produced > out["stdout"].kept
Truncated == \E s \in Streams : out[s].produced > out[s].kept
Total(field) == out["stdout"][field] + out["stderr"][field]
Signal ==
    IF Truncated THEN [truncated |-> TRUE, produced |-> Total("produced"), kept |-> Total("kept")]
    ELSE [truncated |-> FALSE, produced |-> 0, kept |-> 0]

(* The result is posted: the first attempt.                                *)
Post ==
    /\ phase = "running" /\ phase' = "posting"
    /\ attempt' = 1 /\ backoff' = 0 /\ delay' = 0
    /\ out' = [s \in Streams |-> NewWriter]
    /\ UNCHANGED settings
-----------------------------------------------------------------------------
(* postbackRetryBackoff, one doubling per retry.                           *)

(* A base that is not positive, as a product that wrapped may be, is       *)
(* replaced by the default.  Mutant: it is not.                            *)
BaseUnchecked == Smaller(Resolved("postback-base-retry-backoff-seconds"), MaxBackoff)
Base ==
    LET base == Resolved("postback-base-retry-backoff-seconds")
    IN  Smaller(IF base <= 0 THEN Default["postback-base-retry-backoff-seconds"] ELSE base,
                MaxBackoff)

Doubled(b) == IF b >= MaxBackoff \div 2 THEN MaxBackoff ELSE 2 * b

(* Up to a quarter of b in either direction, and the clamps after it.      *)
Jittered(b) ==
    LET size    == Larger(b, -b)
        jitters == {j \in -size..size : 4 * j <= size /\ -size <= 4 * j}
        Clamped(d) == IF d <= 0 THEN Base ELSE Smaller(d, MaxBackoff)
    IN  {Clamped(b + j) : j \in jitters}

(* Mutant: the first attempt is not counted.                               *)
MayRetryOnceMore == attempt <= Attempts
MayRetry == attempt < Attempts

Retry ==
    /\ phase = "posting" /\ MayRetry
    /\ attempt' = attempt + 1
    /\ backoff' = IF attempt = 1 THEN Base ELSE Doubled(backoff)
    /\ delay' \in Jittered(backoff')
    /\ UNCHANGED <<settings, phase, out>>

(* The result was accepted or refused, or is spooled (PostbackSpool).      *)
Posted ==
    /\ phase = "posting" /\ phase' = "idle"
    /\ attempt' = 0 /\ backoff' = 0 /\ delay' = 0
    /\ UNCHANGED <<settings, out>>
-----------------------------------------------------------------------------
(* SasTokenRenewMargin.  Mutant: the floor holds for a short lifetime too. *)
MarginFloored(lifetime) == Smaller(Larger(lifetime \div 10, MinMargin), MaxMargin)
Margin(lifetime) ==
    LET clamped == Smaller(Larger(lifetime \div 10, MinMargin), MaxMargin)
    IN  IF clamped >= lifetime THEN lifetime \div 2 ELSE clamped

RenewAfter == SasTokenLifetime - Margin(SasTokenLifetime)

Next ==
    \/ \E given \in SUBSET Knobs, v \in Values : Config(given, v) \/ Update(given, v)
    \/ Start \/ Stop \/ RunCommand \/ Post \/ Retry \/ Posted
    \/ \E s \in Streams, n \in Chunks : Write(s, n)

Spec == Init /\ [][Next]_vars
-----------------------------------------------------------------------------
(* The number in force is the last one the operator gave and was allowed   *)
(* to give, through any sequence of config and update commands, or the     *)
(* default; a number that means "unset" cannot be given by hand            *)
(* (config_context.go:135, update.go:94).                                  *)
ChoiceInForce ==
    \A k \in Knobs :
        Resolved(k) = IF chosen[k] = Nil THEN Default[k] ELSE Scaled(chosen[k], k)

(* However the writes are cut, a writer keeps the first bytes up to its    *)
(* limit and its array is never larger than the limit                      *)
(* (bounded_writer.go:36, 61).                                             *)
OutputBounded ==
    \A s \in Streams :
        /\ out[s].kept = Smaller(out[s].produced, Limit)
        /\ out[s].kept <= out[s].cap /\ out[s].cap <= Limit

(* The result mentions a truncation when, and only when, a byte was lost   *)
(* on either stream; the numbers it gives differ by exactly that loss      *)
(* (bounded_writer.go:111, result.go:46).                                  *)
LossReported ==
    LET over(s) == Larger(out[s].produced - Limit, 0)
        lost    == over("stdout") + over("stderr")
    IN  /\ Signal.truncated <=> lost > 0
        /\ Signal.produced - Signal.kept = lost

(* Both: output is never lost silently and never kept beyond the limit.    *)
OutputAccounted == OutputBounded /\ LossReported

(* Whatever number is configured, a product that wrapped included, and     *)
(* however many attempts are allowed, a retry waits: longer than nothing,  *)
(* at most MaxBackoff, and not less than three quarters of the doubled     *)
(* base (service.go:699).                                                  *)
DelayInRange == attempt > 1 => 0 < delay /\ delay <= MaxBackoff
RetriesWait ==
    /\ DelayInRange
    /\ attempt > 1 => 4 * delay >= 3 * Smaller(Base * 2 ^ (attempt - 2), MaxBackoff)

(* The token of a cycle is renewed after the connection had some time to   *)
(* live and before it expires, unless the lifetime leaves no room for that *)
(* (time.go:153, service.go:535).                                          *)
RenewedInTime ==
    SasTokenLifetime > 1 => 0 < RenewAfter /\ RenewAfter < SasTokenLifetime
=============================================================================
