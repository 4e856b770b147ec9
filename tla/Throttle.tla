-------------------------------- MODULE Throttle --------------------------------
(***************************************************************************)
(* The rate limiter of honest-errors (ratelimit.py) with the reports that  *)
(* ask it (normalize.py).  check_rate_limit is pure: the caller threads    *)
(* the state through the calls, one after the other, and hands in the time *)
(* it read when it caught the failure.  By then the clock may have moved   *)
(* and other callers may have asked with a later time.                     *)
(*                                                                         *)
(* External: the reporters that hold the state, and their clock.           *)
(***************************************************************************)
EXTENDS Integers, Sequences, FiniteSets

CONSTANTS
  None,          \* no value
  Reporters,     \* boundaries and pages that report failures
  Keys,          \* what tells failures apart: exception_type, file, line
  Hour,          \* _SECONDS_PER_HOUR
  DedupWindow,   \* config: dedup_window_seconds
  MaxPerHour,    \* config: max_per_hour
  MaxLag,        \* how late, at most, a reporter asks with the time it read
  MaxNow         \* bound: the clock

ASSUME ThrottleAssumption ==
  /\ Hour \in Nat /\ DedupWindow \in Nat /\ MaxPerHour \in Nat /\ MaxLag \in Nat
  /\ MaxNow \in Nat
  /\ None \notin Nat

VARIABLES
  now,
  dedup_cache,   \* state: when each key was last let through, None if not in it
  hourly_sends,  \* state: which of the notifications it counts
  sent,          \* the notifications: what for, when, and whether the limiter let them through
  report         \* the report of each reporter, None when it has none

throttle == <<dedup_cache, hourly_sends, sent>>
throttleVars == <<now, throttle, report>>

ThrottleInit ==
  /\ now = 0
  /\ dedup_cache = [k \in Keys |-> None]
  /\ hourly_sends = {}
  /\ sent = << >>
  /\ report = [r \in Reporters |-> None]

-----------------------------------------------------------------------------
(* Times are told by the number of the notification: two of one time are   *)
(* two entries of the list.                                                *)
RecentSends(time) == {i \in hourly_sends : time - sent[i].at < Hour}
(* Mutant: one more than the limit.                                        *)
PastHourlyLimit(time) == Cardinality(RecentSends(time)) > MaxPerHour
AtHourlyLimit(time) == Cardinality(RecentSends(time)) >= MaxPerHour
Repeated(key, time) == dedup_cache[key] # None /\ time - dedup_cache[key] < DedupWindow

(* should_bypass_dedup *)
Bypasses(severity) == severity = "critical"

Notify(r, passed) == sent' = Append(sent, [key |-> r.key, at |-> r.at, passed |-> passed])

(* Both reasons return the pruned sends and the cache as it was; a         *)
(* critical report is sent all the same, and is not counted.               *)
Suppress(r) ==
  /\ AtHourlyLimit(r.at) \/ Repeated(r.key, r.at)
  /\ hourly_sends' = RecentSends(r.at)
  /\ UNCHANGED dedup_cache
  /\ IF Bypasses(r.severity) THEN Notify(r, FALSE) ELSE UNCHANGED sent

Stale(key, time) == dedup_cache[key] # None /\ time - dedup_cache[key] >= DedupWindow
Allow(r) ==
  /\ ~AtHourlyLimit(r.at) /\ ~Repeated(r.key, r.at)
  /\ hourly_sends' = RecentSends(r.at) \cup {Len(sent) + 1}
  /\ dedup_cache' = [k \in Keys |-> IF k = r.key THEN r.at
                                    ELSE IF Stale(k, r.at) THEN None ELSE dedup_cache[k]]
  /\ Notify(r, TRUE)

CheckRateLimit(r) == Suppress(r) \/ Allow(r)

-----------------------------------------------------------------------------
(* A failure is caught and reported with the time it was caught.           *)
Capture(p, key, severity) ==
  /\ report[p] = None
  /\ report' = [report EXCEPT ![p] = [key |-> key, severity |-> severity, at |-> now]]

(* The reporter asks the limiter, and sends when it may.                   *)
Ask(p) ==
  /\ report[p] # None
  /\ CheckRateLimit(report[p])
  /\ report' = [report EXCEPT ![p] = None]
  /\ UNCHANGED now

Tick ==
  /\ now < MaxNow
  /\ \A p \in Reporters : report[p] # None => now - report[p].at < MaxLag
  /\ now' = now + 1
  /\ UNCHANGED <<throttle, report>>

-----------------------------------------------------------------------------
Passed == {i \in DOMAIN sent : sent[i].passed}

(* Never more than max_per_hour notifications are let through within an    *)
(* hour less the lag, whatever the order in which the reporters ask.       *)
HourlyBound ==
  \A i \in Passed :
    Cardinality({j \in Passed : /\ sent[i].at <= sent[j].at
                                /\ sent[j].at - sent[i].at < Hour - MaxLag}) <= MaxPerHour

(* Two notifications of one key are let through at least a dedup window    *)
(* less the lag apart.                                                     *)
DedupSpacing ==
  \A i, j \in Passed : i < j /\ sent[i].key = sent[j].key
                         => sent[j].at - sent[i].at >= DedupWindow - MaxLag

(* The limiter keeps its two promises to whoever threads its state, though *)
(* the times it is given go back and forth and it forgets what is old.     *)
ThrottleBounds == HourlyBound /\ DedupSpacing
=============================================================================
