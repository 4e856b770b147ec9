------------------------------ MODULE RequestProofs ------------------------------
(***************************************************************************)
(* What the throttle keeps to for every hour, window, limit and lag, for   *)
(* any requests and pages that report through it and for unbounded time.   *)
(***************************************************************************)
EXTENDS Request, FiniteSetTheorems, TLAPS

Notification == [key : Keys, at : Nat, passed : BOOLEAN]
Report == [key : Keys, severity : {"error", "critical"}, at : Nat]

ThrottleTyped ==
  /\ now \in Nat
  /\ dedup_cache \in [Keys -> Nat \cup {None}]
  /\ sent \in Seq(Notification)
  /\ hourly_sends \subseteq Passed
  /\ report \in [Reporters -> Report \cup {None}]

(* A time a reporter still holds is at most the lag behind the clock.      *)
LagBounded ==
  \A p \in Reporters : report[p] # None => report[p].at <= now /\ now - report[p].at <= MaxLag

(* What the limiter forgot is an hour old by the clock, and what the cache *)
(* forgot, a window old.                                                   *)
ForgottenIsOld ==
  \A i \in Passed : i \in hourly_sends \/ now - sent[i].at >= Hour
RememberedOrOld ==
  \A i \in Passed :
    \/ /\ dedup_cache[sent[i].key] \in Nat
       /\ sent[i].at <= dedup_cache[sent[i].key]
    \/ now - sent[i].at >= DedupWindow

ThrottleInv ==
  /\ ThrottleTyped /\ LagBounded /\ ForgottenIsOld /\ RememberedOrOld
  /\ HourlyBound /\ DedupSpacing

-----------------------------------------------------------------------------
LEMMA PassedFinite ==
  ASSUME ThrottleTyped
  PROVE  IsFiniteSet(Passed) /\ Passed \subseteq Nat
<1>1. Passed \subseteq 1..Len(sent)  BY DEF ThrottleTyped, Passed
<1>2. Len(sent) \in Nat  BY DEF ThrottleTyped
<1>3. IsFiniteSet(1..Len(sent))  BY <1>2, FS_Interval
<1>4. IsFiniteSet(Passed)  BY <1>1, <1>3, FS_Subset
<1>. QED  BY <1>1, <1>2, <1>4

LEMMA PassedAre ==
  ASSUME ThrottleTyped
  PROVE  \A i \in Passed : sent[i].at \in Nat /\ sent[i].key \in Keys
<1>1. \A i \in DOMAIN sent : sent[i] \in Notification
  BY DEF ThrottleTyped
<1>. QED  BY <1>1 DEF Passed, Notification

(* What a notification leaves as it was, and what it adds.                 *)
LEMMA Notified ==
  ASSUME ThrottleTyped, NEW r \in Report, NEW passed \in BOOLEAN, Notify(r, passed)
  PROVE  /\ sent' \in Seq(Notification)
         /\ Len(sent') = Len(sent) + 1 /\ Len(sent) \in Nat
         /\ \A i \in 1..Len(sent) : sent'[i] = sent[i]
         /\ sent'[Len(sent) + 1] = [key |-> r.key, at |-> r.at, passed |-> passed]
         /\ Passed' = Passed \cup (IF passed THEN {Len(sent) + 1} ELSE {})
         /\ Len(sent) + 1 \notin Passed
<1>1. [key |-> r.key, at |-> r.at, passed |-> passed] \in Notification
  BY DEF Report, Notification
<1>2. /\ sent' \in Seq(Notification)
      /\ Len(sent') = Len(sent) + 1 /\ Len(sent) \in Nat
      /\ \A i \in 1..Len(sent) : sent'[i] = sent[i]
      /\ sent'[Len(sent) + 1] = [key |-> r.key, at |-> r.at, passed |-> passed]
  BY <1>1 DEF ThrottleTyped, Notify
<1>3. DOMAIN sent = 1..Len(sent) /\ DOMAIN sent' = 1..Len(sent')  BY <1>2 DEF ThrottleTyped
<1>. QED  BY <1>2, <1>3 DEF Passed

-----------------------------------------------------------------------------
(* The steps that leave the limiter's state alone.                         *)
LEMMA WhenTheThrottleRests ==
  ASSUME ThrottleInv, UNCHANGED throttle, now' \in Nat, now <= now',
         report' \in [Reporters -> Report \cup {None}], LagBounded'
  PROVE  ThrottleInv'
<1>1. Passed' = Passed  BY DEF throttle, Passed
<1>2. ThrottleTyped'  BY <1>1 DEF ThrottleInv, ThrottleTyped, throttle
<1>3. \A i \in Passed : sent[i].at \in Nat
  BY PassedAre DEF ThrottleInv
<1>4. ForgottenIsOld'
  BY <1>1, <1>3, ThrottleAssumption DEF ThrottleInv, ThrottleTyped, ForgottenIsOld, throttle
<1>5. RememberedOrOld'
  BY <1>1, <1>3, ThrottleAssumption DEF ThrottleInv, ThrottleTyped, RememberedOrOld, throttle
<1>6. HourlyBound' /\ DedupSpacing'
  BY <1>1 DEF ThrottleInv, HourlyBound, DedupSpacing, throttle
<1>. QED  BY <1>2, <1>4, <1>5, <1>6 DEF ThrottleInv

(* Suppressing: what is pruned is an hour old.                             *)
LEMMA SuppressKeeps ==
  ASSUME ThrottleInv, NEW r \in Report, r.at <= now, Suppress(r),
         UNCHANGED now, report' \in [Reporters -> Report \cup {None}], LagBounded'
  PROVE  ThrottleInv'
<1>1. /\ Passed' = Passed
      /\ sent' \in Seq(Notification)
      /\ \A i \in Passed : sent'[i] = sent[i]
  <2>1. CASE Bypasses(r.severity)
    <3>1. Notify(r, FALSE)  BY <2>1 DEF Suppress
    <3>2. DOMAIN sent = 1..Len(sent)  BY DEF ThrottleInv, ThrottleTyped
    <3>. QED  BY <3>1, <3>2, Notified DEF ThrottleInv, Passed
  <2>2. CASE ~Bypasses(r.severity)
    BY <2>2 DEF Suppress, ThrottleInv, ThrottleTyped, Passed
  <2>. QED  BY <2>1, <2>2
<1>2. \A i \in Passed : sent[i].at \in Nat /\ sent[i].key \in Keys
  BY PassedAre DEF ThrottleInv
<1>3. hourly_sends' = {i \in hourly_sends : r.at - sent[i].at < Hour} /\ dedup_cache' = dedup_cache
  BY DEF Suppress, RecentSends
<1>4. ThrottleTyped'  BY <1>1, <1>3 DEF ThrottleInv, ThrottleTyped
<1>5. ForgottenIsOld'
  <2>. SUFFICES ASSUME NEW i \in Passed, i \notin hourly_sends'
                PROVE  now - sent[i].at >= Hour
    BY <1>1 DEF ForgottenIsOld
  <2>. now \in Nat /\ r.at \in Nat  BY DEF ThrottleInv, ThrottleTyped, Report
  <2>. QED  BY <1>2, <1>3, ThrottleAssumption DEF ThrottleInv, ForgottenIsOld
<1>6. RememberedOrOld'  BY <1>1, <1>3 DEF ThrottleInv, RememberedOrOld
<1>7. HourlyBound'
  <2>1. ASSUME NEW i \in Passed
        PROVE  {j \in Passed' : sent'[i].at <= sent'[j].at /\ sent'[j].at - sent'[i].at < Hour - MaxLag}
               = {j \in Passed : sent[i].at <= sent[j].at /\ sent[j].at - sent[i].at < Hour - MaxLag}
    BY <1>1
  <2>. QED  BY <1>1, <2>1 DEF ThrottleInv, HourlyBound
<1>8. DedupSpacing'  BY <1>1 DEF ThrottleInv, DedupSpacing
<1>. QED  BY <1>4, <1>5, <1>6, <1>7, <1>8 DEF ThrottleInv

(* Allowing: whoever falls into the hour or the window of the new one is   *)
(* remembered, so it was counted or seen.                                  *)
LEMMA AllowKeeps ==
  ASSUME ThrottleInv, NEW r \in Report, r.at <= now, now - r.at <= MaxLag, Allow(r),
         UNCHANGED now, report' \in [Reporters -> Report \cup {None}], LagBounded'
  PROVE  ThrottleInv'
<1> DEFINE n == Len(sent) + 1
<1>0. /\ now \in Nat /\ r.at \in Nat /\ r.key \in Keys
      /\ Hour \in Nat /\ DedupWindow \in Nat /\ MaxPerHour \in Nat /\ MaxLag \in Nat
      /\ None \notin Nat
  BY ThrottleAssumption DEF ThrottleInv, ThrottleTyped, Report
<1>1. /\ sent' \in Seq(Notification)
      /\ n \in Nat /\ n \notin Passed /\ Passed' = Passed \cup {n}
      /\ \A i \in Passed : sent'[i] = sent[i] /\ i < n
      /\ sent'[n] = [key |-> r.key, at |-> r.at, passed |-> TRUE]
  <2>1. Notify(r, TRUE)  BY DEF Allow
  <2>2. DOMAIN sent = 1..Len(sent)  BY DEF ThrottleInv, ThrottleTyped
  <2>3. \A i \in Passed : i \in 1..Len(sent)  BY <2>2 DEF Passed
  <2>4. /\ sent' \in Seq(Notification)
        /\ Len(sent) \in Nat /\ n \notin Passed /\ Passed' = Passed \cup {n}
        /\ \A i \in 1..Len(sent) : sent'[i] = sent[i]
        /\ sent'[n] = [key |-> r.key, at |-> r.at, passed |-> TRUE]
    BY <2>1, Notified DEF ThrottleInv
  <2>. QED  BY <2>3, <2>4
<1>2. \A i \in Passed : sent[i].at \in Nat /\ sent[i].key \in Keys
  BY PassedAre DEF ThrottleInv
<1>3. hourly_sends' = {i \in hourly_sends : r.at - sent[i].at < Hour} \cup {n}
  BY DEF Allow, RecentSends
<1>4. dedup_cache' = [k \in Keys |-> IF k = r.key THEN r.at
                                     ELSE IF Stale(k, r.at) THEN None ELSE dedup_cache[k]]
  BY DEF Allow
<1>5. ThrottleTyped'
  <2>1. dedup_cache' \in [Keys -> Nat \cup {None}]
    BY <1>0, <1>4 DEF ThrottleInv, ThrottleTyped
  <2>2. hourly_sends' \subseteq Passed'  BY <1>1, <1>3 DEF ThrottleInv, ThrottleTyped
  <2>. QED  BY <1>1, <2>1, <2>2 DEF ThrottleInv, ThrottleTyped
<1>6. ForgottenIsOld'
  <2>. SUFFICES ASSUME NEW i \in Passed, i \notin hourly_sends'
                PROVE  now - sent[i].at >= Hour
    BY <1>1, <1>3 DEF ForgottenIsOld
  <2>. QED  BY <1>0, <1>2, <1>3 DEF ThrottleInv, ForgottenIsOld
<1>7. RememberedOrOld'
  <2>. SUFFICES ASSUME NEW i \in Passed, ~(now - sent[i].at >= DedupWindow)
                PROVE  /\ dedup_cache'[sent[i].key] \in Nat
                       /\ sent[i].at <= dedup_cache'[sent[i].key]
    <3>1. /\ sent'[n].key = r.key /\ sent'[n].at = r.at
          /\ dedup_cache'[r.key] = r.at /\ r.at <= r.at
      BY <1>0, <1>1, <1>4
    <3>2. \A i \in Passed : sent'[i] = sent[i]  BY <1>1
    <3>. HIDE DEF n
    <3>. QED  BY <1>0, <1>1, <3>1, <3>2 DEF RememberedOrOld
  <2> DEFINE k == sent[i].key
  <2>1. dedup_cache[k] \in Nat /\ sent[i].at <= dedup_cache[k] /\ k \in Keys /\ sent[i].at \in Nat
    BY <1>2 DEF ThrottleInv, RememberedOrOld
  <2>2. CASE k = r.key
    <3>1. ~(dedup_cache[k] # None /\ r.at - dedup_cache[k] < DedupWindow)
      BY <2>2 DEF Allow, Repeated
    <3>2. r.at - dedup_cache[k] >= DedupWindow  BY <1>0, <2>1, <3>1
    <3>3. sent[i].at <= r.at  BY <1>0, <2>1, <3>2
    <3>. QED  BY <1>0, <1>4, <2>1, <2>2, <3>3
  <2>3. CASE k # r.key
    <3>1. ~(r.at - dedup_cache[k] >= DedupWindow)  BY <1>0, <2>1
    <3>2. ~Stale(k, r.at)  BY <3>1 DEF Stale
    <3>. QED  BY <1>4, <2>1, <2>3, <3>2
  <2>. QED  BY <2>2, <2>3
<1>8. DedupSpacing'
  <2>. SUFFICES ASSUME NEW i \in Passed, sent[i].key = r.key
                PROVE  r.at - sent[i].at >= DedupWindow - MaxLag
    <3>1. sent'[n].key = r.key /\ sent'[n].at = r.at  BY <1>1
    <3>2. \A i \in Passed : sent'[i] = sent[i] /\ i < n /\ ~(n < i)
      <4>1. Passed \subseteq Nat  BY PassedFinite DEF ThrottleInv
      <4>. QED  BY <1>1, <4>1
    <3>3. ~(n < n)  BY <1>1
    <3>. HIDE DEF n
    <3>. QED  BY <1>1, <3>1, <3>2, <3>3 DEF ThrottleInv, DedupSpacing
  <2>1. CASE /\ dedup_cache[r.key] \in Nat
             /\ sent[i].at <= dedup_cache[r.key]
    <3>1. r.at - dedup_cache[r.key] >= DedupWindow
      BY <1>0, <2>1 DEF Allow, Repeated
    <3>. QED  BY <1>0, <1>2, <2>1, <3>1
  <2>2. CASE now - sent[i].at >= DedupWindow
    BY <1>0, <1>2, <2>2
  <2>. QED  BY <2>1, <2>2 DEF ThrottleInv, RememberedOrOld
<1>9. HourlyBound'
  <2> DEFINE hour(i) == {j \in Passed : /\ sent[i].at <= sent[j].at
                                        /\ sent[j].at - sent[i].at < Hour - MaxLag}
             hourAfter(i) == {j \in Passed' : /\ sent'[i].at <= sent'[j].at
                                              /\ sent'[j].at - sent'[i].at < Hour - MaxLag}
             old(i) == hourAfter(i) \ {n}
  <2>1. IsFiniteSet(Passed)  BY PassedFinite DEF ThrottleInv
  <2>2. /\ IsFiniteSet(RecentSends(r.at))
        /\ Cardinality(RecentSends(r.at)) < MaxPerHour
    <3>1. RecentSends(r.at) \subseteq Passed  BY DEF ThrottleInv, ThrottleTyped, RecentSends
    <3>2. IsFiniteSet(RecentSends(r.at))  BY <2>1, <3>1, FS_Subset
    <3>3. Cardinality(RecentSends(r.at)) \in Nat  BY <3>2, FS_CardinalityType
    <3>. QED  BY <1>0, <3>2, <3>3 DEF Allow, AtHourlyLimit
  <2>3. ASSUME NEW i \in Passed', n \in hourAfter(i)
        PROVE  Cardinality(hourAfter(i)) <= MaxPerHour
    <3>1. /\ sent'[i].at \in Nat /\ sent'[i].at <= r.at /\ r.at - sent'[i].at < Hour - MaxLag
      BY <1>0, <1>1, <1>2, <2>3
    <3>2. old(i) \subseteq RecentSends(r.at)
      <4>. SUFFICES ASSUME NEW j \in old(i)  PROVE j \in RecentSends(r.at)
        OBVIOUS
      <4>1. j \in Passed /\ sent'[i].at <= sent[j].at  BY <1>1
      <4>2. r.at - sent[j].at < Hour - MaxLag /\ sent[j].at \in Nat
        BY <1>0, <1>2, <3>1, <4>1
      <4>3. ~(now - sent[j].at >= Hour)  BY <1>0, <4>2
      <4>4. j \in hourly_sends  BY <4>1, <4>3 DEF ThrottleInv, ForgottenIsOld
      <4>. QED  BY <1>0, <4>2, <4>4 DEF RecentSends
    <3>3. /\ IsFiniteSet(old(i))
          /\ Cardinality(old(i)) <= Cardinality(RecentSends(r.at))
      BY <2>2, <3>2, FS_Subset
    <3>4. hourAfter(i) = old(i) \cup {n} /\ n \notin old(i)  BY <2>3
    <3>5. Cardinality(hourAfter(i)) = Cardinality(old(i)) + 1
      BY <3>3, <3>4, FS_AddElement
    <3>6. Cardinality(old(i)) \in Nat /\ Cardinality(RecentSends(r.at)) \in Nat
      BY <2>2, <3>3, FS_CardinalityType
    <3>. HIDE DEF hourAfter, old
    <3>. QED  BY <1>0, <2>2, <3>3, <3>5, <3>6
  <2>4. ASSUME NEW i \in Passed', n \notin hourAfter(i)
        PROVE  Cardinality(hourAfter(i)) <= MaxPerHour
    <3>1. CASE i = n
      <4>1. CASE Hour - MaxLag > 0  BY <1>0, <1>1, <2>4, <3>1, <4>1
      <4>2. CASE Hour - MaxLag <= 0
        <5>1. \A j \in Passed' : sent'[j].at \in Nat  BY <1>0, <1>1, <1>2
        <5>2. hourAfter(i) = {}  BY <1>0, <4>2, <5>1
        <5>3. Cardinality(hourAfter(i)) = 0  BY <5>2, FS_EmptySet
        <5>. HIDE DEF hourAfter
        <5>. QED  BY <1>0, <5>3
      <4>. QED  BY <1>0, <4>1, <4>2
    <3>2. CASE i \in Passed
      <4>1. hourAfter(i) = hour(i)  BY <1>1, <2>4, <3>2
      <4>2. Cardinality(hour(i)) <= MaxPerHour  BY <3>2 DEF ThrottleInv, HourlyBound
      <4>. QED  BY <4>1, <4>2
    <3>. QED  BY <1>1, <2>4, <3>1, <3>2
  <2>5. \A i \in Passed' : Cardinality(hourAfter(i)) <= MaxPerHour
    <3>. HIDE DEF hourAfter
    <3>. QED  BY <2>3, <2>4
  <2>. QED  BY <2>5 DEF HourlyBound
<1>. QED  BY <1>5, <1>6, <1>7, <1>8, <1>9 DEF ThrottleInv

-----------------------------------------------------------------------------
LEMMA InitHolds == Init => ThrottleInv
<1>. SUFFICES ASSUME ThrottleInit PROVE ThrottleInv
  BY DEF Init
<1>1. Passed = {}  BY DEF ThrottleInit, Passed
<1>2. ThrottleTyped  BY <1>1 DEF ThrottleInit, ThrottleTyped
<1>3. LagBounded  BY DEF ThrottleInit, LagBounded
<1>. QED  BY <1>1, <1>2, <1>3
       DEF ThrottleInv, ForgottenIsOld, RememberedOrOld, HourlyBound, DedupSpacing

(* A report is caught with the time of the clock.                          *)
LEMMA CaptureKeeps ==
  ASSUME ThrottleInv, NEW p \in Reporters, NEW key \in Keys,
         NEW severity \in {"error", "critical"},
         Capture(p, key, severity), UNCHANGED <<now, throttle>>
  PROVE  ThrottleInv'
<1>1. now \in Nat /\ now - now = 0 /\ MaxLag \in Nat
  BY ThrottleAssumption DEF ThrottleInv, ThrottleTyped
<1>2. [key |-> key, severity |-> severity, at |-> now] \in Report  BY <1>1 DEF Report
<1>3. report' \in [Reporters -> Report \cup {None}]
  BY <1>2 DEF Capture, ThrottleInv, ThrottleTyped
<1>4. LagBounded'
  BY <1>1 DEF Capture, LagBounded, ThrottleInv, ThrottleTyped
<1>. QED  BY <1>1, <1>3, <1>4, WhenTheThrottleRests

LEMMA AskKeeps ==
  ASSUME ThrottleInv, NEW p \in Reporters, Ask(p)
  PROVE  ThrottleInv'
<1>1. /\ report[p] \in Report /\ report[p].at <= now /\ now - report[p].at <= MaxLag
  BY DEF Ask, ThrottleInv, ThrottleTyped, LagBounded
<1>2. report' \in [Reporters -> Report \cup {None}] /\ LagBounded' /\ UNCHANGED now
  BY DEF Ask, ThrottleInv, ThrottleTyped, LagBounded
<1>3. CASE Suppress(report[p])  BY <1>1, <1>2, <1>3, SuppressKeeps
<1>4. CASE Allow(report[p])  BY <1>1, <1>2, <1>4, AllowKeeps
<1>. QED  BY <1>3, <1>4 DEF Ask, CheckRateLimit

LEMMA TickKeeps ==
  ASSUME ThrottleInv, Tick
  PROVE  ThrottleInv'
<1>1. now \in Nat /\ now' = now + 1 /\ MaxLag \in Nat /\ UNCHANGED <<throttle, report>>
  BY ThrottleAssumption DEF Tick, ThrottleInv, ThrottleTyped
<1>2. LagBounded'
  <2>. SUFFICES ASSUME NEW p \in Reporters, report[p] # None
                PROVE  report[p].at <= now + 1 /\ (now + 1) - report[p].at <= MaxLag
    BY <1>1 DEF LagBounded
  <2>1. report[p].at \in Nat  BY DEF ThrottleInv, ThrottleTyped, Report
  <2>2. report[p].at <= now /\ now - report[p].at < MaxLag
    BY DEF Tick, ThrottleInv, LagBounded
  <2>. QED  BY <1>1, <2>1, <2>2
<1>. QED  BY <1>1, <1>2, WhenTheThrottleRests DEF ThrottleInv, ThrottleTyped

(* What a request does short of raising leaves the throttle alone.         *)
LEMMA StepKeeps == ThrottleInv /\ [Next]_vars => ThrottleInv'
<1>. SUFFICES ASSUME ThrottleInv, [Next]_vars PROVE ThrottleInv'
  OBVIOUS
<1>1. ASSUME UNCHANGED throttleVars PROVE ThrottleInv'
  <2>1. UNCHANGED <<now, throttle, report>>  BY <1>1 DEF throttleVars
  <2>2. now \in Nat /\ now <= now  BY DEF ThrottleInv, ThrottleTyped
  <2>3. report' \in [Reporters -> Report \cup {None}] /\ LagBounded'
    BY <2>1 DEF ThrottleInv, ThrottleTyped, LagBounded
  <2>. QED  BY <2>1, <2>2, <2>3, WhenTheThrottleRests
<1>2. CASE UNCHANGED vars  BY <1>1, <1>2 DEF vars
<1>3. ASSUME NEW r \in Requests, Receive(r) PROVE ThrottleInv'
  BY <1>1, <1>3 DEF Receive
<1>4. ASSUME NEW r \in Requests, NEW result \in Results, RunLink(r, result) PROVE ThrottleInv'
  BY <1>1, <1>4 DEF RunLink
<1>5. ASSUME NEW r \in Requests, NEW results \in [1..NextLink(r) -> Results],
             RunValidateAll(r, results)
      PROVE  ThrottleInv'
  BY <1>1, <1>5 DEF RunValidateAll
<1>6. ASSUME NEW r \in Requests, NEW key \in Keys, LinkRaises(r, key) PROVE ThrottleInv'
  BY <1>6, RequestAssumption, CaptureKeeps DEF LinkRaises
<1>7. ASSUME NEW p \in Pages, NEW key \in Keys, NEW severity \in {"error", "critical"},
             PageFails(p, key, severity)
      PROVE  ThrottleInv'
  BY <1>7, RequestAssumption, CaptureKeeps DEF PageFails
<1>8. ASSUME NEW p \in Reporters, Ask(p) PROVE ThrottleInv'
  BY <1>8, AskKeeps
<1>9. CASE Tick  BY <1>9, TickKeeps
<1>. QED  BY <1>2, <1>3, <1>4, <1>5, <1>6, <1>7, <1>8, <1>9 DEF Next

(* The state the reporters thread stays one check_rate_limit can work on,  *)
(* and remembers all it must: nothing younger than an hour is forgotten,   *)
(* nor a key let through within the window.                                *)
THEOREM ThrottleRemembers ==
  Spec => [](ThrottleTyped /\ LagBounded /\ ForgottenIsOld /\ RememberedOrOld)
<1>1. ThrottleInv => ThrottleTyped /\ LagBounded /\ ForgottenIsOld /\ RememberedOrOld
  BY DEF ThrottleInv
<1>. QED  BY InitHolds, StepKeeps, <1>1, PTL DEF Spec

(* At most max_per_hour notifications within an hour less the lag, and one *)
(* per key within a dedup window less the lag (check_rate_limit), for any  *)
(* reporters, hour, window, limit and lag.                                 *)
THEOREM ThrottleKeepsItsBounds == Spec => []ThrottleBounds
<1>1. ThrottleInv => ThrottleBounds  BY DEF ThrottleInv, ThrottleBounds
<1>. QED  BY InitHolds, StepKeeps, <1>1, PTL DEF Spec
=============================================================================
