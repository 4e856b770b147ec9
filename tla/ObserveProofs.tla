---------------------------- MODULE ObserveProofs ----------------------------
(***************************************************************************)
(* What holds of the event log for every set of emitters and requests and  *)
(* every bound on the clock and the number of emits; and of the hybrid     *)
(* logical clocks, for every set of sources, every behaviour of the wall   *)
(* clocks and every way stamps travel.                                     *)
(***************************************************************************)
EXTENDS EventLog, HybridClock, SequenceTheorems, FiniteSetTheorems, WellFoundedInduction, TLAPS

-----------------------------------------------------------------------------
(* The event log.                                                          *)

Built == {BuildEvent(r, i, t, n) : r \in Requests, i \in Nat, t \in Nat, n \in Nat}
Seen == InFlight \cup Logged

(* Numbers are given out in order: what any two events of one aggregate,   *)
(* logged or still being written, say of each other.                       *)
InEmitOrder ==
  \A e, f \in Seen :
    e.aggregate_id = f.aggregate_id /\ e.event_id < f.event_id
      => e.sequence < f.sequence /\ e.timestamp <= f.timestamp

Typed ==
  /\ now \in Nat /\ ids \in Nat
  /\ counter \in [Aggregates -> Nat]
  /\ DOMAIN writing = Emitters
  /\ log \in Seq(Built)
  /\ \A e \in Seen :
       /\ e \in Built /\ ValidEvent(e)
       /\ e.event_id \in 1..ids /\ e.timestamp \in 0..now
       /\ e.sequence \in 1..counter[e.aggregate_id]

(* An event is in one place: with one emitter or at one place of the log.  *)
OnePlace ==
  /\ \A i, j \in DOMAIN log : log[i].event_id = log[j].event_id => i = j
  /\ \A p \in Emitters, i \in DOMAIN log :
       writing[p] # None => log[i].event_id # writing[p].event_id
  /\ \A p, q \in Emitters :
       writing[p] # None /\ writing[q] # None /\ writing[p].event_id = writing[q].event_id
         => p = q

AckedInLog == \A id \in acked : \E i \in DOMAIN log : log[i].event_id = id

LogInv == Typed /\ InEmitOrder /\ OnePlace /\ AckedInLog

-----------------------------------------------------------------------------
(* Induction on numbers for a set, and what it says of the recursive       *)
(* functions a fold is made of.                                            *)
LEMMA SetInduction ==
  ASSUME NEW T, 0 \in T, \A n \in Nat : n \in T => n + 1 \in T
  PROVE  Nat \subseteq T
<1> DEFINE Less == {ss \in Nat \X Nat : ss[1] < ss[2]}
<1> SUFFICES ASSUME Nat \ T # {} PROVE FALSE  OBVIOUS
<1>1. IsWellFoundedOn(Less, Nat)
  <2>1. OpToRel(<, Nat) = Less  BY DEF OpToRel
  <2>. QED  BY NatLessThanWellFounded, <2>1
<1>2. PICK x \in Nat \ T : ~ \E y \in Nat \ T : <<y, x>> \in Less
  <2>1. Nat \ T \subseteq Nat  OBVIOUS
  <2> HIDE DEF Less
  <2>. QED  BY ONLY WFMin, <1>1, <2>1, Nat \ T # {}
<1>3. x - 1 \in Nat \ T  OBVIOUS
<1>4. <<x - 1, x>> \in Less  BY <1>3
<1>. QED  BY <1>2, <1>3, <1>4

(* A fold is what its steps leave, one event after the other.              *)
LEMMA FoldedIterates ==
  ASSUME NEW E, NEW s \in Seq(E), NEW state, NEW chosen
  PROVE  \E f :
           /\ f[0] = state
           /\ \A n \in 1..Len(s) : f[n] = IF s[n] \in chosen THEN Append(f[n - 1], s[n]) ELSE f[n - 1]
           /\ Folded(state, s, chosen) = f[Len(s)]
<1> DEFINE m == Len(s)
           Step(a, n) == IF s[n] \in chosen THEN Append(a, s[n]) ELSE a
           F == CHOOSE f : f = [n \in 0..m |-> IF n = 0 THEN state ELSE Step(f[n - 1], n)]
           T == {k \in Nat : \E h : /\ DOMAIN h = 0..k /\ h[0] = state
                                    /\ \A n \in 1..k : h[n] = Step(h[n - 1], n)}
<1>1. m \in Nat  BY LenProperties
<1>2. Folded(state, s, chosen) = F[m]  BY DEF Folded
<1> HIDE DEF Step
<1>3. 0 \in T
  <2> DEFINE g == [i \in 0..0 |-> state]
  <2>1. DOMAIN g = 0..0 /\ g[0] = state  OBVIOUS
  <2>2. \A n \in 1..0 : g[n] = Step(g[n - 1], n)  OBVIOUS
  <2> HIDE DEF g
  <2>. QED  BY <2>1, <2>2
<1>4. ASSUME NEW k \in Nat, k \in T PROVE k + 1 \in T
  <2>1. PICK h : /\ DOMAIN h = 0..k /\ h[0] = state
                 /\ \A n \in 1..k : h[n] = Step(h[n - 1], n)
    BY <1>4
  <2> DEFINE g == [n \in 0..k + 1 |-> IF n = k + 1 THEN Step(h[k], k + 1) ELSE h[n]]
  <2>2. DOMAIN g = 0..k + 1 /\ g[0] = state  BY <2>1
  <2>3. ASSUME NEW n \in 1..k + 1 PROVE g[n] = Step(g[n - 1], n)
    <3>1. g[n - 1] = h[n - 1]  OBVIOUS
    <3>2. CASE n = k + 1  BY <3>1, <3>2
    <3>3. CASE n \in 1..k  BY <2>1, <3>1, <3>3
    <3>. QED  BY <3>2, <3>3
  <2> HIDE DEF g
  <2>. QED  BY <2>2, <2>3
<1>5. Nat \subseteq T
  <2> HIDE DEF T
  <2>. QED  BY ONLY SetInduction, <1>3, <1>4
<1>6. PICK h : /\ DOMAIN h = 0..m /\ h[0] = state
               /\ \A n \in 1..m : h[n] = Step(h[n - 1], n)
  BY <1>1, <1>5
<1> DEFINE j == [n \in 0..m |-> h[n]]
<1>7. j = [n \in 0..m |-> IF n = 0 THEN state ELSE Step(j[n - 1], n)]
  <2>1. ASSUME NEW n \in 0..m PROVE j[n] = IF n = 0 THEN state ELSE Step(j[n - 1], n)
    <3>1. CASE n = 0  BY <1>6, <3>1
    <3>2. CASE n # 0
      <4>1. n \in 1..m /\ n - 1 \in 0..m  BY <1>1, <3>2
      <4>. QED  BY <1>6, <3>2, <4>1
    <3>. QED  BY <3>1, <3>2
  <2>. QED  BY <2>1
<1>8. F = [n \in 0..m |-> IF n = 0 THEN state ELSE Step(F[n - 1], n)]
  <2> HIDE DEF m, j
  <2>. QED  BY <1>7
<1> HIDE DEF F
<1>9. F[0] = state  BY <1>1, <1>8
<1>10. ASSUME NEW n \in 1..m PROVE F[n] = Step(F[n - 1], n)
  <2>1. n \in 0..m /\ n # 0  BY <1>1
  <2>. QED  BY <1>8, <2>1
<1>. QED  BY <1>2, <1>9, <1>10 DEF Step

(* The same for the identity claims.                                       *)
LEMMA ClaimsIterate ==
  ASSUME NEW E, NEW s \in Seq(E)
  PROVE  \E f :
           /\ f[0] = NoBindings
           /\ \A n \in 1..Len(s) : f[n] = IF Claimed(s[n]) THEN FoldClaim(f[n - 1], s[n]) ELSE f[n - 1]
           /\ FoldIdentityClaims(s) = f[Len(s)]
<1> DEFINE m == Len(s)
           Step(a, n) == IF Claimed(s[n]) THEN FoldClaim(a, s[n]) ELSE a
           F == CHOOSE f : f = [n \in 0..m |-> IF n = 0 THEN NoBindings ELSE Step(f[n - 1], n)]
           T == {k \in Nat : \E h : /\ DOMAIN h = 0..k /\ h[0] = NoBindings
                                    /\ \A n \in 1..k : h[n] = Step(h[n - 1], n)}
<1>1. m \in Nat  BY LenProperties
<1>2. FoldIdentityClaims(s) = F[m]  BY DEF FoldIdentityClaims
<1> HIDE DEF Step
<1>3. 0 \in T
  <2> DEFINE g == [i \in 0..0 |-> NoBindings]
  <2>1. DOMAIN g = 0..0 /\ g[0] = NoBindings  OBVIOUS
  <2>2. \A n \in 1..0 : g[n] = Step(g[n - 1], n)  OBVIOUS
  <2> HIDE DEF g
  <2>. QED  BY <2>1, <2>2
<1>4. ASSUME NEW k \in Nat, k \in T PROVE k + 1 \in T
  <2>1. PICK h : /\ DOMAIN h = 0..k /\ h[0] = NoBindings
                 /\ \A n \in 1..k : h[n] = Step(h[n - 1], n)
    BY <1>4
  <2> DEFINE g == [n \in 0..k + 1 |-> IF n = k + 1 THEN Step(h[k], k + 1) ELSE h[n]]
  <2>2. DOMAIN g = 0..k + 1 /\ g[0] = NoBindings  BY <2>1
  <2>3. ASSUME NEW n \in 1..k + 1 PROVE g[n] = Step(g[n - 1], n)
    <3>1. g[n - 1] = h[n - 1]  OBVIOUS
    <3>2. CASE n = k + 1  BY <3>1, <3>2
    <3>3. CASE n \in 1..k  BY <2>1, <3>1, <3>3
    <3>. QED  BY <3>2, <3>3
  <2> HIDE DEF g
  <2>. QED  BY <2>2, <2>3
<1>5. Nat \subseteq T
  <2> HIDE DEF T
  <2>. QED  BY ONLY SetInduction, <1>3, <1>4
<1>6. PICK h : /\ DOMAIN h = 0..m /\ h[0] = NoBindings
               /\ \A n \in 1..m : h[n] = Step(h[n - 1], n)
  BY <1>1, <1>5
<1> DEFINE j == [n \in 0..m |-> h[n]]
<1>7. j = [n \in 0..m |-> IF n = 0 THEN NoBindings ELSE Step(j[n - 1], n)]
  <2>1. ASSUME NEW n \in 0..m PROVE j[n] = IF n = 0 THEN NoBindings ELSE Step(j[n - 1], n)
    <3>1. CASE n = 0  BY <1>6, <3>1
    <3>2. CASE n # 0
      <4>1. n \in 1..m /\ n - 1 \in 0..m  BY <1>1, <3>2
      <4>. QED  BY <1>6, <3>2, <4>1
    <3>. QED  BY <3>1, <3>2
  <2>. QED  BY <2>1
<1>8. F = [n \in 0..m |-> IF n = 0 THEN NoBindings ELSE Step(F[n - 1], n)]
  <2> HIDE DEF m, j
  <2>. QED  BY <1>7
<1> HIDE DEF F
<1>9. F[0] = NoBindings  BY <1>1, <1>8
<1>10. ASSUME NEW n \in 1..m PROVE F[n] = Step(F[n - 1], n)
  <2>1. n \in 0..m /\ n # 0  BY <1>1
  <2>. QED  BY <1>8, <2>1
<1>. QED  BY <1>2, <1>9, <1>10 DEF Step

LEMMA FoldedAppend ==
  ASSUME NEW E, NEW s \in Seq(E), NEW e \in E, NEW state, NEW c, NEW d,
         \A n \in 1..Len(s) : s[n] \in c <=> s[n] \in d
  PROVE  Folded(state, Append(s, e), d) =
           IF e \in d THEN Append(Folded(state, s, c), e) ELSE Folded(state, s, c)
<1> DEFINE m == Len(s)
           t == Append(s, e)
<1>1. /\ m \in Nat /\ t \in Seq(E) /\ Len(t) = m + 1 /\ t[m + 1] = e
      /\ \A n \in 1..m : t[n] = s[n]
  BY LenProperties, AppendProperties
<1>2. PICK f : /\ f[0] = state
               /\ \A n \in 1..m : f[n] = IF s[n] \in c THEN Append(f[n - 1], s[n]) ELSE f[n - 1]
               /\ Folded(state, s, c) = f[m]
  BY FoldedIterates
<1>3. PICK g : /\ g[0] = state
               /\ \A n \in 1..m + 1 : g[n] = IF t[n] \in d THEN Append(g[n - 1], t[n]) ELSE g[n - 1]
               /\ Folded(state, t, d) = g[m + 1]
  <2> HIDE DEF t
  <2>. QED  BY FoldedIterates, <1>1
<1> HIDE DEF t
<1>4. g[m] = f[m]
  <2> DEFINE T == {k \in Nat : k <= m => g[k] = f[k]}
  <2>1. 0 \in T  BY <1>2, <1>3
  <2>2. ASSUME NEW k \in Nat, k \in T PROVE k + 1 \in T
    <3> SUFFICES ASSUME k + 1 <= m PROVE g[k + 1] = f[k + 1]  OBVIOUS
    <3>1. /\ k + 1 \in 1..m /\ k + 1 \in 1..m + 1 /\ (k + 1) - 1 = k /\ g[k] = f[k]
          /\ t[k + 1] = s[k + 1]
      BY <1>1, <2>2
    <3>. QED  BY <1>2, <1>3, <3>1
  <2>3. Nat \subseteq T
    <3> HIDE DEF T
    <3>. QED  BY ONLY SetInduction, <2>1, <2>2
  <2>. QED  BY <1>1, <2>3
<1>5. m + 1 \in 1..m + 1 /\ (m + 1) - 1 = m  BY <1>1
<1>6. g[m + 1] = IF e \in d THEN Append(g[m], e) ELSE g[m]  BY <1>1, <1>3, <1>5
<1>. QED  BY <1>2, <1>3, <1>4, <1>6 DEF t

LEMMA FoldedNothing ==
  ASSUME NEW E, NEW s \in Seq(E), NEW state, NEW c, \A n \in 1..Len(s) : s[n] \notin c
  PROVE  Folded(state, s, c) = state
<1> DEFINE m == Len(s)
<1>1. PICK f : /\ f[0] = state
               /\ \A n \in 1..m : f[n] = IF s[n] \in c THEN Append(f[n - 1], s[n]) ELSE f[n - 1]
               /\ Folded(state, s, c) = f[m]
  BY FoldedIterates
<1> DEFINE T == {k \in Nat : k <= m => f[k] = state}
<1>2. m \in Nat  BY LenProperties
<1>3. 0 \in T  BY <1>1
<1>4. ASSUME NEW k \in Nat, k \in T PROVE k + 1 \in T
  <2> SUFFICES ASSUME k + 1 <= m PROVE f[k + 1] = state  OBVIOUS
  <2>1. k + 1 \in 1..m /\ (k + 1) - 1 = k /\ f[k] = state  BY <1>2, <1>4
  <2>. QED  BY <1>1, <2>1
<1>5. Nat \subseteq T
  <2> HIDE DEF T
  <2>. QED  BY ONLY SetInduction, <1>3, <1>4
<1>. QED  BY <1>1, <1>2, <1>5

LEMMA FoldedType ==
  ASSUME NEW E, NEW s \in Seq(E), NEW state \in Seq(E), NEW c
  PROVE  Folded(state, s, c) \in Seq(E)
<1> DEFINE m == Len(s)
<1>1. PICK f : /\ f[0] = state
               /\ \A n \in 1..m : f[n] = IF s[n] \in c THEN Append(f[n - 1], s[n]) ELSE f[n - 1]
               /\ Folded(state, s, c) = f[m]
  BY FoldedIterates
<1> DEFINE T == {k \in Nat : k <= m => f[k] \in Seq(E)}
<1>2. m \in Nat /\ \A n \in 1..m : s[n] \in E  BY LenProperties, ElementOfSeq
<1>3. 0 \in T  BY <1>1
<1>4. ASSUME NEW k \in Nat, k \in T PROVE k + 1 \in T
  <2> SUFFICES ASSUME k + 1 <= m PROVE f[k + 1] \in Seq(E)  OBVIOUS
  <2>1. k + 1 \in 1..m /\ (k + 1) - 1 = k /\ f[k] \in Seq(E) /\ s[k + 1] \in E
    BY <1>2, <1>4
  <2>2. Append(f[k], s[k + 1]) \in Seq(E)  BY <2>1, AppendProperties
  <2>. QED  BY <1>1, <2>1, <2>2
<1>5. Nat \subseteq T
  <2> HIDE DEF T
  <2>. QED  BY ONLY SetInduction, <1>3, <1>4
<1>. QED  BY <1>1, <1>2, <1>5

LEMMA ClaimsAppend ==
  ASSUME NEW E, NEW s \in Seq(E), NEW e \in E
  PROVE  FoldIdentityClaims(Append(s, e)) =
           IF Claimed(e) THEN FoldClaim(FoldIdentityClaims(s), e) ELSE FoldIdentityClaims(s)
<1> DEFINE m == Len(s)
           t == Append(s, e)
           Step(a, x) == IF Claimed(x) THEN FoldClaim(a, x) ELSE a
<1>1. /\ m \in Nat /\ t \in Seq(E) /\ Len(t) = m + 1 /\ t[m + 1] = e
      /\ \A n \in 1..m : t[n] = s[n]
  BY LenProperties, AppendProperties
<1>2. PICK f : /\ f[0] = NoBindings
               /\ \A n \in 1..m : f[n] = Step(f[n - 1], s[n])
               /\ FoldIdentityClaims(s) = f[m]
  BY ClaimsIterate
<1>3. PICK g : /\ g[0] = NoBindings
               /\ \A n \in 1..m + 1 : g[n] = Step(g[n - 1], t[n])
               /\ FoldIdentityClaims(t) = g[m + 1]
  <2> HIDE DEF t
  <2>. QED  BY ClaimsIterate, <1>1
<1> HIDE DEF t, Step
<1>4. g[m] = f[m]
  <2> DEFINE T == {k \in Nat : k <= m => g[k] = f[k]}
  <2>1. 0 \in T  BY <1>2, <1>3
  <2>2. ASSUME NEW k \in Nat, k \in T PROVE k + 1 \in T
    <3> SUFFICES ASSUME k + 1 <= m PROVE g[k + 1] = f[k + 1]  OBVIOUS
    <3>1. /\ k + 1 \in 1..m /\ k + 1 \in 1..m + 1 /\ (k + 1) - 1 = k /\ g[k] = f[k]
          /\ t[k + 1] = s[k + 1]
      BY <1>1, <2>2
    <3>. QED  BY <1>2, <1>3, <3>1
  <2>3. Nat \subseteq T
    <3> HIDE DEF T
    <3>. QED  BY ONLY SetInduction, <2>1, <2>2
  <2>. QED  BY <1>1, <2>3
<1>5. m + 1 \in 1..m + 1 /\ (m + 1) - 1 = m  BY <1>1
<1>6. g[m + 1] = Step(g[m], e)  BY <1>1, <1>3, <1>5
<1>. QED  BY <1>2, <1>3, <1>4, <1>6 DEF t, Step

-----------------------------------------------------------------------------
LEMMA BuiltFields ==
  ASSUME NEW r \in Requests, NEW i \in Nat, NEW t \in Nat, NEW n \in Nat
  PROVE  LET e == BuildEvent(r, i, t, n)
         IN /\ e \in Built
            /\ e.event_id = i /\ e.timestamp = t /\ e.sequence = n
            /\ e.aggregate_id = r.aggregate_id /\ r.aggregate_id \in Aggregates
<1>1. BuildEvent(r, i, t, n) \in Built  BY DEF Built
<1>. QED  BY <1>1 DEF BuildEvent, Aggregates

LEMMA LogInvInit == Init => LogInv
<1> SUFFICES ASSUME Init PROVE LogInv  OBVIOUS
<1>1. log = << >> /\ DOMAIN log = {} /\ log \in Seq(Built)  BY EmptySeq DEF Init
<1>2. InFlight = {} /\ Logged = {}  BY <1>1 DEF Init, InFlight, Logged
<1>3. Seen = {}  BY <1>2 DEF Seen
<1>4. Typed  BY <1>1, <1>3 DEF Typed, Init
<1>5. InEmitOrder  BY <1>3 DEF InEmitOrder
<1>6. OnePlace  BY <1>1 DEF OnePlace, Init
<1>7. AckedInLog  BY DEF AckedInLog, Init
<1>. QED  BY <1>4, <1>5, <1>6, <1>7 DEF LogInv

(* An emit up to its await: the new event comes after all that were seen.  *)
LEMMA EmitKeeps ==
  ASSUME LogInv, NEW p \in Emitters, NEW request \in Requests, Emit(p, request)
  PROVE  LogInv'
<1> DEFINE a == request.aggregate_id
           e == BuildEvent(request, ids + 1, now, counter[a] + 1)
<1>1. /\ ids \in Nat /\ now \in Nat /\ counter \in [Aggregates -> Nat]
      /\ DOMAIN writing = Emitters /\ a \in Aggregates /\ counter[a] \in Nat
  BY DEF LogInv, Typed, Aggregates
<1>2. /\ ids' = ids + 1 /\ counter' = [counter EXCEPT ![a] = counter[a] + 1]
      /\ UNCHANGED <<now, log, acked, snapshot>>
  BY DEF Emit
<1>3. writing' = [writing EXCEPT ![p] = IF ValidEvent(e) THEN e ELSE None]
  BY <1>1, <1>2 DEF Emit
<1>4. /\ e \in Built /\ e.event_id = ids + 1 /\ e.timestamp = now
      /\ e.sequence = counter[a] + 1 /\ e.aggregate_id = a
  BY <1>1, BuiltFields
<1> HIDE DEF e
<1>5. /\ \A q \in Emitters : q # p => writing'[q] = writing[q]
      /\ writing'[p] = (IF ValidEvent(e) THEN e ELSE None) /\ DOMAIN writing' = Emitters
  BY <1>1, <1>3
<1>6. \A f \in Seen' : f \in Seen \/ (f = e /\ ValidEvent(e))
  <2>1. Logged' = Logged  BY <1>2 DEF Logged
  <2>2. \A f \in InFlight' : f \in InFlight \/ (f = e /\ ValidEvent(e))
    BY <1>5 DEF InFlight
  <2>. QED  BY <2>1, <2>2 DEF Seen
<1>7. \A f \in Seen :
        /\ f \in Built /\ ValidEvent(f) /\ f.aggregate_id \in Aggregates
        /\ f.event_id \in 1..ids /\ f.timestamp \in 0..now
        /\ f.sequence \in 1..counter[f.aggregate_id]
  <2>1. ASSUME NEW f \in Built PROVE f.aggregate_id \in Aggregates
    <3>1. PICK r \in Requests, i \in Nat, t \in Nat, n \in Nat : f = BuildEvent(r, i, t, n)
      BY DEF Built
    <3>. QED  BY <3>1, BuiltFields
  <2>. QED  BY <2>1 DEF LogInv, Typed
<1>8. Typed'
  <2>1. counter' \in [Aggregates -> Nat]  BY <1>1, <1>2
  <2>2. ASSUME NEW f \in Seen'
        PROVE  /\ f \in Built /\ ValidEvent(f)
               /\ f.event_id \in 1..ids' /\ f.timestamp \in 0..now'
               /\ f.sequence \in 1..counter'[f.aggregate_id]
    <3>1. CASE f \in Seen
      <4>1. counter'[f.aggregate_id] >= counter[f.aggregate_id]
        BY <1>1, <1>2, <1>7, <3>1
      <4>2. counter[f.aggregate_id] \in Nat /\ counter'[f.aggregate_id] \in Nat
        BY <1>1, <2>1, <1>7, <3>1
      <4>. QED  BY <1>1, <1>2, <1>7, <3>1, <4>1, <4>2
    <3>2. CASE f = e /\ ValidEvent(e)
      <4>1. counter'[a] = counter[a] + 1  BY <1>1, <1>2
      <4>. QED  BY <1>1, <1>2, <1>4, <3>2, <4>1
    <3>. QED  BY <1>6, <3>1, <3>2
  <2>3. log' \in Seq(Built)  BY <1>2 DEF LogInv, Typed
  <2>. QED  BY <1>1, <1>2, <1>5, <2>1, <2>2, <2>3 DEF Typed
<1>9. InEmitOrder'
  <2> SUFFICES ASSUME NEW f \in Seen', NEW g \in Seen',
                      f.aggregate_id = g.aggregate_id, f.event_id < g.event_id
               PROVE  f.sequence < g.sequence /\ f.timestamp <= g.timestamp
    BY DEF InEmitOrder
  <2>1. CASE f \in Seen /\ g \in Seen  BY <2>1 DEF LogInv, InEmitOrder
  <2>2. CASE f \in Seen /\ g = e
    <3>1. f.aggregate_id = a /\ f.sequence \in 1..counter[a] /\ f.timestamp \in 0..now
      BY <1>4, <1>7, <2>2
    <3>. QED  BY <1>1, <1>4, <2>2, <3>1
  <2>3. CASE f = e /\ g \in Seen  BY <1>1, <1>4, <1>7, <2>3
  <2>4. CASE f = e /\ g = e  BY <1>1, <1>4, <2>4
  <2>. QED  BY <1>6, <2>1, <2>2, <2>3, <2>4
<1>10. OnePlace'
  <2>1. \A i \in DOMAIN log : log[i].event_id # ids + 1
    <3> TAKE i \in DOMAIN log
    <3>1. log[i] \in Seen  BY DEF Seen, Logged
    <3>. QED  BY <1>1, <1>7, <3>1
  <2>2. \A q \in Emitters : writing[q] # None => writing[q].event_id # ids + 1
    <3> TAKE q \in Emitters
    <3> HAVE writing[q] # None
    <3>1. writing[q] \in Seen  BY DEF Seen, InFlight
    <3>. QED  BY <1>1, <1>7, <3>1
  <2>3. writing'[p] # None => writing'[p].event_id = ids + 1  BY <1>4, <1>5
  <2>. QED  BY <1>2, <1>5, <2>1, <2>2, <2>3 DEF OnePlace, LogInv
<1>11. AckedInLog'  BY <1>2 DEF AckedInLog, LogInv
<1>. QED  BY <1>8, <1>9, <1>10, <1>11 DEF LogInv

(* The end of an append: the event moves from its emitter to the log, or   *)
(* is gone.                                                                *)
LEMMA AppendKeeps ==
  ASSUME LogInv, NEW p \in Emitters, AppendEnds(p)
  PROVE  LogInv'
<1> DEFINE w == writing[p]
<1>1. /\ writing' = [writing EXCEPT ![p] = None] /\ w # None
      /\ UNCHANGED <<now, counter, ids, snapshot>>
      /\ log' \in {log, Append(log, w)}
      /\ acked' = acked \/ (log' = Append(log, w) /\ acked' = acked \cup {w.event_id})
  BY DEF AppendEnds
<1>2. /\ DOMAIN writing = Emitters /\ log \in Seq(Built)
      /\ w \in Built /\ w \in Seen
  <2>1. w \in Seen  BY <1>1 DEF Seen, InFlight
  <2>. QED  BY <2>1 DEF LogInv, Typed
<1> HIDE DEF w
<1>3. /\ \A q \in Emitters : q # p => writing'[q] = writing[q]
      /\ writing'[p] = None /\ DOMAIN writing' = Emitters
  BY <1>1, <1>2
<1>4. /\ log' \in Seq(Built)
      /\ \A i \in DOMAIN log : i \in DOMAIN log' /\ log'[i] = log[i]
      /\ \A i \in DOMAIN log' : i \in DOMAIN log \/ (i = Len(log) + 1 /\ log'[i] = w)
      /\ log' = Append(log, w) => Len(log) + 1 \in DOMAIN log' /\ log'[Len(log) + 1] = w
  <2>1. CASE log' = log
    <3>1. log # Append(log, w)  BY <1>2, AppendProperties
    <3>. QED  BY <1>2, <2>1, <3>1
  <2>2. CASE log' = Append(log, w)
    <3>1. /\ log' \in Seq(Built) /\ Len(log') = Len(log) + 1
          /\ DOMAIN log' = 1..Len(log') /\ DOMAIN log = 1..Len(log) /\ Len(log) \in Nat
          /\ \A i \in 1..Len(log) : log'[i] = log[i]
          /\ log'[Len(log) + 1] = w
      BY <1>2, <2>2, AppendProperties, LenProperties
    <3>. QED  BY <3>1
  <2>. QED  BY <1>1, <2>1, <2>2
<1>5. Seen' \subseteq Seen
  <2>1. Logged' \subseteq Logged \cup {w}  BY <1>4 DEF Logged
  <2>2. InFlight' \subseteq InFlight  BY <1>3 DEF InFlight
  <2>. QED  BY <1>2, <2>1, <2>2 DEF Seen
<1>6. Typed'  BY <1>1, <1>3, <1>4, <1>5 DEF Typed, LogInv
<1>7. InEmitOrder'  BY <1>5 DEF InEmitOrder, LogInv
<1>8. OnePlace'
  <2>1. \A i \in DOMAIN log : log[i].event_id # w.event_id
    BY <1>1 DEF OnePlace, LogInv, w
  <2>2. \A q \in Emitters : q # p /\ writing[q] # None => writing[q].event_id # w.event_id
    BY <1>1 DEF OnePlace, LogInv, w
  <2>. QED  BY <1>3, <1>4, <2>1, <2>2 DEF OnePlace, LogInv
<1>9. AckedInLog'
  <2>1. \A id \in acked : \E i \in DOMAIN log' : log'[i].event_id = id
    BY <1>4 DEF AckedInLog, LogInv
  <2>. QED  BY <1>1, <1>4, <2>1 DEF AckedInLog
<1>. QED  BY <1>6, <1>7, <1>8, <1>9 DEF LogInv

LEMMA LogInvStep == LogInv /\ [Next]_vars => LogInv'
<1> SUFFICES ASSUME LogInv, [Next]_vars PROVE LogInv'  OBVIOUS
<1>1. ASSUME UNCHANGED <<counter, ids, writing, log, acked>>, now' \in Nat, now' >= now
      PROVE  LogInv'
  <2>1. Seen' = Seen  BY <1>1 DEF Seen, InFlight, Logged
  <2>2. Typed'
    <3>1. now \in Nat  BY DEF LogInv, Typed
    <3>. QED  BY <1>1, <2>1, <3>1 DEF LogInv, Typed
  <2>3. InEmitOrder'  BY <2>1 DEF LogInv, InEmitOrder
  <2>4. OnePlace' /\ AckedInLog'  BY <1>1 DEF LogInv, OnePlace, AckedInLog
  <2>. QED  BY <2>2, <2>3, <2>4 DEF LogInv
<1>2. now \in Nat  BY DEF LogInv, Typed
<1>3. CASE TakeSnapshot  BY <1>1, <1>2, <1>3 DEF TakeSnapshot
<1>4. CASE Tick  BY <1>1, <1>2, <1>4 DEF Tick
<1>5. CASE UNCHANGED vars  BY <1>1, <1>2, <1>5 DEF vars
<1>. QED  BY EmitKeeps, AppendKeeps, <1>3, <1>4, <1>5 DEF Next

(* What emit answered ok for is in the log, once, whatever the order and   *)
(* the outcome of the appends.                                             *)
THEOREM AckedEventsAreLogged == Spec => []AckedIsLogged
<1>1. LogInv => AckedIsLogged
  BY DEF LogInv, AckedInLog, OnePlace, AckedIsLogged
<1>. QED  BY LogInvInit, LogInvStep, <1>1, PTL DEF Spec

(* Sorting the events of one aggregate by sequence number is sorting them  *)
(* by the order of their emits, although appends end in any order.         *)
THEOREM SequenceFixesOrder == Spec => []InEmitOrder
<1>1. LogInv => InEmitOrder  BY DEF LogInv
<1>. QED  BY LogInvInit, LogInvStep, <1>1, PTL DEF Spec

-----------------------------------------------------------------------------
(* The log so far came in the strict order of its timestamps.              *)
InOrder == \A i, j \in DOMAIN log : i < j => log[i].timestamp < log[j].timestamp

(* A snapshot is at the position of an event of the log, and the window of *)
(* the projection had opened by then: what it drops on resuming, from_ts,  *)
(* would let the same events through.                                      *)
SnapshotPlaced ==
  snapshot # None =>
    /\ snapshot.state \in Seq(Built)
    /\ InOrder => /\ \E i \in DOMAIN log : log[i].timestamp = snapshot.snapshot_at
                  /\ \/ Projection.from_ts = None
                     \/ Projection.from_ts <= snapshot.snapshot_at

ReplayInv == LogInv /\ SnapshotPlaced /\ ExactInOrder

LEMMA BuiltTimes == \A e \in Built : e.timestamp \in Nat
<1> SUFFICES ASSUME NEW e \in Built PROVE e.timestamp \in Nat  OBVIOUS
<1>1. PICK r \in Requests, i \in Nat, t \in Nat, n \in Nat : e = BuildEvent(r, i, t, n)
  BY DEF Built
<1>. QED  BY <1>1, BuiltFields

LEMMA ReplayAppend ==
  ASSUME ReplayInv, NEW w \in Built, log' = Append(log, w), UNCHANGED snapshot
  PROVE  SnapshotPlaced' /\ ExactInOrder'
<1>1. /\ log \in Seq(Built) /\ log' \in Seq(Built) /\ DOMAIN log = 1..Len(log)
      /\ Len(log) \in Nat /\ Len(log') = Len(log) + 1 /\ DOMAIN log' = 1..Len(log) + 1
      /\ log'[Len(log) + 1] = w /\ \A i \in 1..Len(log) : log'[i] = log[i]
  BY LenProperties, AppendProperties DEF ReplayInv, LogInv, Typed
<1>2. \A i \in DOMAIN log : i \in DOMAIN log' /\ log'[i] = log[i] /\ i < Len(log) + 1
  BY <1>1
<1>3. InOrder' => InOrder /\ \A i \in DOMAIN log : log[i].timestamp < w.timestamp
  <2>1. Len(log) + 1 \in DOMAIN log'  BY <1>1
  <2>. QED  BY <1>1, <1>2, <2>1 DEF InOrder
<1>4. SnapshotPlaced'  BY <1>2, <1>3 DEF ReplayInv, SnapshotPlaced
<1>5. ASSUME InOrder' PROVE Replayed' = ApplyProjection(log', Projection)
  <2>1. CASE snapshot = None  BY <2>1 DEF Replayed
  <2>2. CASE snapshot # None
    <3> DEFINE p == Projection
               at == snapshot.snapshot_at
               Later(es) == {e \in Range(es) : e.timestamp > at /\ MatchesFrom(e, p, None)}
               Match(es) == {e \in Range(es) : Matches(e, p)}
    <3>1. Replayed = ApplyProjection(log, p)
      BY <1>3, <1>5 DEF ReplayInv, ExactInOrder, InOrder
    <3>2. PICK i \in DOMAIN log : log[i].timestamp = at
      BY <1>3, <1>5, <2>2 DEF ReplayInv, SnapshotPlaced
    <3>3. /\ w.timestamp > at /\ at \in Nat /\ w.timestamp \in Nat
          /\ p.from_ts = None \/ p.from_ts <= at
      <4>1. log[i] \in Built  BY <1>1, ElementOfSeq
      <4>2. at \in Nat /\ w.timestamp \in Nat  BY <3>2, <4>1, BuiltTimes
      <4>3. log[i].timestamp < w.timestamp  BY <1>3, <1>5
      <4>. QED  BY <1>3, <1>5, <2>2, <3>2, <4>2, <4>3 DEF ReplayInv, SnapshotPlaced
    <3>4. MatchesFrom(w, p, None) <=> Matches(w, p)
      <4>1. p.from_ts = None \/ w.timestamp >= p.from_ts
        BY <3>3, ProjectionAssumption
      <4>. QED  BY <4>1 DEF Matches, MatchesFrom
    <3>5. w \in Range(log') /\ \A n \in 1..Len(log) : log[n] \in Range(log) /\ log[n] \in Range(log')
      BY <1>1, <1>2 DEF Range
    <3>6. w \in Later(log') <=> w \in Match(log')  BY <3>3, <3>4, <3>5
    <3>7. \A n \in 1..Len(log) : /\ log[n] \in Later(log) <=> log[n] \in Later(log')
                                 /\ log[n] \in Match(log) <=> log[n] \in Match(log')
      BY <3>5
    <3>8. /\ Replayed = Folded(snapshot.state, log, Later(log))
          /\ Replayed' = Folded(snapshot.state, log', Later(log'))
      BY <2>2 DEF Replayed, ResumeFromSnapshot
    <3>9. /\ ApplyProjection(log, p) = Folded(<< >>, log, Match(log))
          /\ ApplyProjection(log', p) = Folded(<< >>, log', Match(log'))
      BY DEF ApplyProjection
    <3> HIDE DEF Later, Match
    <3>10. Replayed' = IF w \in Later(log') THEN Append(Replayed, w) ELSE Replayed
      <4> DEFINE st == snapshot.state
      <4>1. Replayed = Folded(st, log, Later(log)) /\ Replayed' = Folded(st, log', Later(log'))
        BY <3>8
      <4> HIDE DEF st
      <4>2. Folded(st, Append(log, w), Later(log')) =
              IF w \in Later(log') THEN Append(Folded(st, log, Later(log)), w)
              ELSE Folded(st, log, Later(log))
        BY <1>1, <3>7, FoldedAppend
      <4>. QED  BY <4>1, <4>2
    <3>11. ApplyProjection(log', p) = IF w \in Match(log') THEN Append(ApplyProjection(log, p), w)
                                      ELSE ApplyProjection(log, p)
      BY <1>1, <3>7, <3>9, FoldedAppend
    <3>. QED  BY <3>1, <3>6, <3>10, <3>11
  <2>. QED  BY <2>1, <2>2
<1>. QED  BY <1>4, <1>5 DEF ExactInOrder, InOrder

LEMMA ReplaySnapshot ==
  ASSUME ReplayInv, TakeSnapshot
  PROVE  SnapshotPlaced' /\ ExactInOrder'
<1> DEFINE p == Projection
           S == {log[i].timestamp : i \in DOMAIN log}
           old == IF snapshot = None THEN 0 ELSE Len(snapshot.state)
<1>1. /\ snapshot' = [snapshot_at |-> Max(S), state |-> Replayed]
      /\ UNCHANGED <<log, writing>>
      /\ p.snapshot_interval # None /\ p.snapshot_interval > 0
      /\ Len(ApplyProjection(log, p)) - old >= p.snapshot_interval
  BY DEF TakeSnapshot, ShouldSnapshot
<1>2. /\ snapshot'.snapshot_at = Max(S) /\ snapshot'.state = Replayed
  BY <1>1
<1>3. log \in Seq(Built) /\ DOMAIN log = 1..Len(log) /\ Len(log) \in Nat
  BY LenProperties DEF ReplayInv, LogInv, Typed
<1>4. \A i \in DOMAIN log : log[i].timestamp \in Nat
  <2>1. \A i \in DOMAIN log : log[i] \in Built  BY <1>3, ElementOfSeq
  <2>. QED  BY <2>1, BuiltTimes
<1>5. Replayed \in Seq(Built)
  <2>1. << >> \in Seq(Built)  BY EmptySeq
  <2>2. snapshot # None => snapshot.state \in Seq(Built)  BY DEF ReplayInv, SnapshotPlaced
  <2>. QED  BY <1>3, <2>1, <2>2, FoldedType DEF Replayed, ApplyProjection, ResumeFromSnapshot
<1>6. PICK k \in DOMAIN log : Matches(log[k], p)
  <2> SUFFICES ASSUME \A i \in 1..Len(log) : ~ Matches(log[i], p) PROVE FALSE  BY <1>3
  <2>1. \A i \in 1..Len(log) : log[i] \notin {e \in Range(log) : Matches(e, p)}  OBVIOUS
  <2>2. ApplyProjection(log, p) = << >>
    BY <1>3, <2>1, FoldedNothing DEF ApplyProjection
  <2>3. Len(ApplyProjection(log, p)) = 0  BY <2>2, EmptySeq
  <2>4. old \in Nat
    <3>1. snapshot # None => snapshot.state \in Seq(Built)  BY DEF ReplayInv, SnapshotPlaced
    <3>. QED  BY <3>1, LenProperties
  <2>. QED  BY <1>1, <2>3, <2>4, ProjectionAssumption
<1>7. ASSUME InOrder
      PROVE  Max(S) \in S /\ \A i \in DOMAIN log : log[i].timestamp <= Max(S)
  <2>1. Len(log) \in DOMAIN log  BY <1>3, <1>6
  <2>2. \A i \in DOMAIN log : log[Len(log)].timestamp >= log[i].timestamp
    <3> TAKE i \in DOMAIN log
    <3>1. i < Len(log) \/ i = Len(log)  BY <1>3
    <3>. QED  BY <1>4, <1>7, <2>1, <3>1 DEF InOrder
  <2>3. \E x \in S : \A y \in S : x >= y  BY <2>1, <2>2
  <2>4. Max(S) \in S /\ \A y \in S : Max(S) >= y  BY <2>3 DEF Max
  <2>. QED  BY <1>4, <2>4
<1>8. SnapshotPlaced'
  <2>1. ASSUME InOrder
        PROVE  /\ \E i \in DOMAIN log : log[i].timestamp = Max(S)
               /\ p.from_ts = None \/ p.from_ts <= Max(S)
    <3>1. PICK i \in DOMAIN log : log[i].timestamp = Max(S)  BY <1>7, <2>1
    <3>2. log[k].timestamp <= Max(S) /\ Max(S) \in Nat /\ log[k].timestamp \in Nat
      BY <1>4, <1>7, <2>1, <3>1
    <3>3. p.from_ts = None \/ log[k].timestamp >= p.from_ts
      BY <1>6 DEF Matches, MatchesFrom
    <3>4. p.from_ts \in Int \cup {None}  BY ProjectionAssumption
    <3> HIDE DEF S, p
    <3>5. p.from_ts = None \/ p.from_ts <= Max(S)  BY <3>2, <3>3, <3>4
    <3>. QED  BY <3>1, <3>5
  <2>. QED  BY <1>1, <1>2, <1>5, <2>1 DEF SnapshotPlaced, InOrder
<1>9. ASSUME InOrder PROVE Replayed' = ApplyProjection(log, p)
  <2>1. CASE snapshot' = None  BY <1>1, <2>1 DEF Replayed
  <2>2. CASE snapshot' # None
    <3> DEFINE later == {e \in Range(log) : e.timestamp > Max(S) /\ MatchesFrom(e, p, None)}
    <3>1. Replayed' = Folded(Replayed, log, later)
      BY <1>1, <1>2, <2>2 DEF Replayed, ResumeFromSnapshot
    <3>2. \A n \in 1..Len(log) : log[n] \notin later
      <4> TAKE n \in 1..Len(log)
      <4>1. log[n].timestamp <= Max(S) /\ Max(S) \in Nat /\ log[n].timestamp \in Nat
        BY <1>3, <1>4, <1>7, <1>9
      <4>. QED  BY <4>1
    <3> HIDE DEF later
    <3>3. Replayed' = Replayed  BY <1>3, <3>1, <3>2, FoldedNothing
    <3>. QED  BY <1>9, <3>3 DEF ReplayInv, ExactInOrder, InOrder
  <2>. QED  BY <2>1, <2>2
<1>. QED  BY <1>1, <1>8, <1>9 DEF ExactInOrder, InOrder

LEMMA ReplayInvStep == ReplayInv /\ [Next]_vars => ReplayInv'
<1> SUFFICES ASSUME ReplayInv, [Next]_vars PROVE ReplayInv'  OBVIOUS
<1>1. LogInv'  BY LogInvStep DEF ReplayInv
<1> SUFFICES SnapshotPlaced' /\ ExactInOrder'  BY <1>1 DEF ReplayInv
<1>2. ASSUME UNCHANGED <<log, snapshot>> PROVE SnapshotPlaced' /\ ExactInOrder'
  BY <1>2 DEF ReplayInv, SnapshotPlaced, ExactInOrder, InOrder, Replayed
<1>3. ASSUME NEW q \in Emitters, NEW request \in Requests, Emit(q, request)
      PROVE  SnapshotPlaced' /\ ExactInOrder'
  BY <1>2, <1>3 DEF Emit
<1>4. ASSUME NEW q \in Emitters, AppendEnds(q) PROVE SnapshotPlaced' /\ ExactInOrder'
  <2>1. writing[q] \in Built
    <3>1. writing[q] # None  BY <1>4 DEF AppendEnds
    <3>2. writing[q] \in Seen  BY <3>1 DEF Seen, InFlight
    <3>. QED  BY <3>2 DEF ReplayInv, LogInv, Typed
  <2>2. UNCHANGED snapshot /\ (log' = log \/ log' = Append(log, writing[q]))
    BY <1>4 DEF AppendEnds
  <2>. QED  BY <1>2, <2>1, <2>2, ReplayAppend
<1>5. CASE TakeSnapshot  BY <1>5, ReplaySnapshot
<1>6. CASE Tick  BY <1>2, <1>6 DEF Tick
<1>7. CASE UNCHANGED vars  BY <1>2, <1>7 DEF vars
<1>. QED  BY <1>3, <1>4, <1>5, <1>6, <1>7 DEF Next

(* A replay from the snapshot is the replay from the beginning, for every  *)
(* projection, however often and whenever the snapshot was renewed, as     *)
(* long as the appends came in the strict order of their timestamps.       *)
THEOREM ReplaysAreExactInOrder == Spec => []ExactInOrder
<1>1. Init => ReplayInv
  <2> SUFFICES ASSUME Init PROVE ReplayInv  OBVIOUS
  <2>1. snapshot = None  BY DEF Init
  <2>. QED  BY <2>1, LogInvInit DEF ReplayInv, SnapshotPlaced, ExactInOrder, Replayed
<1>2. ReplayInv => ExactInOrder  BY DEF ReplayInv
<1>. QED  BY <1>1, <1>2, ReplayInvStep, PTL DEF Spec

(* A read of the log shows the events of one aggregate in the order they   *)
(* were emitted, whatever the order of their appends.                      *)
THEOREM ReadsFollowEmits == Spec => []AggregateInEmitOrder
<1>1. ASSUME LogInv PROVE AggregateInEmitOrder
  <2> SUFFICES ASSUME NEW i \in DOMAIN log, NEW j \in DOMAIN log, ReadsBefore(i, j),
                      log[i].aggregate_id = log[j].aggregate_id
               PROVE  /\ log[i].event_id < log[j].event_id
                      /\ log[i].sequence < log[j].sequence
                      /\ log[i].timestamp <= log[j].timestamp
    BY DEF AggregateInEmitOrder
  <2>1. log[i] \in Seen /\ log[j] \in Seen  BY DEF Seen, Logged
  <2>2. /\ log[i].event_id \in Int /\ log[j].event_id \in Int
        /\ log[i].event_id # log[j].event_id
        /\ log[i].sequence \in Int /\ log[j].sequence \in Int
        /\ log[i].sequence <= log[j].sequence
    BY <1>1, <2>1 DEF LogInv, Typed, OnePlace, ReadsBefore
  <2>3. CASE log[i].event_id < log[j].event_id
    BY <1>1, <2>1, <2>3 DEF LogInv, InEmitOrder
  <2>4. CASE log[j].event_id < log[i].event_id
    <3>1. log[j].sequence < log[i].sequence  BY <1>1, <2>1, <2>4 DEF LogInv, InEmitOrder
    <3>. QED  BY <2>2, <3>1
  <2>. QED  BY <2>2, <2>3, <2>4
<1>2. LogInv => AggregateInEmitOrder  BY <1>1
<1>. QED  BY LogInvInit, LogInvStep, <1>2, PTL DEF Spec

-----------------------------------------------------------------------------
(* Every claim of the log has its external id bound, and stands or is on   *)
(* record as a conflict with the claim that does.                          *)
ClaimStands(f, e) ==
  /\ e.payload.external \in DOMAIN f.bindings
  /\ \/ f.bindings[e.payload.external] = e.payload.canonical
     \/ [external |-> e.payload.external, existing |-> f.bindings[e.payload.external],
         claimed |-> e.payload.canonical] \in f.conflicts

ClaimsStand == \A e \in Logged : Claimed(e) => ClaimStands(FoldIdentityClaims(log), e)

(* Folding one more claim accounts for it and leaves the others as they    *)
(* were: a binding is never replaced.                                      *)
LEMMA FoldClaimStands ==
  ASSUME NEW f, NEW e
  PROVE  /\ ClaimStands(FoldClaim(f, e), e)
         /\ \A d : ClaimStands(f, d) => ClaimStands(FoldClaim(f, e), d)
<1> DEFINE key == e.payload.external
           id == e.payload.canonical
           g == FoldClaim(f, e)
<1>1. CASE key \in DOMAIN f.bindings /\ f.bindings[key] # id
  <2>1. /\ g.bindings = f.bindings
        /\ g.conflicts = f.conflicts \cup
             {[external |-> key, existing |-> f.bindings[key], claimed |-> id]}
    BY <1>1 DEF FoldClaim
  <2>. QED  BY <1>1, <2>1 DEF ClaimStands
<1>2. CASE ~ (key \in DOMAIN f.bindings /\ f.bindings[key] # id)
  <2>1. g.bindings = Bound(f.bindings, key, id) /\ g.conflicts = f.conflicts
    BY <1>2 DEF FoldClaim
  <2>2. /\ DOMAIN g.bindings = DOMAIN f.bindings \cup {key} /\ g.bindings[key] = id
        /\ \A k \in DOMAIN f.bindings : g.bindings[k] = f.bindings[k]
    BY <1>2, <2>1 DEF Bound
  <2>. QED  BY <2>1, <2>2 DEF ClaimStands
<1>. QED  BY <1>1, <1>2

LEMMA ClaimsStandStep == LogInv /\ ClaimsStand /\ [Next]_vars => ClaimsStand'
<1> SUFFICES ASSUME LogInv, ClaimsStand, [Next]_vars PROVE ClaimsStand'  OBVIOUS
<1>1. ASSUME UNCHANGED log PROVE ClaimsStand'  BY <1>1 DEF ClaimsStand, Logged
<1>2. ASSUME NEW q \in Emitters, AppendEnds(q) PROVE ClaimsStand'
  <2> DEFINE w == writing[q]
  <2>1. CASE log' = log  BY <1>1, <2>1
  <2>2. CASE log' = Append(log, w)
    <3>1. w \in Built /\ log \in Seq(Built)
      <4>1. w # None  BY <1>2 DEF AppendEnds
      <4>2. w \in Seen  BY <4>1 DEF Seen, InFlight
      <4>. QED  BY <4>2 DEF LogInv, Typed
    <3> HIDE DEF w
    <3>2. \A e \in Logged' : e \in Logged \/ e = w
      <4>1. /\ DOMAIN log' = 1..Len(log) + 1 /\ DOMAIN log = 1..Len(log) /\ Len(log) \in Nat
            /\ log'[Len(log) + 1] = w /\ \A i \in 1..Len(log) : log'[i] = log[i]
        BY <2>2, <3>1, LenProperties, AppendProperties
      <4>. QED  BY <4>1 DEF Logged
    <3> DEFINE f == FoldIdentityClaims(log)
    <3>3. FoldIdentityClaims(log') = IF Claimed(w) THEN FoldClaim(f, w) ELSE f
      BY <2>2, <3>1, ClaimsAppend
    <3>4. \A e \in Logged : Claimed(e) => ClaimStands(f, e)  BY DEF ClaimsStand
    <3> HIDE DEF f
    <3>5. ASSUME NEW e \in Logged', Claimed(e) PROVE ClaimStands(FoldIdentityClaims(log'), e)
      BY <3>2, <3>3, <3>4, <3>5, FoldClaimStands
    <3>. QED  BY <3>5 DEF ClaimsStand
  <2>. QED  BY <1>2, <2>1, <2>2 DEF AppendEnds
<1>3. ASSUME NEW q \in Emitters, NEW request \in Requests, Emit(q, request) PROVE ClaimsStand'
  BY <1>1, <1>3 DEF Emit
<1>4. CASE TakeSnapshot  BY <1>1, <1>4 DEF TakeSnapshot
<1>5. CASE Tick  BY <1>1, <1>5 DEF Tick
<1>6. CASE UNCHANGED vars  BY <1>1, <1>6 DEF vars
<1>. QED  BY <1>2, <1>3, <1>4, <1>5, <1>6 DEF Next

(* No claim of identity is lost in the fold, in whatever order the claims  *)
(* reach the log: it binds its id or is on record as a conflict.           *)
THEOREM EveryClaimIsAccounted == Spec => []ClaimsAccounted
<1>1. Init => ClaimsStand
  <2> SUFFICES ASSUME Init PROVE ClaimsStand  OBVIOUS
  <2>1. Logged = {}
    <3>1. DOMAIN log = {}  BY EmptySeq DEF Init
    <3>. QED  BY <3>1 DEF Logged
  <2>. QED  BY <2>1 DEF ClaimsStand
<1>2. ClaimsStand => ClaimsAccounted
  BY DEF ClaimsStand, ClaimStands, ClaimsAccounted
<1>. QED  BY LogInvInit, LogInvStep, <1>1, ClaimsStandStep, <1>2, PTL DEF Spec

-----------------------------------------------------------------------------
(* The clocks.                                                             *)

(* hlc_compare is a strict total order on stamps.                          *)
THEOREM BeforeIsTotalOrder ==
  /\ \A a \in Stamp : ~Before(a, a)
  /\ \A a, b, c \in Stamp : Before(a, b) /\ Before(b, c) => Before(a, c)
  /\ \A a, b \in Stamp : a = b \/ Before(a, b) \/ Before(b, a)
<1>1. \A a \in Stamp : /\ a.physical \in Nat /\ a.logical \in Nat /\ a.source \in Int
  BY ClockAssumption DEF Stamp
<1>2. ASSUME NEW a \in Stamp PROVE ~Before(a, a)  BY <1>1 DEF Before
<1>3. ASSUME NEW a \in Stamp, NEW b \in Stamp, NEW c \in Stamp, Before(a, b), Before(b, c)
      PROVE  Before(a, c)
  BY <1>1, <1>3 DEF Before
<1>4. ASSUME NEW a \in Stamp, NEW b \in Stamp, ~Before(a, b), ~Before(b, a)
      PROVE  a = b
  <2>1. /\ a.physical \in Nat /\ a.logical \in Nat /\ a.source \in Int
        /\ b.physical \in Nat /\ b.logical \in Nat /\ b.source \in Int
    BY <1>1
  <2>2. a.physical = b.physical /\ a.logical = b.logical /\ a.source = b.source
    BY <2>1, <1>4 DEF Before
  <2>. QED  BY <2>2 DEF Stamp
<1>. QED  BY <1>2, <1>3, <1>4

(* hlc_send moves a clock forward.                                         *)
LEMMA SendAdvances ==
  ASSUME NEW local \in Stamp, NEW wall \in Nat
  PROVE  /\ HlcSend(local, wall) \in Stamp
         /\ HlcSend(local, wall).source = local.source
         /\ Before(local, HlcSend(local, wall))
         /\ HlcSend(local, wall).physical <= MaxOf(local.physical, wall)
BY DEF HlcSend, MaxOf, Stamp, Before

(* hlc_receive moves a clock beyond both the local and the incoming stamp. *)
LEMMA ReceiveAdvances ==
  ASSUME NEW local \in Stamp, NEW incoming \in Stamp, NEW wall \in Nat
  PROVE  /\ HlcReceive(local, incoming, wall) \in Stamp
         /\ HlcReceive(local, incoming, wall).source = local.source
         /\ Before(local, HlcReceive(local, incoming, wall))
         /\ Before(incoming, HlcReceive(local, incoming, wall))
         /\ HlcReceive(local, incoming, wall).physical
              <= MaxOf(MaxOf(local.physical, incoming.physical), wall)
<1> DEFINE r == HlcReceive(local, incoming, wall)
<1>1. /\ local.physical \in Nat /\ local.logical \in Nat /\ local.source \in Sources
      /\ incoming.physical \in Nat /\ incoming.logical \in Nat
  BY DEF Stamp
<1>2. r \in Stamp /\ r.source = local.source  BY <1>1 DEF HlcReceive, MaxOf, Stamp
<1>3. Before(local, r)  BY <1>1 DEF HlcReceive, MaxOf, Before
<1>4. Before(incoming, r)  BY <1>1 DEF HlcReceive, MaxOf, Before
<1>5. r.physical <= MaxOf(MaxOf(local.physical, incoming.physical), wall)
  BY <1>1 DEF HlcReceive, MaxOf
<1>. QED  BY <1>2, <1>3, <1>4, <1>5

(* An event whose stamp is later than its source's clock and than all it   *)
(* has seen keeps every part of the invariant.                             *)
LEMMA HappenKeeps ==
  ASSUME HCTypeOK, ClockInv,
         NEW s \in Sources, NEW stamp \in Stamp, NEW seen \in SUBSET Stamp, NEW wall \in Nat,
         Happen(s, stamp, seen, wall),
         stamp.source = s, Before(clock[s], stamp),
         knows[s] \subseteq seen, \A p \in seen : Before(p, stamp),
         stamp.physical <= MaxOf(fastest, wall)
  PROVE  HCTypeOK' /\ ClockInv'
<1> DEFINE e == [stamp |-> stamp, past |-> seen]
<1>1. /\ clock' = [clock EXCEPT ![s] = stamp]
      /\ events' = events \cup {e}
      /\ knows' = [knows EXCEPT ![s] = seen \cup {stamp}]
      /\ fastest' = MaxOf(fastest, wall)
  BY DEF Happen
<1>2. e \in Event /\ e.stamp = stamp /\ e.past = seen  BY DEF Event
<1>3. fastest \in Nat /\ fastest' \in Nat /\ fastest <= fastest'
  BY <1>1 DEF HCTypeOK, MaxOf
<1> HIDE DEF e
<1>4. HCTypeOK'  BY <1>1, <1>2, <1>3 DEF HCTypeOK
<1>5. CausalOrder'  BY <1>1, <1>2 DEF ClockInv, CausalOrder
<1>6. \A f \in events : f.stamp \in Stamp /\ f.stamp # stamp
  <2> TAKE f \in events
  <2>1. f.stamp \in Stamp  BY DEF HCTypeOK, Event
  <2>2. f.stamp \in knows[f.stamp.source]  BY DEF ClockInv, OwnStampsKnown
  <2>3. ~Before(stamp, stamp)  BY BeforeIsTotalOrder
  <2>. QED  BY <2>1, <2>2, <2>3
<1>7. StampsUnique'  BY <1>1, <1>2, <1>6 DEF ClockInv, StampsUnique
<1>8. NoRunaway'
  <2> SUFFICES ASSUME NEW t \in Sources PROVE clock'[t].physical <= fastest'
    BY DEF NoRunaway
  <2>1. clock[t].physical \in Nat /\ clock[t].physical <= fastest
    BY DEF HCTypeOK, Stamp, ClockInv, NoRunaway
  <2>2. CASE t = s  BY <2>2, <1>1 DEF HCTypeOK
  <2>3. CASE t # s  BY <2>1, <2>3, <1>1, <1>3 DEF HCTypeOK
  <2>. QED  BY <2>2, <2>3
<1>9. KnownIsPast'
  BY <1>1 DEF HCTypeOK, ClockInv, KnownIsPast
<1>10. OwnStampsKnown'
  <2> SUFFICES ASSUME NEW f \in events'
               PROVE  f.stamp \in knows'[f.stamp.source] /\ f.stamp.physical <= fastest'
    BY DEF OwnStampsKnown
  <2>1. CASE f = e  BY <2>1, <1>1, <1>2 DEF HCTypeOK
  <2>2. CASE f \in events
    <3>1. f.stamp \in knows[f.stamp.source] /\ f.stamp.physical <= fastest
          /\ f.stamp.physical \in Nat /\ f.stamp.source \in Sources
      BY <2>2 DEF ClockInv, OwnStampsKnown, HCTypeOK, Event, Stamp
    <3>. QED  BY <3>1, <1>1, <1>3 DEF HCTypeOK
  <2>. QED  BY <2>1, <2>2, <1>1
<1>. QED  BY <1>4, <1>5, <1>7, <1>8, <1>9, <1>10 DEF ClockInv

LEMMA ClockInvInductive ==
  /\ HCInit => HCTypeOK /\ ClockInv
  /\ HCTypeOK /\ ClockInv /\ [HCNext]_hcVars => HCTypeOK' /\ ClockInv'
<1>1. HCInit => HCTypeOK /\ ClockInv
  <2> SUFFICES ASSUME HCInit PROVE HCTypeOK /\ ClockInv  OBVIOUS
  <2>1. HCTypeOK  BY DEF HCInit, HCTypeOK, Stamp
  <2>2. ClockInv
    BY DEF HCInit, ClockInv, CausalOrder, StampsUnique, NoRunaway, KnownIsPast, OwnStampsKnown
  <2>. QED  BY <2>1, <2>2
<1>2. HCTypeOK /\ ClockInv /\ [HCNext]_hcVars => HCTypeOK' /\ ClockInv'
  <2> SUFFICES ASSUME HCTypeOK, ClockInv, [HCNext]_hcVars PROVE HCTypeOK' /\ ClockInv'  OBVIOUS
  <2>1. ASSUME NEW s \in Sources, NEW wall \in 0..MaxWall, Send(s, wall)
        PROVE  HCTypeOK' /\ ClockInv'
    <3> DEFINE stamp == HlcSend(clock[s], wall)
    <3>1. clock[s] \in Stamp /\ clock[s].source = s /\ wall \in Nat
          /\ knows[s] \in SUBSET Stamp /\ fastest \in Nat
      BY ClockAssumption DEF HCTypeOK
    <3>2. stamp \in Stamp /\ stamp.source = s /\ Before(clock[s], stamp)
          /\ stamp.physical <= MaxOf(clock[s].physical, wall)
      BY <3>1, SendAdvances
    <3>3. Happen(s, stamp, knows[s], wall)  BY <2>1 DEF Send
    <3> HIDE DEF stamp
    <3>4. \A p \in knows[s] : Before(p, stamp)
      <4> TAKE p \in knows[s]
      <4>1. p \in Stamp  BY <3>1
      <4>2. p = clock[s] \/ Before(p, clock[s])  BY DEF ClockInv, KnownIsPast
      <4>. QED  BY <4>1, <4>2, <3>1, <3>2, BeforeIsTotalOrder
    <3>5. stamp.physical <= MaxOf(fastest, wall)
      <4>1. clock[s].physical <= fastest  BY DEF ClockInv, NoRunaway
      <4>. QED  BY <4>1, <3>1, <3>2 DEF MaxOf, Stamp
    <3>. QED  BY <3>1, <3>2, <3>3, <3>4, <3>5, HappenKeeps
  <2>2. ASSUME NEW s \in Sources, NEW wall \in 0..MaxWall, NEW e \in events,
               Receive(s, e, wall)
        PROVE  HCTypeOK' /\ ClockInv'
    <3> DEFINE stamp == HlcReceive(clock[s], e.stamp, wall)
               seen == knows[s] \cup e.past \cup {e.stamp}
    <3>1. clock[s] \in Stamp /\ clock[s].source = s /\ wall \in Nat
          /\ knows[s] \in SUBSET Stamp /\ fastest \in Nat
          /\ e.stamp \in Stamp /\ e.past \in SUBSET Stamp
      BY ClockAssumption DEF HCTypeOK, Event
    <3>2. stamp \in Stamp /\ stamp.source = s /\ Before(clock[s], stamp)
          /\ Before(e.stamp, stamp)
          /\ stamp.physical <= MaxOf(MaxOf(clock[s].physical, e.stamp.physical), wall)
      BY <3>1, ReceiveAdvances
    <3>3. Happen(s, stamp, seen, wall)  BY <2>2 DEF Receive
    <3> HIDE DEF stamp
    <3>4. \A p \in seen : Before(p, stamp)
      <4> TAKE p \in seen
      <4>0. p \in Stamp  BY <3>1
      <4>1. CASE p \in knows[s]
        <5>1. p = clock[s] \/ Before(p, clock[s])  BY <4>1 DEF ClockInv, KnownIsPast
        <5>. QED  BY <4>0, <5>1, <3>1, <3>2, BeforeIsTotalOrder
      <4>2. CASE p \in e.past
        <5>1. Before(p, e.stamp)  BY <4>2 DEF ClockInv, CausalOrder
        <5>. QED  BY <4>0, <5>1, <3>1, <3>2, BeforeIsTotalOrder
      <4>3. CASE p = e.stamp  BY <4>3, <3>2
      <4>. QED  BY <4>1, <4>2, <4>3
    <3>5. stamp.physical <= MaxOf(fastest, wall)
      <4>1. clock[s].physical <= fastest  BY DEF ClockInv, NoRunaway
      <4>2. e.stamp.physical <= fastest  BY DEF ClockInv, OwnStampsKnown
      <4>. QED  BY <4>1, <4>2, <3>1, <3>2 DEF MaxOf, Stamp
    <3>6. knows[s] \subseteq seen /\ seen \in SUBSET Stamp  BY <3>1
    <3> HIDE DEF seen
    <3>. QED  BY <3>1, <3>2, <3>3, <3>4, <3>5, <3>6, HappenKeeps
  <2>3. CASE UNCHANGED hcVars
    BY <2>3 DEF hcVars, HCTypeOK, ClockInv, CausalOrder, StampsUnique, NoRunaway, KnownIsPast,
                OwnStampsKnown
  <2>. QED  BY <2>1, <2>2, <2>3 DEF HCNext
<1>. QED  BY <1>1, <1>2

(* Stamps, clocks and what sources know keep their types.                  *)
THEOREM ClockTypeCorrect == HCSpec => []HCTypeOK
BY ClockInvInductive, PTL DEF HCSpec

(* Sorting by stamp never puts an event before one it follows.             *)
THEOREM StampsRespectCausality == HCSpec => []CausalOrder
<1>1. ClockInv => CausalOrder  BY DEF ClockInv
<1>. QED  BY <1>1, ClockInvInductive, PTL DEF HCSpec

(* Distinct events are always ordered, one way or the other.               *)
THEOREM StampsAreUnique == HCSpec => []StampsUnique
<1>1. ClockInv => StampsUnique  BY DEF ClockInv
<1>. QED  BY <1>1, ClockInvInductive, PTL DEF HCSpec

(* No stamp runs ahead of every wall clock that was ever read.             *)
THEOREM NoClockRunsAway == HCSpec => []NoRunaway
<1>1. ClockInv => NoRunaway  BY DEF ClockInv
<1>. QED  BY <1>1, ClockInvInductive, PTL DEF HCSpec
=============================================================================
