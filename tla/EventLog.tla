------------------------------- MODULE EventLog -------------------------------
(***************************************************************************)
(* The event log of honest-observe: concurrent emits (emit.py, events.py), *)
(* projections and snapshots of the log (projections.py, snapshot.py), the *)
(* identity bindings folded from it (ingest.py) and its reader (cli.py).   *)
(*                                                                         *)
(* emit reads id, timestamp and sequence, then awaits the append: appends  *)
(* end in any order, or fail.  A projection's state is modelled by the     *)
(* sequence of events folded into it: every fold is a function of that.    *)
(*                                                                         *)
(* External: the runtime (clock, ids, per-aggregate counters, log writer)  *)
(* and the boundary that keeps the snapshots.                              *)
(***************************************************************************)
EXTENDS Integers, Sequences, FiniteSets, SequencesExt

CONSTANTS
  Emitters,      \* coroutines that emit
  Requests,      \* what they emit: [event_type, aggregate_id, payload]
  Projection,    \* the declared projection (declare_projection) and a window of time
  None,
  MaxTime,       \* bound: the clock
  MaxEmits       \* bound: calls of emit

ASSUME EventLogAssumption == MaxTime \in Nat /\ MaxEmits \in Nat

(* The window is made of times, and the interval is a number.              *)
ASSUME ProjectionAssumption ==
  /\ Projection.from_ts \in Int \cup {None} /\ Projection.to_ts \in Int \cup {None}
  /\ Projection.snapshot_interval \in Int \cup {None}

Aggregates == {r.aggregate_id : r \in Requests}

VARIABLES
  now,        \* runtime.timestamp(), which never goes back
  counter,    \* runtime.sequence of each aggregate: the last number given out
  ids,        \* event ids given out
  writing,    \* the event each emitter awaits the append of, or None
  log,        \* the log, in the order of the appends
  acked,      \* ids emit returned ok for
  snapshot    \* the latest snapshot of Projection, or None

vars == <<now, counter, ids, writing, log, acked, snapshot>>

-----------------------------------------------------------------------------
(* build_event: the envelope; a required field is "empty" when it is None. *)
BuildEvent(request, id, timestamp, sequence) ==
  [event_id |-> id, event_type |-> request.event_type,
   aggregate_id |-> request.aggregate_id, payload |-> request.payload,
   timestamp |-> timestamp, sequence |-> sequence]
ValidEvent(e) == e.event_type # None /\ e.aggregate_id # None

(* matches: the filters of a projection; the window is half-open.          *)
MatchesFrom(e, p, from_ts) ==
  /\ p.event_types = None \/ e.event_type \in p.event_types
  /\ p.aggregate_id = None \/ e.aggregate_id = p.aggregate_id
  /\ from_ts = None \/ e.timestamp >= from_ts
  /\ p.to_ts = None \/ e.timestamp < p.to_ts
Matches(e, p) == MatchesFrom(e, p, p.from_ts)

(* The loop of both readers: the events that are chosen, folded in order   *)
(* onto what was folded before.                                            *)
Folded(state, events, chosen) ==
  LET fold[n \in 0..Len(events)] ==
        IF n = 0 THEN state
        ELSE IF events[n] \in chosen THEN Append(fold[n - 1], events[n])
        ELSE fold[n - 1]
  IN fold[Len(events)]

ApplyProjection(events, p) == Folded(<< >>, events, {e \in Range(events) : Matches(e, p)})

(* Mutant: the comparison with the position of the snapshot is not strict. *)
ResumeAtSnapshot(snap, events, p) ==
  Folded(snap.state, events,
         {e \in Range(events) : e.timestamp >= snap.snapshot_at /\ MatchesFrom(e, p, None)})

(* resume_from_snapshot: strictly later events only, and no from_ts.       *)
ResumeFromSnapshot(snap, events, p) ==
  Folded(snap.state, events,
         {e \in Range(events) : e.timestamp > snap.snapshot_at /\ MatchesFrom(e, p, None)})

ShouldSnapshot(eventsSince, interval) ==
  interval # None /\ interval > 0 /\ eventsSince >= interval

(* What a reader of the projection gets.                                   *)
Replayed ==
  IF snapshot = None THEN ApplyProjection(log, Projection)
  ELSE ResumeFromSnapshot(snapshot, log, Projection)

(* read_event_log: ORDER BY sequence, which leaves ties in any order.  A   *)
(* read may show the event at i of the log before the one at j.            *)
ReadsBefore(i, j) == i # j /\ log[i].sequence <= log[j].sequence

-----------------------------------------------------------------------------
Claimed(e) == e.event_type = "identity.claimed"
NoBindings == [bindings |-> << >>, conflicts |-> {}]

Bound(bindings, key, id) ==
  [k \in DOMAIN bindings \cup {key} |-> IF k = key THEN id ELSE bindings[k]]

(* Mutant: a claim of a bound external id is skipped.                      *)
FoldFirstOnly(state, e) ==
  IF e.payload.external \in DOMAIN state.bindings THEN state
  ELSE [bindings |-> Bound(state.bindings, e.payload.external, e.payload.canonical),
        conflicts |-> state.conflicts]

(* One step of fold_identity_claims: the first claim of an external id     *)
(* binds it; another canonical id is a conflict.                           *)
FoldClaim(state, e) ==
  LET key == e.payload.external
      id == e.payload.canonical
  IN IF key \in DOMAIN state.bindings /\ state.bindings[key] # id
       THEN [bindings |-> state.bindings,
             conflicts |-> state.conflicts \cup
               {[external |-> key, existing |-> state.bindings[key], claimed |-> id]}]
       ELSE [bindings |-> Bound(state.bindings, key, id), conflicts |-> state.conflicts]

FoldIdentityClaims(events) ==
  LET fold[n \in 0..Len(events)] ==
        IF n = 0 THEN NoBindings
        ELSE IF Claimed(events[n]) THEN FoldClaim(fold[n - 1], events[n])
        ELSE fold[n - 1]
  IN fold[Len(events)]

-----------------------------------------------------------------------------
Init ==
  /\ now = 0
  /\ counter = [a \in Aggregates |-> 0]
  /\ ids = 0
  /\ writing = [p \in Emitters |-> None]
  /\ log = << >>
  /\ acked = {}
  /\ snapshot = None

(* Mutant: the sequence number is one more than the events in the log.     *)
EmitCounted(p, request) ==
  /\ writing[p] = None /\ ids < MaxEmits
  /\ ids' = ids + 1
  /\ counter' = [counter EXCEPT ![request.aggregate_id] = Len(SelectSeq(log,
                   LAMBDA e : e.aggregate_id = request.aggregate_id)) + 1]
  /\ LET e == BuildEvent(request, ids', now, counter'[request.aggregate_id])
     IN writing' = [writing EXCEPT ![p] = IF ValidEvent(e) THEN e ELSE None]
  /\ UNCHANGED <<now, log, acked, snapshot>>

(* emit up to its await.  The sequence number is taken even for an event   *)
(* that turns out invalid, of which nothing is written.                    *)
Emit(p, request) ==
  /\ writing[p] = None /\ ids < MaxEmits
  /\ ids' = ids + 1
  /\ counter' = [counter EXCEPT ![request.aggregate_id] = @ + 1]
  /\ LET e == BuildEvent(request, ids', now, counter'[request.aggregate_id])
     IN writing' = [writing EXCEPT ![p] = IF ValidEvent(e) THEN e ELSE None]
  /\ UNCHANGED <<now, log, acked, snapshot>>

(* Mutant: the Result of the append is not looked at.                      *)
AppendIgnored(p) ==
  /\ writing[p] # None
  /\ \/ log' = Append(log, writing[p])
     \/ UNCHANGED log
  /\ acked' = acked \cup {writing[p].event_id}
  /\ writing' = [writing EXCEPT ![p] = None]
  /\ UNCHANGED <<now, counter, ids, snapshot>>

(* The append ends: written and ok; or err, which emit returns as          *)
(* emit_failed, with nothing written or with the answer lost on the way.   *)
AppendEnds(p) ==
  /\ writing[p] # None
  /\ \/ log' = Append(log, writing[p]) /\ acked' = acked \cup {writing[p].event_id}
     \/ log' \in {log, Append(log, writing[p])} /\ UNCHANGED acked
  /\ writing' = [writing EXCEPT ![p] = None]
  /\ UNCHANGED <<now, counter, ids, snapshot>>

(* The boundary renews the snapshot: the state a read gives now, at the    *)
(* position of the latest event in the log.                                *)
TakeSnapshot ==
  /\ ShouldSnapshot(Len(ApplyProjection(log, Projection))
                      - (IF snapshot = None THEN 0 ELSE Len(snapshot.state)),
                    Projection.snapshot_interval)
  /\ snapshot' = [snapshot_at |-> Max({log[i].timestamp : i \in DOMAIN log}),
                  state |-> Replayed]
  /\ UNCHANGED <<now, counter, ids, writing, log, acked>>

Tick ==
  /\ now < MaxTime /\ now' = now + 1
  /\ UNCHANGED <<counter, ids, writing, log, acked, snapshot>>

Next ==
  \/ \E p \in Emitters : AppendEnds(p) \/ \E request \in Requests : Emit(p, request)
  \/ TakeSnapshot \/ Tick

Spec == Init /\ [][Next]_vars

-----------------------------------------------------------------------------
InFlight == {writing[p] : p \in {q \in Emitters : writing[q] # None}}
Logged == {log[i] : i \in DOMAIN log}

(* Every variable has its type.                                            *)
TypeOK ==
  /\ now \in Nat /\ ids \in Nat /\ acked \subseteq 1..ids
  /\ counter \in [Aggregates -> Nat]
  /\ \A e \in InFlight \cup Logged :
       /\ e.event_id \in 1..ids /\ e.timestamp \in 0..now
       /\ e.sequence \in 1..counter[e.aggregate_id] /\ ValidEvent(e)

(* Whatever the order of the appends, a read shows the events of one       *)
(* aggregate in the order they were emitted, none twice ("they fix the     *)
(* order within an aggregate without needing global locks").               *)
AggregateInEmitOrder ==
  \A i, j \in DOMAIN log :
    ReadsBefore(i, j) /\ log[i].aggregate_id = log[j].aggregate_id
      => /\ log[i].event_id < log[j].event_id
         /\ log[i].sequence < log[j].sequence
         /\ log[i].timestamp <= log[j].timestamp

(* emit said ok only for events that are in the log, each there once.      *)
AckedIsLogged ==
  \A id \in acked : \E i \in DOMAIN log : \A j \in DOMAIN log : log[j].event_id = id <=> j = i

(* A replay from the snapshot is the replay from the beginning as long as  *)
(* the appends came in the strict order of their timestamps.               *)
ExactInOrder ==
  (\A i, j \in DOMAIN log : i < j => log[i].timestamp < log[j].timestamp)
    => Replayed = ApplyProjection(log, Projection)

(* Every claim in the log is what its id is bound to, or on record as a    *)
(* conflict with it ("recorded for human adjudication").                   *)
ClaimsAccounted ==
  LET f == FoldIdentityClaims(log)
  IN \A e \in Logged :
       Claimed(e) =>
         \/ f.bindings[e.payload.external] = e.payload.canonical
         \/ [external |-> e.payload.external, existing |-> f.bindings[e.payload.external],
             claimed |-> e.payload.canonical] \in f.conflicts

(* resume_from_snapshot replays exactly what was not folded yet ("the one  *)
(* rule that makes a snapshot exact rather than an approximation").        *)
SnapshotExact ==
  {Replayed[i] : i \in DOMAIN Replayed} = {e \in Logged : Matches(e, Projection)}
=============================================================================
