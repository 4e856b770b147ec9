----------------------------- MODULE HybridClock ------------------------------
(***************************************************************************)
(* Hybrid logical clocks of honest-observe (hlc.py): each source stamps    *)
(* its events; a receiver merges the stamp of what it receives.  Stamps    *)
(* reach other sources late, in any order, more than once or never, and a  *)
(* wall clock may read anything, earlier than before included.             *)
(*                                                                         *)
(* External: the wall clocks and the network.  past is what the stamps are *)
(* for and no code keeps: the stamps of the events an event causally       *)
(* follows.                                                                *)
(***************************************************************************)
EXTENDS Integers, FiniteSets

CONSTANTS
  Sources,     \* source identifiers; a string matters only by its place in <
  MaxWall,     \* bound: the latest wall clock reading
  MaxEvents    \* bound: the number of events

ASSUME ClockAssumption ==
  Sources \subseteq Int /\ MaxWall \in Nat /\ MaxEvents \in Nat

VARIABLES
  clock,       \* the local HLC of each source
  knows,       \* stamps of the events each source has had or heard of
  events,      \* every stamped event, also the network it travels on
  fastest      \* the latest wall clock reading anyone has made

hcVars == <<clock, knows, events, fastest>>

Stamp == [physical : Nat, logical : Nat, source : Sources]
Event == [stamp : Stamp, past : SUBSET Stamp]

MaxOf(a, b) == IF a >= b THEN a ELSE b

-----------------------------------------------------------------------------
(* Mutant: the wall clock reset and the increment are swapped.             *)
SendSwapped(local, now) ==
  LET physical == MaxOf(local.physical, now)
  IN [physical |-> physical,
      logical  |-> IF physical > local.physical THEN local.logical + 1 ELSE 0,
      source   |-> local.source]

(* Mutant: the physical part moves on where the logical part should.       *)
SendRunsAhead(local, now) ==
  [physical |-> MaxOf(local.physical + 1, now), logical |-> 0, source |-> local.source]

(* hlc_send *)
HlcSend(local, now) ==
  LET physical == MaxOf(local.physical, now)
  IN [physical |-> physical,
      logical  |-> IF physical > local.physical THEN 0 ELSE local.logical + 1,
      source   |-> local.source]

(* Mutant: equal physical parts take the local branch.                     *)
ReceiveLocalFirst(local, incoming, now) ==
  LET physical == MaxOf(MaxOf(local.physical, incoming.physical), now)
  IN [physical |-> physical,
      logical  |-> IF physical = local.physical THEN local.logical + 1
                   ELSE IF physical = incoming.physical THEN incoming.logical + 1
                   ELSE 0,
      source   |-> local.source]

(* hlc_receive: the receiver keeps its own source. *)
HlcReceive(local, incoming, now) ==
  LET physical == MaxOf(MaxOf(local.physical, incoming.physical), now)
      fromLocal == physical = local.physical
      fromIncoming == physical = incoming.physical
  IN [physical |-> physical,
      logical  |-> IF fromLocal /\ fromIncoming
                     THEN MaxOf(local.logical, incoming.logical) + 1
                   ELSE IF fromLocal THEN local.logical + 1
                   ELSE IF fromIncoming THEN incoming.logical + 1
                   ELSE 0,
      source   |-> local.source]

(* hlc_compare(a, b) = -1: by physical, then logical, then source. *)
Before(a, b) ==
  \/ a.physical < b.physical
  \/ a.physical = b.physical /\ a.logical < b.logical
  \/ a.physical = b.physical /\ a.logical = b.logical /\ a.source < b.source

-----------------------------------------------------------------------------
(* Every variable has its type.                                            *)
HCTypeOK ==
  /\ clock \in [Sources -> Stamp]
  /\ \A s \in Sources : clock[s].source = s
  /\ knows \in [Sources -> SUBSET Stamp]
  /\ events \in SUBSET Event
  /\ fastest \in Nat

HCInit ==
  /\ clock = [s \in Sources |-> [physical |-> 0, logical |-> 0, source |-> s]]
  /\ knows = [s \in Sources |-> {}]
  /\ events = {}
  /\ fastest = 0

(* s stamps an event that follows everything in seen. *)
Happen(s, stamp, seen, now) ==
  /\ clock' = [clock EXCEPT ![s] = stamp]
  /\ events' = events \cup {[stamp |-> stamp, past |-> seen]}
  /\ knows' = [knows EXCEPT ![s] = seen \cup {stamp}]
  /\ fastest' = MaxOf(fastest, now)

Send(s, now) ==
  /\ Cardinality(events) < MaxEvents
  /\ Happen(s, HlcSend(clock[s], now), knows[s], now)

(* s hears of e: the receipt is an event of s that follows e and its past. *)
Receive(s, e, now) ==
  /\ Cardinality(events) < MaxEvents
  /\ Happen(s, HlcReceive(clock[s], e.stamp, now),
            knows[s] \cup e.past \cup {e.stamp}, now)

HCNext ==
  \E s \in Sources, now \in 0..MaxWall :
    Send(s, now) \/ \E e \in events : Receive(s, e, now)

HCSpec == HCInit /\ [][HCNext]_hcVars

-----------------------------------------------------------------------------
(* The order on stamps respects causality: an event's stamp comes after    *)
(* those of all events it follows, whatever the wall clocks read ("gives a *)
(* total order that respects causality without synchronized clocks").      *)
CausalOrder == \A e \in events : \A p \in e.past : Before(p, e.stamp)

(* No two events share a stamp, so that the order leaves none undecided.   *)
StampsUnique == \A e, f \in events : e.stamp = f.stamp => e = f

(* Receiving a stamp never carries a clock beyond the fastest wall clock:  *)
(* the physical part stays a time somebody's clock has shown.              *)
NoRunaway == \A s \in Sources : clock[s].physical <= fastest

(* What a source knows lies before its next stamp.                         *)
KnownIsPast ==
  \A s \in Sources :
    \A p \in knows[s] : p = clock[s] \/ Before(p, clock[s])

(* The stamps of a source never pass its own clock, and it knows them.     *)
OwnStampsKnown ==
  \A e \in events : /\ e.stamp \in knows[e.stamp.source]
                    /\ e.stamp.physical <= fastest

ClockInv == CausalOrder /\ StampsUnique /\ NoRunaway /\ KnownIsPast /\ OwnStampsKnown
=============================================================================
