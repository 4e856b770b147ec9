------------------------------ MODULE MCObserve -------------------------------
(***************************************************************************)
(* Instances of EventLog and HybridClock for TLC.  The log: two            *)
(* aggregates, a claim for each of two canonical ids, one event without    *)
(* type, a projection of one type.  The clocks: sources as their ranks.    *)
(*                                                                         *)
(* The two share no variable, so a behaviour is one of the log or one of   *)
(* the clocks: interleaving them would multiply states and show nothing.   *)
(***************************************************************************)
EXTENDS EventLog, HybridClock

CONSTANTS a1, a2, stripe_7, ann, bob

Claim(a, id) == [event_type |-> "identity.claimed", aggregate_id |-> a,
                 payload |-> [external |-> stripe_7, canonical |-> id]]
Plain(a) == [event_type |-> "app.done", aggregate_id |-> a, payload |-> None]

MCRequests ==
  {Claim(a1, ann), Claim(a2, bob), Plain(a1),
   [event_type |-> None, aggregate_id |-> a2, payload |-> None]}

MCProjection == [event_types |-> {"identity.claimed"}, aggregate_id |-> None, from_ts |-> 0,
                 to_ts |-> None, snapshot_interval |-> 2]

MCSources == 1..3

LogUntouched == ids = 0 /\ now = 0
ClocksUntouched == events = {}

ObserveInit == Init /\ HCInit
ObserveNext ==
  \/ Next /\ ClocksUntouched /\ UNCHANGED hcVars
  \/ HCNext /\ LogUntouched /\ UNCHANGED vars
ObserveSpec == ObserveInit /\ [][ObserveNext]_<<vars, hcVars>>

Symmetry == Permutations(Emitters)

PlainRequests == {Plain(a1), Plain(a2)}
EveryEvent == [MCProjection EXCEPT !.event_types = None, !.snapshot_interval = 1]
=============================================================================
