-------------------------------- MODULE Alerts --------------------------------
(***************************************************************************)
(* honest-alerts at work: coroutines that send (send, send_and_wait),      *)
(* pollers that execute deliveries, the reply endpoint, one event log and  *)
(* one delivery table, on one event loop; an action is the code between    *)
(* two awaits (dispatch.py, supervisor.py, surfaces.py over mailbox.py).   *)
(*                                                                         *)
(* A runtime call may also return an err, which the code ignores except    *)
(* from deliver, or raise, which ends the coroutine; both count as faults. *)
(*                                                                         *)
(* External: the runtime's log, table, clock and reply wait, the channel   *)
(* handlers, the users who reply, and the process that may die.            *)
(***************************************************************************)
EXTENDS Mailbox, FiniteSets

CONSTANTS
  Messages,      \* message ids the runtime hands out
  SendArgs,      \* the arguments send and send_and_wait are called with
  RoutingTable,  \* the alert_routes, validated
  ActorRefs,     \* the actors that ask for their mailbox
  Pollers,       \* runs of execute_deliveries that may overlap
  SystemEvents,  \* events of other modules, by type and payload
  Budgets        \* bounds: how much of what a behaviour may have (Budget)

Budget ==
  [messages : SUBSET Messages, pollers : SUBSET Pollers, time : Nat,
   events : Nat, replies : Nat, faults : Nat, crashes : Nat]

(* ALERT_EVENTS: the catalog no other module shares.                       *)
AlertEvents ==
  {"alert.sent", "alert.no_route", "alert.delivered", "alert.delivery_failed", "alert.read",
   "alert.replied", "alert.acknowledged", "alert.actioned", "alert.escalated",
   "alert.expired", "alert.failed"}

ASSUME AlertsAssumption ==
  /\ Budgets \subseteq Budget
  /\ \A b \in Budgets : IsFiniteSet(b.pollers)
  /\ \A e \in SystemEvents : e.event_type \notin AlertEvents
  /\ \A args \in SendArgs :
       args.termination # None /\ args.termination.condition = "ttl"
         => args.termination.ttl_seconds \in Nat

VARIABLES
  now,          \* runtime.now()
  log,          \* the event log
  request,      \* the arguments of each send, and
  envelope,     \* the message built from them
  sending,      \* where the send of each message is
  plan,         \* the deliveries it has still to insert
  waitUntil,    \* when its wait for a reply times out, or None
  deliveries,   \* the delivery table: the status of each record
  poll,         \* where each poller is
  handed,       \* how often a channel was given each delivery
  accepted,     \* the deliveries a channel took
  replying,     \* replies between their two events
  answered,     \* replies the endpoint answered ok
  replies,      \* replies posted so far
  faults,       \* runtime calls that failed so far
  crashes,      \* crashes of the process so far
  budget        \* the bounds of this behaviour, chosen at the start

sendVars == <<request, envelope, sending, plan, waitUntil>>
pollVars == <<deliveries, poll, handed, accepted>>
replyVars == <<replying, answered, replies>>
vars == <<now, log, sendVars, pollVars, replyVars, faults, crashes, budget>>

\* unsent, rejected (validation fault), routing (awaits the routing table),
\* inserting, unroutable, waiting (for a reply), then how the call ended
SendPhases == {"unsent", "rejected", "routing", "inserting", "unroutable", "waiting",
               "returned", "replied", "timeout", "raised", "lost"}

PollState(step, left, delivery, outcome) ==
  [step |-> step, left |-> left, delivery |-> delivery, outcome |-> outcome]
Idle == PollState("idle", {}, None, None)

Init ==
  /\ now = 0 /\ log = {}
  /\ request = [m \in Messages |-> None] /\ envelope = [m \in Messages |-> None]
  /\ sending = [m \in Messages |-> "unsent"]
  /\ plan = [m \in Messages |-> << >>]
  /\ waitUntil = [m \in Messages |-> None]
  /\ deliveries = << >> /\ handed = << >> /\ accepted = {}
  /\ poll = [p \in Pollers |-> Idle]
  /\ replying = {} /\ answered = {} /\ replies = 0
  /\ faults = 0 /\ crashes = 0 /\ budget \in Budgets

(* One runtime call fails.                                                 *)
Fault == faults < budget.faults /\ faults' = faults + 1 /\ UNCHANGED <<crashes, budget>>
NoFault == UNCHANGED <<faults, crashes, budget>>

(* runtime.emit: what is appended keeps its place for ever.                *)
Event(type, payload) == [event_type |-> type, timestamp |-> now, payload |-> payload]
Emit(type, payload) ==
  \/ log' = log \cup {Event(type, payload)} /\ NoFault
  \/ UNCHANGED log /\ Fault

-----------------------------------------------------------------------------
GoTo(m, phase) == sending' = [sending EXCEPT ![m] = phase]

(* A runtime call raises in the coroutine that sends m.                    *)
SendRaises(m) ==
  /\ sending[m] \in {"routing", "inserting", "unroutable", "waiting"}
  /\ Fault /\ GoTo(m, "raised")
  /\ UNCHANGED <<now, log, request, envelope, plan, waitUntil, pollVars, replyVars>>

(* send, send_and_wait: build the message, validate it, ask for the routes *)
Send(m, args) ==
  /\ sending[m] = "unsent" /\ m \in budget.messages
  /\ envelope' = [envelope EXCEPT ![m] = BuildMessage(m, args, now)]
  /\ GoTo(m, IF ValidMessage(envelope'[m]) THEN "routing" ELSE "rejected")
  /\ request' = [request EXCEPT ![m] = args]
  /\ NoFault
  /\ UNCHANGED <<now, log, plan, waitUntil, pollVars, replyVars>>

(* supervise: the pure decision, once the routing table is there.          *)
Route(m) ==
  /\ sending[m] = "routing"
  /\ LET routes == MatchingRoutes(RoutingTable, envelope[m])
     IN /\ GoTo(m, IF routes = << >> THEN "unroutable" ELSE "inserting")
        /\ plan' = [plan EXCEPT ![m] = DeliveryPlan(envelope[m], routes, now)]
  /\ NoFault
  /\ UNCHANGED <<now, log, request, envelope, waitUntil, pollVars, replyVars>>

(* One record of the plan; an insert that returns an err goes unnoticed.   *)
Insert(m) ==
  /\ sending[m] = "inserting" /\ plan[m] # << >>
  /\ \/ /\ deliveries' = [d \in DOMAIN deliveries \cup {Head(plan[m])} |->
                            IF d \in DOMAIN deliveries THEN deliveries[d] ELSE "pending"]
        /\ NoFault
     \/ UNCHANGED deliveries /\ Fault
  /\ plan' = [plan EXCEPT ![m] = Tail(@)]
  /\ UNCHANGED <<now, log, request, envelope, sending, waitUntil, poll, handed, accepted, replyVars>>

(* send_and_wait waits as long as the ttl_seconds its caller gave, with    *)
(* any condition; the termination a surface defaults to does not count.    *)
ReplyTimeout(args) ==
  IF args.termination # None /\ "ttl_seconds" \in DOMAIN args.termination
    THEN now + args.termination.ttl_seconds ELSE None

(* The message is on its way: send returns, send_and_wait starts to wait.  *)
SendMessageReturns(m) ==
  IF request[m].reply_required
    THEN GoTo(m, "waiting") /\ waitUntil' = [waitUntil EXCEPT ![m] = ReplyTimeout(request[m])]
    ELSE GoTo(m, "returned") /\ UNCHANGED waitUntil

(* alert.sent, after the last insert.                                      *)
Announce(m) ==
  /\ sending[m] = "inserting" /\ plan[m] = << >>
  /\ Emit("alert.sent", envelope[m])
  /\ SendMessageReturns(m)
  /\ UNCHANGED <<now, request, envelope, plan, pollVars, replyVars>>

(* alert.no_route: nothing is delivered, and send_and_wait waits all the   *)
(* same.                                                                   *)
WarnNoRoute(m) ==
  /\ sending[m] = "unroutable"
  /\ Emit("alert.no_route", [message_id |-> m])
  /\ SendMessageReturns(m)
  /\ UNCHANGED <<now, request, envelope, plan, pollVars, replyVars>>

Replies(m) == {e \in log : e.event_type = "alert.replied" /\ e.payload.message_id = m}

(* Mutant: the timeout is not handed to wait_for_reply.                    *)
WaitEndsOnReply(m) ==
  /\ sending[m] = "waiting"
  /\ Replies(m) # {} /\ GoTo(m, "replied")
  /\ NoFault
  /\ UNCHANGED <<now, log, request, envelope, plan, waitUntil, pollVars, replyVars>>

(* wait_for_reply: a reply event of the message, or None on timeout.       *)
WaitEnds(m) ==
  /\ sending[m] = "waiting"
  /\ \/ Replies(m) # {} /\ GoTo(m, "replied")
     \/ waitUntil[m] # None /\ now >= waitUntil[m] /\ GoTo(m, "timeout")
  /\ NoFault
  /\ UNCHANGED <<now, log, request, envelope, plan, waitUntil, pollVars, replyVars>>

-----------------------------------------------------------------------------
(* Someone who was shown the surface of m clicks an option: handle_reply   *)
(* appends alert.replied, whether or not m has ended meanwhile, and goes   *)
(* on unless the emit raises.                                              *)
HandleReply(m, ref) ==
  /\ replies < budget.replies /\ replies' = replies + 1
  /\ envelope[m] # None /\ envelope[m] \in Addressed(ref, log, now)
  /\ \/ /\ Emit("alert.replied", [message_id |-> m, actor_id |-> ref.id])
        /\ replying' = replying \cup {[message_id |-> m, ref |-> ref]}
     \/ Fault /\ UNCHANGED <<log, replying>>
  /\ UNCHANGED <<now, sendVars, pollVars, answered>>

(* Its second event, alert.acknowledged, names message and actor.  Whether *)
(* or not it was appended, the endpoint answers ok with the empty fragment.*)
Acknowledge(reply) ==
  /\ reply \in replying
  /\ Emit("alert.acknowledged",
          [message_id |-> reply.message_id, actor_id |-> reply.ref.id, session_id |-> None])
  /\ replying' = replying \ {reply}
  /\ answered' = answered \cup {reply}
  /\ UNCHANGED <<now, sendVars, pollVars, replies>>

(* The second emit raises: the reply is recorded and nothing answered.     *)
ReplyRaises(reply) ==
  /\ reply \in replying
  /\ replying' = replying \ {reply} /\ Fault
  /\ UNCHANGED <<now, log, sendVars, pollVars, answered, replies>>

-----------------------------------------------------------------------------
At(p, record) == poll' = [poll EXCEPT ![p] = record]

(* runtime.pending(): the records due now; pass over them in any order.    *)
Due == {d \in DOMAIN deliveries : deliveries[d] = "pending" /\ d.deliver_at <= now}

Poll(p) ==
  /\ p \in budget.pollers
  /\ poll[p].step = "idle" /\ Due # {}
  /\ At(p, PollState("deliver", Due, None, None))
  /\ NoFault
  /\ UNCHANGED <<now, log, sendVars, deliveries, handed, accepted, replyVars>>

\* how often the channel of d was given it
Handed(d) == IF d \in DOMAIN handed THEN handed[d] ELSE 0

(* runtime.deliver: the channel handler takes the delivery or refuses it.  *)
Deliver(p, d) ==
  /\ poll[p].step = "deliver" /\ d \in poll[p].left
  /\ handed' = [e \in DOMAIN handed \cup {d} |-> IF e = d THEN Handed(d) + 1 ELSE handed[e]]
  /\ \E outcome \in {"delivered", "failed"} :
       /\ At(p, PollState("mark", poll[p].left, d, outcome))
       /\ accepted' = IF outcome = "delivered" THEN accepted \cup {d} ELSE accepted
  /\ NoFault
  /\ UNCHANGED <<now, log, sendVars, deliveries, replyVars>>

(* Mutant: only a success is recorded.                                     *)
MarkSuccess(p) ==
  /\ poll[p].step = "mark"
  /\ IF poll[p].outcome = "delivered"
       THEN deliveries' = [deliveries EXCEPT ![poll[p].delivery] = "delivered"]
       ELSE UNCHANGED deliveries
  /\ NoFault
  /\ At(p, PollState("emit", poll[p].left, poll[p].delivery, poll[p].outcome))
  /\ UNCHANGED <<now, log, sendVars, handed, accepted, replyVars>>

(* The outcome goes into the record; an update that fails goes unnoticed.  *)
Mark(p) ==
  /\ poll[p].step = "mark"
  /\ \/ deliveries' = [deliveries EXCEPT ![poll[p].delivery] = poll[p].outcome] /\ NoFault
     \/ UNCHANGED deliveries /\ Fault
  /\ At(p, PollState("emit", poll[p].left, poll[p].delivery, poll[p].outcome))
  /\ UNCHANGED <<now, log, sendVars, handed, accepted, replyVars>>

(* Mutant: alert.delivered whatever the outcome.                           *)
EmitDelivered(p) ==
  /\ poll[p].step = "emit"
  /\ Emit("alert.delivered", poll[p].delivery)
  /\ LET left == poll[p].left \ {poll[p].delivery}
     IN At(p, IF left = {} THEN Idle ELSE PollState("deliver", left, None, None))
  /\ UNCHANGED <<now, sendVars, deliveries, handed, accepted, replyVars>>

(* The outcome is logged; on to the next record of the pass.               *)
EmitOutcome(p) ==
  /\ poll[p].step = "emit"
  /\ Emit(IF poll[p].outcome = "delivered" THEN "alert.delivered" ELSE "alert.delivery_failed",
          poll[p].delivery)
  /\ LET left == poll[p].left \ {poll[p].delivery}
     IN At(p, IF left = {} THEN Idle ELSE PollState("deliver", left, None, None))
  /\ UNCHANGED <<now, sendVars, deliveries, handed, accepted, replyVars>>

(* Mutant: a pass that raised is never followed by another.                *)
PollRaisesForGood(p) ==
  /\ poll[p].step # "idle"
  /\ At(p, PollState("stopped", {}, None, None)) /\ Fault
  /\ UNCHANGED <<now, log, sendVars, deliveries, handed, accepted, replyVars>>

(* A runtime call raises and ends the pass; a later one starts afresh.     *)
PollRaises(p) ==
  /\ poll[p].step # "idle"
  /\ At(p, Idle) /\ Fault
  /\ UNCHANGED <<now, log, sendVars, deliveries, handed, accepted, replyVars>>

-----------------------------------------------------------------------------
Tick ==
  /\ now < budget.time /\ now' = now + 1 /\ NoFault
  /\ UNCHANGED <<log, sendVars, pollVars, replyVars>>

(* Another module appends an event of its own.                             *)
OtherEvent(e) ==
  /\ Cardinality({f \in log : f.event_type = e.event_type}) < budget.events
  /\ log' = log \cup {Event(e.event_type, e.payload)}
  /\ NoFault /\ UNCHANGED <<now, sendVars, pollVars, replyVars>>

(* The process dies and comes back: coroutines are gone, log and table     *)
(* remain.                                                                 *)
Crash ==
  /\ crashes < budget.crashes /\ crashes' = crashes + 1
  /\ sending' = [m \in Messages |->
                   IF sending[m] \in {"routing", "inserting", "unroutable", "waiting"}
                     THEN "lost" ELSE sending[m]]
  /\ poll' = [p \in Pollers |-> Idle]
  /\ replying' = {}
  /\ UNCHANGED <<now, log, request, envelope, plan, waitUntil, deliveries, handed, accepted,
                 answered, replies, faults, budget>>

SendStep(m) == Route(m) \/ Insert(m) \/ Announce(m) \/ WarnNoRoute(m)
PollStep(p) ==
  Poll(p) \/ Mark(p) \/ EmitOutcome(p) \/ PollRaises(p)
    \/ \E d \in poll[p].left : Deliver(p, d)

Next ==
  \/ \E m \in Messages :
       \/ SendStep(m) \/ SendRaises(m) \/ WaitEnds(m)
       \/ \E args \in SendArgs : Send(m, args)
       \/ \E ref \in ActorRefs : HandleReply(m, ref)
  \/ \E reply \in replying : Acknowledge(reply) \/ ReplyRaises(reply)
  \/ \E p \in Pollers : PollStep(p)
  \/ \E e \in SystemEvents : OtherEvent(e)
  \/ Tick \/ Crash

Spec == Init /\ [][Next]_vars

(* The event loop resumes a poller and a sender whose await is over, and   *)
(* polls go on for ever (poll_interval_seconds).                           *)
FairSpec ==
  /\ Spec /\ WF_vars(Tick)
  /\ \A p \in Pollers : WF_vars(PollStep(p))
  /\ \A m \in Messages : WF_vars(SendStep(m)) /\ WF_vars(WaitEnds(m))

-----------------------------------------------------------------------------
(* Every variable has its type.                                            *)
TypeOK ==
  /\ now \in Nat
  /\ \A m \in Messages :
       /\ sending[m] \in SendPhases
       /\ envelope[m] = None <=> sending[m] = "unsent"
       /\ waitUntil[m] \in Nat \cup {None}
  /\ DOMAIN handed \subseteq DOMAIN deliveries /\ accepted \subseteq DOMAIN handed
  /\ \A d \in DOMAIN deliveries : deliveries[d] \in {"pending", "delivered", "failed"}
  /\ \A p \in Pollers : poll[p].left \subseteq DOMAIN deliveries
  /\ faults <= budget.faults /\ crashes <= budget.crashes

(* A message that has left a mailbox never comes back to it, whatever is   *)
(* logged and however time passes (section 4: it "has terminated").        *)
EndedForGood ==
  [][\A ref \in ActorRefs :
       Mailbox(ref, log', now') \cap Addressed(ref, log, now) \subseteq Mailbox(ref, log, now)]_vars

(* An acknowledgment ends a message for nobody its scope does not name:    *)
(* with actor scope the others still see it until they reply.              *)
AckIsScoped ==
  \A m \in Messages, ref \in ActorRefs :
    /\ sending[m] \notin {"unsent", "rejected"} /\ envelope[m].ack_scope = "actor"
    /\ envelope[m].termination.condition = "acknowledged"
    /\ envelope[m] \in Addressed(ref, log, now)
    /\ \A reply \in answered : reply.message_id = m => reply.ref.id # ref.id
    => envelope[m] \in Mailbox(ref, log, now)

(* What the log says of a delivery happened: alert.delivered only for what *)
(* a channel took (overlapping passes, lost marks and crashes included).   *)
DeliveredIsTrue ==
  /\ \A e \in log : e.event_type = "alert.delivered" => e.payload \in accepted
  /\ \A d \in DOMAIN deliveries : deliveries[d] = "delivered" => d \in accepted

(* A delivery is handed to its channel again only for an overlapping pass, *)
(* a failed call or a crash between the delivery and its mark.             *)
DuplicatesBounded ==
  \A d \in DOMAIN handed : handed[d] <= Cardinality(budget.pollers) * (crashes + 1) + faults

(* Every delivery that falls due is settled in the end, delivered or       *)
(* failed, if failures of the runtime do not go on for ever.               *)
DueIsSettled == (Due # {} /\ budget.pollers # {}) ~> Due = {}

(* send_and_wait comes back when its caller declared a ttl.                *)
WaitComesBack ==
  \A m \in Messages :
    (sending[m] = "waiting" /\ waitUntil[m] # None /\ waitUntil[m] <= budget.time)
      ~> sending[m] # "waiting"

-----------------------------------------------------------------------------
(* The inductive invariant behind EndedForGood and DeliveredIsTrue.        *)

(* What is announced was built from a valid request.                       *)
Lasting(message) ==
  /\ message.sent_at \in Nat
  /\ message.termination.condition = "ttl" => message.termination.ttl_seconds \in Nat
SentLasts ==
  /\ now \in Nat
  /\ \A m \in Messages : sending[m] # "unsent" => Lasting(envelope[m])
  /\ \A e \in log : e.event_type = "alert.sent" => Lasting(e.payload)

(* A pass about to record a success has had one.                           *)
InFlightTrue ==
  \A p \in Pollers :
    poll[p].step \in {"mark", "emit"} /\ poll[p].outcome = "delivered"
      => poll[p].delivery \in accepted

Functions ==
  /\ DOMAIN envelope = Messages /\ DOMAIN sending = Messages /\ DOMAIN poll = Pollers
  /\ deliveries = [d \in DOMAIN deliveries |-> deliveries[d]]

AlertsInv == Functions /\ SentLasts /\ InFlightTrue /\ DeliveredIsTrue

-----------------------------------------------------------------------------
(* The inductive invariant behind AckIsScoped.                             *)

\* the acknowledgment of a reply is on the log
Logs(e, reply) ==
  /\ e.event_type = "alert.acknowledged"
  /\ e.payload.message_id = reply.message_id /\ e.payload.actor_id = reply.ref.id

(* The acknowledgments on the log are those of answered replies.           *)
AcksAreReplies ==
  \A e \in log : e.event_type = "alert.acknowledged" => \E reply \in answered : Logs(e, reply)

(* A reply is to a message that was built and keeps its envelope.          *)
RepliesAreKnown ==
  /\ faults \in Nat
  /\ DOMAIN envelope = Messages /\ DOMAIN sending = Messages
  /\ \A m \in Messages : sending[m] = "unsent" => envelope[m] = None
  /\ \A m \in Messages : sending[m] # "unsent" => envelope[m].message_id = m
  /\ \A reply \in replying \cup answered :
       reply.message_id \in Messages /\ sending[reply.message_id] # "unsent"

RepliesInv == AcksAreReplies /\ RepliesAreKnown

-----------------------------------------------------------------------------
(* The inductive invariant behind DuplicatesBounded.                       *)

\* the pollers that handed d over and have not marked it,
Taking(d) == {p \in Pollers : poll[p].step = "mark" /\ poll[p].delivery = d}
\* and those whose pass has d still before it
Ahead(d) ==
  {p \in Pollers : /\ d \in poll[p].left
                   /\ poll[p].step \in {"mark", "emit"} => poll[p].delivery # d}

(* Only a poller that runs has a pass, over records that are there.        *)
PassesFit ==
  /\ faults \in Nat /\ crashes \in Nat /\ budget \in Budgets
  /\ DOMAIN poll = Pollers
  /\ \A p \in Pollers :
       /\ poll[p].left \subseteq DOMAIN deliveries
       /\ poll[p].left # {} \/ poll[p].step = "mark" => p \in budget.pollers
       /\ poll[p].step \in {"mark", "emit"} => poll[p].delivery \in DOMAIN deliveries
       /\ poll[p].step = "mark" => poll[p].outcome \in {"delivered", "failed"}
  /\ DOMAIN handed \subseteq DOMAIN deliveries
  /\ \A d \in DOMAIN handed : handed[d] \in Nat

(* A pending record was handed over for a poller about to mark it, or for  *)
(* one whose mark was lost; a marked one only for passes that had read it. *)
Accounted(d) ==
  IF deliveries[d] = "pending"
    THEN Handed(d) <= Cardinality(Taking(d)) + Cardinality(budget.pollers) * crashes + faults
    ELSE Handed(d) + Cardinality(Ahead(d)) <= Cardinality(budget.pollers) * (crashes + 1) + faults
HandedAccounted == \A d \in DOMAIN deliveries : Accounted(d)

PassesInv == PassesFit /\ HandedAccounted
=============================================================================
