------------------------------- MODULE Mailbox --------------------------------
(***************************************************************************)
(* Mailboxes and routing of honest-alerts as pure functions (mailbox.py,   *)
(* supervisor.py, message.py, surfaces.py, build_message of dispatch.py).  *)
(*                                                                         *)
(* A mailbox is no data structure but a projection of the event log.  The  *)
(* log is a set of events: no projection depends on the order of events.   *)
(* None is Python's None, and what .get() gives for an absent key.         *)
(***************************************************************************)
EXTENDS Integers, Sequences, TLC

CONSTANTS
  None,
  ToastSeconds   \* how long a toast lives by default, in ticks of the clock

ActorTypes ==
  {"user", "role", "tenant", "admin", "anonymous", "chain", "state_machine", "job",
   "projection", "framework", "auth", "webhook_inbound", "dom", "email", "sms",
   "webhook_outbound", "slack", "teams"}
TerminationConditions == {"ttl", "acknowledged", "event", "never"}
AckScopes == {"session", "actor", "broadcast"}

TerminationRequired ==
  [ttl |-> {"ttl_seconds"}, acknowledged |-> {}, event |-> {"event_type"}, never |-> {}]

DomSurfaces == {"banner", "toast", "modal", "badge", "inline"}

ASSUME MailboxAssumption ==
  None \notin TerminationConditions \cup DomSurfaces /\ ToastSeconds \in Nat

(* SURFACE_DEFAULT_TERMINATION; {} for a message without a surface.        *)
SurfaceDefault(surface) ==
  IF surface = "toast" THEN [condition |-> "ttl", ttl_seconds |-> ToastSeconds]
  ELSE IF surface \in DomSurfaces THEN [condition |-> "acknowledged"]
  ELSE [condition |-> None]

(* build_message: the parts of the envelope that decide who sees it, how   *)
(* long, and where it is routed.                                           *)
BuildMessage(id, args, sentAt) ==
  [message_id   |-> id,
   message_type |-> args.message_type,
   sender       |-> args.sender,
   recipient    |-> args.recipient,
   termination  |-> IF args.termination # None THEN args.termination
                    ELSE SurfaceDefault(args.dom_surface),
   ack_scope    |-> args.ack_scope,
   dom_surface  |-> args.dom_surface,
   reply_required |-> args.reply_required,
   sent_at      |-> sentAt]

(* validate_message, validate_termination.                                 *)
ValidMessage(message) ==
  /\ message.sender \in ActorTypes /\ message.recipient.type \in ActorTypes
  /\ message.termination.condition \in TerminationConditions
  /\ TerminationRequired[message.termination.condition] \subseteq DOMAIN message.termination
  /\ message.ack_scope \in AckScopes
  /\ message.dom_surface \in DomSurfaces \cup {None}

-----------------------------------------------------------------------------
(* A route names the message types its pattern matches.                    *)
RouteMatches(route, message) ==
  /\ message.message_type \in route.message_types
  /\ route.sender_type = None \/ route.sender_type = message.sender

MatchingRoutes(table, message) ==
  SortSeq(SelectSeq(table, LAMBDA route : RouteMatches(route, message)),
          LAMBDA r, s : r.priority < s.priority)

(* delivery_plan: one record per channel of each matched route, in order.  *)
DeliveryPlan(message, routes, now) ==
  LET Planned(route, config) ==
        [message_id |-> message.message_id,
         route_id   |-> route.route_id,
         channel    |-> config.channel,
         recipient  |-> IF config.recipient_spec # None THEN config.recipient_spec
                        ELSE message.recipient,
         deliver_at |-> now + config.delay_seconds]
      planned[r \in 0..Len(routes)] ==
        IF r = 0 THEN << >>
        ELSE planned[r - 1] \o [c \in DOMAIN routes[r].channels |->
                                  Planned(routes[r], routes[r].channels[c])]
  IN planned[Len(routes)]

-----------------------------------------------------------------------------
RecipientMatches(recipient, ref) ==
  /\ recipient.type = ref.type
  /\ recipient.id = None \/ recipient.id = ref.id
  /\ recipient.tenant_id = None \/ recipient.tenant_id = ref.tenant_id

Acks(events, id) ==
  {e \in events : e.event_type = "alert.acknowledged" /\ e.payload.message_id = id}

(* Mutant: actor scope treated as broadcast.                               *)
AcknowledgedByAnyone(scope, acks, ref) ==
  \E ack \in acks :
    \/ scope = "session" /\ ack.payload.session_id = ref.session_id
    \/ scope \in {"actor", "broadcast"}

(* _ACK_SCOPE.                                                             *)
Acknowledged(scope, acks, ref) ==
  \E ack \in acks :
    \/ scope = "session" /\ ack.payload.session_id = ref.session_id
    \/ scope = "actor" /\ ack.payload.actor_id = ref.id
    \/ scope = "broadcast"

(* _event_filter_matches: every key of the filter has the payload's value. *)
FilterMatches(payload, filter) ==
  filter = None \/ \A key \in DOMAIN filter :
    (IF key \in DOMAIN payload THEN payload[key] ELSE None) = filter[key]

EventTerminates(e, message) ==
  /\ e.event_type = message.termination.event_type
  /\ e.timestamp >= message.sent_at
  /\ FilterMatches(e.payload, message.termination.event_filter)

(* Mutant: a ttl message ends at its last second only.                     *)
IsTerminatedAtEdge(message, ref, events, at) ==
  LET spec == message.termination
  IN \/ /\ spec.condition = "ttl"
        /\ at = message.sent_at + spec.ttl_seconds
     \/ /\ spec.condition = "acknowledged"
        /\ Acknowledged(message.ack_scope, Acks(events, message.message_id), ref)
     \/ /\ spec.condition = "event"
        /\ \E e \in events : EventTerminates(e, message)

(* is_terminated through _TERMINATION; a "never" message does not end.     *)
IsTerminated(message, ref, events, at) ==
  LET spec == message.termination
  IN \/ /\ spec.condition = "ttl"
        /\ at > message.sent_at + spec.ttl_seconds
     \/ /\ spec.condition = "acknowledged"
        /\ Acknowledged(message.ack_scope, Acks(events, message.message_id), ref)
     \/ /\ spec.condition = "event"
        /\ \E e \in events : EventTerminates(e, message)

(* The messages sent to ref by a time, ended or not.                       *)
Addressed(ref, events, at) ==
  {e.payload : e \in {e \in events : /\ e.event_type = "alert.sent"
                                     /\ RecipientMatches(e.payload.recipient, ref)
                                     /\ e.payload.sent_at <= at}}

Mailbox(ref, events, at) ==
  {message \in Addressed(ref, events, at) : ~IsTerminated(message, ref, events, at)}
=============================================================================
