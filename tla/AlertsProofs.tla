----------------------------- MODULE AlertsProofs -----------------------------
(***************************************************************************)
(* Alerts for every routing table, every set of requests, pollers and      *)
(* budgets: a message that has left a mailbox never returns to it, and an  *)
(* acknowledgment takes it from nobody its scope does not name; the log    *)
(* never claims a delivery no channel took, and a channel is given a       *)
(* delivery twice only where passes overlap, calls fail or the process     *)
(* dies.                                                                   *)
(***************************************************************************)
EXTENDS Alerts, FiniteSetTheorems, TLAPS

(* More events and a later time only ever end messages.                    *)
LEMMA EndIsFinal ==
  ASSUME NEW message, NEW ref, NEW older, NEW newer, NEW at \in Nat, NEW later \in Nat,
         older \subseteq newer, at <= later, Lasting(message),
         IsTerminated(message, ref, older, at)
  PROVE  IsTerminated(message, ref, newer, later)
<1> DEFINE spec == message.termination
<1>1. CASE spec.condition = "ttl" /\ at > message.sent_at + spec.ttl_seconds
  <2>1. message.sent_at \in Nat /\ spec.ttl_seconds \in Nat  BY <1>1 DEF Lasting
  <2>2. later > message.sent_at + spec.ttl_seconds  BY <1>1, <2>1
  <2>. QED  BY <1>1, <2>2 DEF IsTerminated
<1>2. CASE /\ spec.condition = "acknowledged"
           /\ Acknowledged(message.ack_scope, Acks(older, message.message_id), ref)
  <2>1. Acks(older, message.message_id) \subseteq Acks(newer, message.message_id)  BY DEF Acks
  <2>2. Acknowledged(message.ack_scope, Acks(newer, message.message_id), ref)
    BY <1>2, <2>1 DEF Acknowledged
  <2>. QED  BY <1>2, <2>2 DEF IsTerminated
<1>3. CASE spec.condition = "event" /\ \E e \in older : EventTerminates(e, message)
  BY <1>3 DEF IsTerminated
<1>. QED  BY <1>1, <1>2, <1>3 DEF IsTerminated

(* Every step keeps what is on the log and never turns the clock back.     *)
LEMMA LogGrows ==
  ASSUME now \in Nat, [Next]_vars
  PROVE  log \subseteq log' /\ now' \in Nat /\ now <= now'
<1>1. ASSUME NEW m \in Messages,
             \/ SendStep(m) \/ SendRaises(m) \/ WaitEnds(m)
             \/ \E args \in SendArgs : Send(m, args)
             \/ \E ref \in ActorRefs : HandleReply(m, ref)
      PROVE  log \subseteq log' /\ now' = now
  BY <1>1 DEF SendStep, SendRaises, WaitEnds, Send, HandleReply, Route, Insert, Announce,
              WarnNoRoute, Emit
<1>2. ASSUME NEW reply \in replying, Acknowledge(reply) \/ ReplyRaises(reply)
      PROVE  log \subseteq log' /\ now' = now
  BY <1>2 DEF Acknowledge, ReplyRaises, Emit
<1>3. ASSUME NEW p \in Pollers, PollStep(p)
      PROVE  log \subseteq log' /\ now' = now
  BY <1>3 DEF PollStep, Poll, Deliver, Mark, EmitOutcome, PollRaises, Emit
<1>4. ASSUME NEW e \in SystemEvents, OtherEvent(e)
      PROVE  log \subseteq log' /\ now' = now
  BY <1>4 DEF OtherEvent
<1>5. CASE Tick  BY <1>5 DEF Tick
<1>6. CASE Crash \/ UNCHANGED vars  BY <1>6 DEF Crash, vars
<1>. QED  BY <1>1, <1>2, <1>3, <1>4, <1>5, <1>6 DEF Next

(* What send builds from a request.                                        *)
LEMMA BuiltLasts ==
  ASSUME NEW m, NEW args \in SendArgs, now \in Nat
  PROVE  Lasting(BuildMessage(m, args, now))
<1> DEFINE message == BuildMessage(m, args, now)
<1>1. message.sent_at \in Nat  BY DEF BuildMessage
<1>2. ASSUME message.termination.condition = "ttl"
      PROVE  message.termination.ttl_seconds \in Nat
  <2>1. CASE args.termination # None
    BY <2>1, <1>2, AlertsAssumption DEF BuildMessage
  <2>2. CASE args.termination = None
    <3>1. message.termination = SurfaceDefault(args.dom_surface)  BY <2>2 DEF BuildMessage
    <3>2. "ttl" \in TerminationConditions  BY DEF TerminationConditions
    <3>3. SurfaceDefault(args.dom_surface).condition = "ttl"  BY <3>1, <1>2
    <3>4. args.dom_surface = "toast"  BY <3>2, <3>3, MailboxAssumption DEF SurfaceDefault
    <3>. QED  BY <3>1, <3>4, MailboxAssumption DEF SurfaceDefault
  <2>. QED  BY <2>1, <2>2
<1>. QED  BY <1>1, <1>2 DEF Lasting

LEMMA AlertsInvInit == Init => AlertsInv
<1> SUFFICES ASSUME Init PROVE AlertsInv  OBVIOUS
<1>1. Functions  BY DEF Init, Functions
<1>2. SentLasts  BY DEF Init, SentLasts
<1>3. InFlightTrue  BY DEF Init, InFlightTrue, Idle, PollState
<1>4. DeliveredIsTrue  BY DEF Init, DeliveredIsTrue
<1>. QED  BY <1>1, <1>2, <1>3, <1>4 DEF AlertsInv

(* An append to the log that announces nothing and delivers nothing.       *)
LEMMA HarmlessEvent ==
  ASSUME AlertsInv, NEW type, NEW payload,
         log' = log \cup {Event(type, payload)} \/ UNCHANGED log,
         type \notin {"alert.sent", "alert.delivered"},
         UNCHANGED <<envelope, sending, now, deliveries, poll, accepted>>
  PROVE  AlertsInv'
<1>1. Event(type, payload).event_type = type  BY DEF Event
<1>2. Functions' /\ InFlightTrue'  BY DEF AlertsInv, Functions, InFlightTrue
<1>3. SentLasts'  BY <1>1 DEF AlertsInv, SentLasts
<1>4. DeliveredIsTrue'  BY <1>1 DEF AlertsInv, DeliveredIsTrue
<1>. QED  BY <1>2, <1>3, <1>4 DEF AlertsInv

(* A step of the sends, which touches neither table nor pollers.           *)
LEMMA SendKeeps ==
  ASSUME AlertsInv, NEW m \in Messages,
         \/ SendStep(m) \/ SendRaises(m) \/ WaitEnds(m)
         \/ \E args \in SendArgs : Send(m, args)
  PROVE  AlertsInv'
<1> USE DEF AlertsInv, pollVars, GoTo
<1>1. CASE \E args \in SendArgs : Send(m, args)
  <2> PICK args \in SendArgs : Send(m, args)  BY <1>1
  <2>1. Lasting(BuildMessage(m, args, now))  BY BuiltLasts DEF SentLasts
  <2>2. /\ UNCHANGED <<now, log, deliveries, poll, accepted>>
        /\ envelope' = [envelope EXCEPT ![m] = BuildMessage(m, args, now)]
        /\ \E phase : sending' = [sending EXCEPT ![m] = phase]
    BY DEF Send
  <2>3. Functions'  BY <2>2 DEF Functions
  <2>4. SentLasts'  BY <2>1, <2>2 DEF SentLasts, Functions
  <2>5. InFlightTrue' /\ DeliveredIsTrue'  BY <2>2 DEF InFlightTrue, DeliveredIsTrue
  <2>. QED  BY <2>3, <2>4, <2>5
<1>2. CASE Route(m) \/ SendRaises(m) \/ WaitEnds(m)
  <2>1. /\ UNCHANGED <<now, log, envelope, deliveries, poll, accepted>>
        /\ sending[m] # "unsent"
        /\ \E phase : sending' = [sending EXCEPT ![m] = phase]
    BY <1>2 DEF Route, SendRaises, WaitEnds
  <2>2. Functions'  BY <2>1 DEF Functions
  <2>3. SentLasts'  BY <2>1 DEF SentLasts, Functions
  <2>4. InFlightTrue' /\ DeliveredIsTrue'  BY <2>1 DEF InFlightTrue, DeliveredIsTrue
  <2>. QED  BY <2>2, <2>3, <2>4
<1>3. CASE Insert(m)
  <2>1. UNCHANGED <<now, log, envelope, sending, poll, accepted>>  BY <1>3 DEF Insert
  <2>2. Functions'  BY <1>3, <2>1 DEF Insert, Functions
  <2>3. SentLasts' /\ InFlightTrue'  BY <2>1 DEF SentLasts, InFlightTrue
  <2>4. DeliveredIsTrue'  BY <1>3, <2>1 DEF Insert, DeliveredIsTrue
  <2>. QED  BY <2>2, <2>3, <2>4
<1>4. CASE Announce(m) \/ WarnNoRoute(m)
  <2>1. /\ UNCHANGED <<now, envelope, deliveries, poll, accepted>>
        /\ sending[m] # "unsent"
        /\ \E phase : sending' = [sending EXCEPT ![m] = phase]
    BY <1>4 DEF Announce, WarnNoRoute, SendMessageReturns
  <2>2. PICK e : /\ log' = log \cup {e} \/ UNCHANGED log
                 /\ e.event_type \in {"alert.sent", "alert.no_route"}
                 /\ e.event_type = "alert.sent" => e.payload = envelope[m]
    <3>1. CASE Announce(m)
      <4>1. /\ Event("alert.sent", envelope[m]).event_type = "alert.sent"
            /\ Event("alert.sent", envelope[m]).payload = envelope[m]
        BY DEF Event
      <4>. QED  BY <3>1, <4>1 DEF Announce, Emit
    <3>2. CASE WarnNoRoute(m)
      <4>1. Event("alert.no_route", [message_id |-> m]).event_type = "alert.no_route"
        BY DEF Event
      <4>. QED  BY <3>2, <4>1 DEF WarnNoRoute, Emit
    <3>. QED  BY <1>4, <3>1, <3>2
  <2>3. Functions' /\ InFlightTrue'  BY <2>1 DEF Functions, InFlightTrue
  <2>4. SentLasts'  BY <2>1, <2>2 DEF SentLasts, Functions
  <2>5. DeliveredIsTrue'  BY <2>1, <2>2 DEF DeliveredIsTrue
  <2>. QED  BY <2>3, <2>4, <2>5
<1>. QED  BY <1>1, <1>2, <1>3, <1>4 DEF SendStep

(* A step of a delivery pass, which announces nothing.                     *)
LEMMA PollKeeps ==
  ASSUME AlertsInv, NEW p \in Pollers, PollStep(p)
  PROVE  AlertsInv'
<1> USE DEF AlertsInv, At
<1>1. UNCHANGED <<now, envelope, sending>>
  BY DEF PollStep, Poll, Mark, EmitOutcome, PollRaises, Deliver, sendVars
<1>2. SentLasts'
  <2>1. CASE UNCHANGED log  BY <2>1, <1>1 DEF SentLasts
  <2>2. CASE EmitOutcome(p)
    <3>1. \A type : Event(type, poll[p].delivery).event_type = type  BY DEF Event
    <3>2. PICK e : /\ log' = log \cup {e} \/ UNCHANGED log
                   /\ e.event_type # "alert.sent"
      BY <2>2, <3>1 DEF EmitOutcome, Emit
    <3>. QED  BY <3>2, <1>1 DEF SentLasts
  <2>. QED  BY <2>1, <2>2 DEF PollStep, Poll, Mark, PollRaises, Deliver
<1>3. CASE Poll(p) \/ PollRaises(p)
  <2>1. /\ UNCHANGED <<log, deliveries, accepted>>
        /\ \E left, step : /\ step \in {"idle", "deliver"}
                           /\ poll' = [poll EXCEPT ![p] = [step |-> step, left |-> left,
                                                   delivery |-> None, outcome |-> None]]
    BY <1>3 DEF Poll, PollRaises, Idle, PollState
  <2>2. Functions' /\ InFlightTrue'  BY <2>1, <1>1 DEF Functions, InFlightTrue
  <2>3. DeliveredIsTrue'  BY <2>1 DEF DeliveredIsTrue
  <2>. QED  BY <1>2, <2>2, <2>3
<1>4. ASSUME NEW d \in poll[p].left, Deliver(p, d) PROVE AlertsInv'
  <2>1. /\ UNCHANGED <<log, deliveries>> /\ accepted \subseteq accepted'
        /\ \E outcome : /\ outcome = "delivered" => d \in accepted'
                        /\ poll' = [poll EXCEPT ![p] = [step |-> "mark", left |-> poll[p].left,
                                                delivery |-> d, outcome |-> outcome]]
    BY <1>4 DEF Deliver, PollState
  <2>2. Functions' /\ InFlightTrue'  BY <2>1, <1>1 DEF Functions, InFlightTrue
  <2>3. DeliveredIsTrue'  BY <2>1 DEF DeliveredIsTrue
  <2>. QED  BY <1>2, <2>2, <2>3
<1>5. CASE Mark(p)
  <2>1. /\ UNCHANGED <<log, accepted>>
        /\ poll[p].step = "mark"
        /\ poll' = [poll EXCEPT ![p] = [step |-> "emit", left |-> poll[p].left,
                                delivery |-> poll[p].delivery, outcome |-> poll[p].outcome]]
        /\ \/ deliveries' = [deliveries EXCEPT ![poll[p].delivery] = poll[p].outcome]
           \/ UNCHANGED deliveries
    BY <1>5 DEF Mark, PollState
  <2>2. InFlightTrue'  BY <2>1, <1>1 DEF Functions, InFlightTrue
  <2>3. Functions'  BY <2>1, <1>1 DEF Functions
  <2>4. DeliveredIsTrue'  BY <2>1 DEF DeliveredIsTrue, InFlightTrue, Functions
  <2>. QED  BY <1>2, <2>2, <2>3, <2>4
<1>6. CASE EmitOutcome(p)
  <2>1. /\ UNCHANGED <<deliveries, accepted>> /\ poll[p].step = "emit"
        /\ \E left, step : /\ step \in {"idle", "deliver"}
                           /\ poll' = [poll EXCEPT ![p] = [step |-> step, left |-> left,
                                                   delivery |-> None, outcome |-> None]]
    BY <1>6 DEF EmitOutcome, Idle, PollState
  <2>2. Functions' /\ InFlightTrue'  BY <2>1, <1>1 DEF Functions, InFlightTrue
  <2>3. \A type : /\ Event(type, poll[p].delivery).event_type = type
                  /\ Event(type, poll[p].delivery).payload = poll[p].delivery
    BY DEF Event
  <2>4. PICK e : /\ log' = log \cup {e} \/ UNCHANGED log
                 /\ e.event_type = "alert.delivered"
                      => poll[p].outcome = "delivered" /\ e.payload = poll[p].delivery
    BY <1>6, <2>3 DEF EmitOutcome, Emit
  <2>5. DeliveredIsTrue'  BY <2>1, <2>4 DEF DeliveredIsTrue, InFlightTrue
  <2>. QED  BY <1>2, <2>2, <2>5
<1>. QED  BY <1>3, <1>4, <1>5, <1>6 DEF PollStep

LEMMA AlertsInvStep == AlertsInv /\ [Next]_vars => AlertsInv'
<1> SUFFICES ASSUME AlertsInv, [Next]_vars PROVE AlertsInv'  OBVIOUS
<1>1. ASSUME NEW m \in Messages,
             \/ SendStep(m) \/ SendRaises(m) \/ WaitEnds(m)
             \/ \E args \in SendArgs : Send(m, args)
      PROVE  AlertsInv'
  BY <1>1, SendKeeps
<1>2. ASSUME NEW m \in Messages, NEW ref \in ActorRefs, HandleReply(m, ref) PROVE AlertsInv'
  BY <1>2, HarmlessEvent DEF HandleReply, Emit, sendVars, pollVars
<1>3. ASSUME NEW reply \in replying, Acknowledge(reply) \/ ReplyRaises(reply) PROVE AlertsInv'
  <2>1. CASE Acknowledge(reply)
    BY <2>1, HarmlessEvent DEF Acknowledge, Emit, sendVars, pollVars
  <2>2. CASE ReplyRaises(reply)
    <3>1. UNCHANGED <<log, envelope, sending, now, deliveries, poll, accepted>>
      BY <2>2 DEF ReplyRaises, sendVars, pollVars
    <3>2. "alert.replied" \notin {"alert.sent", "alert.delivered"}  OBVIOUS
    <3>. QED  BY <3>1, <3>2, HarmlessEvent
  <2>. QED  BY <1>3, <2>1, <2>2
<1>4. ASSUME NEW p \in Pollers, PollStep(p) PROVE AlertsInv'
  BY <1>4, PollKeeps
<1>5. ASSUME NEW e \in SystemEvents, OtherEvent(e) PROVE AlertsInv'
  <2>1. e.event_type \notin {"alert.sent", "alert.delivered"}
    BY AlertsAssumption DEF AlertEvents
  <2>. QED  BY <1>5, <2>1, HarmlessEvent DEF OtherEvent, sendVars, pollVars
<1>6. CASE Tick
  <2>1. now' \in Nat  BY <1>6 DEF Tick, AlertsInv, SentLasts
  <2>2. UNCHANGED <<log, envelope, sending, deliveries, poll, accepted>>
    BY <1>6 DEF Tick, sendVars, pollVars
  <2>. QED  BY <2>1, <2>2 DEF AlertsInv, Functions, SentLasts, InFlightTrue, DeliveredIsTrue
<1>7. CASE Crash
  <2>1. /\ UNCHANGED <<now, log, envelope, deliveries, accepted>>
        /\ poll' = [p \in Pollers |-> Idle]
        /\ DOMAIN sending' = Messages
        /\ \A m \in Messages : sending'[m] # "unsent" => sending[m] # "unsent"
    BY <1>7 DEF Crash
  <2>2. Functions' /\ InFlightTrue'
    BY <2>1 DEF AlertsInv, Functions, InFlightTrue, Idle, PollState
  <2>3. SentLasts' /\ DeliveredIsTrue'
    BY <2>1 DEF AlertsInv, SentLasts, DeliveredIsTrue
  <2>. QED  BY <2>2, <2>3 DEF AlertsInv
<1>8. CASE UNCHANGED vars
  BY <1>8 DEF vars, sendVars, pollVars, AlertsInv, Functions, SentLasts, InFlightTrue,
              DeliveredIsTrue
<1>. QED  BY <1>1, <1>2, <1>3, <1>4, <1>5, <1>6, <1>7, <1>8 DEF Next

(* The log says a delivery was made only when its channel took it.         *)
THEOREM LogIsTruthful == Spec => []DeliveredIsTrue
<1>1. AlertsInv => DeliveredIsTrue  BY DEF AlertsInv
<1>. QED  BY <1>1, AlertsInvInit, AlertsInvStep, PTL DEF Spec

(* A message that ended is out of the mailbox for ever.                    *)
THEOREM EndedMessagesStayEnded == Spec => EndedForGood
<1> DEFINE Step ==
      \A ref \in ActorRefs :
        Mailbox(ref, log', now') \cap Addressed(ref, log, now) \subseteq Mailbox(ref, log, now)
<1>1. AlertsInv /\ [Next]_vars => Step
  <2> SUFFICES ASSUME AlertsInv, [Next]_vars, NEW ref \in ActorRefs,
                      NEW message \in Mailbox(ref, log', now') \cap Addressed(ref, log, now)
               PROVE  message \in Mailbox(ref, log, now)
    OBVIOUS
  <2>1. now \in Nat  BY DEF AlertsInv, SentLasts
  <2>2. log \subseteq log' /\ now' \in Nat /\ now <= now'  BY <2>1, LogGrows
  <2>3. Lasting(message)  BY DEF Addressed, AlertsInv, SentLasts
  <2>4. ~IsTerminated(message, ref, log', now')  BY DEF Mailbox
  <2>5. ~IsTerminated(message, ref, log, now)  BY <2>1, <2>2, <2>3, <2>4, EndIsFinal
  <2>. QED  BY <2>5 DEF Mailbox
<1>2. AlertsInv /\ [Next]_vars => [Step]_vars  BY <1>1
<1>. QED  BY <1>2, AlertsInvInit, AlertsInvStep, PTL DEF Spec, EndedForGood

-----------------------------------------------------------------------------
(* Replies and acknowledgments.                                            *)

LEMMA RepliesInvInit == Init => RepliesInv
BY DEF Init, RepliesInv, AcksAreReplies, RepliesAreKnown

(* Nothing but an acknowledgment changes what is acknowledged.             *)
LEMMA QuietKeepsAcks ==
  ASSUME AcksAreReplies, NEW type, NEW payload, type # "alert.acknowledged",
         log' = log \cup {Event(type, payload)} \/ UNCHANGED log, UNCHANGED answered
  PROVE  AcksAreReplies'
<1>1. Event(type, payload).event_type = type  BY DEF Event
<1>. QED  BY <1>1 DEF AcksAreReplies

(* The envelopes and the replies stay as they are while a send goes on.    *)
LEMMA QuietKeepsKnown ==
  ASSUME RepliesAreKnown, UNCHANGED <<envelope, answered>>,
         replying' \subseteq replying, faults' \in Nat, DOMAIN sending' = Messages,
         \A m \in Messages : sending'[m] = "unsent" <=> sending[m] = "unsent"
  PROVE  RepliesAreKnown'
BY DEF RepliesAreKnown

LEMMA SendKeepsReplies ==
  ASSUME RepliesInv, NEW m \in Messages,
         \/ SendStep(m) \/ SendRaises(m) \/ WaitEnds(m)
         \/ \E args \in SendArgs : Send(m, args)
  PROVE  RepliesInv'
<1> USE DEF RepliesInv
<1>1. UNCHANGED <<replying, answered>>
  BY DEF SendStep, SendRaises, WaitEnds, Send, Route, Insert, Announce, WarnNoRoute, replyVars
<1>2. faults' \in Nat
  BY DEF SendStep, SendRaises, WaitEnds, Send, Route, Insert, Announce, WarnNoRoute, Emit,
         Fault, NoFault, RepliesAreKnown
<1>3. AcksAreReplies'
  <2>1. \/ UNCHANGED log
        \/ log' = log \cup {Event("alert.sent", envelope[m])}
        \/ log' = log \cup {Event("alert.no_route", [message_id |-> m])}
    BY DEF SendStep, SendRaises, WaitEnds, Send, Route, Insert, Announce, WarnNoRoute, Emit
  <2>. QED  BY <1>1, <2>1, QuietKeepsAcks
<1>4. CASE \E args \in SendArgs : Send(m, args)
  <2> PICK args \in SendArgs : Send(m, args)  BY <1>4
  <2>1. /\ sending[m] = "unsent"
        /\ envelope' = [envelope EXCEPT ![m] = BuildMessage(m, args, now)]
        /\ \/ sending' = [sending EXCEPT ![m] = "routing"]
           \/ sending' = [sending EXCEPT ![m] = "rejected"]
    BY DEF Send, GoTo
  <2>2. BuildMessage(m, args, now).message_id = m  BY DEF BuildMessage
  <2>. QED  BY <1>1, <1>2, <1>3, <2>1, <2>2 DEF RepliesAreKnown
<1>5. CASE SendStep(m) \/ SendRaises(m) \/ WaitEnds(m)
  <2>1. /\ UNCHANGED envelope /\ sending[m] # "unsent"
        /\ \/ UNCHANGED sending
           \/ \E phase : phase # "unsent" /\ sending' = [sending EXCEPT ![m] = phase]
    BY <1>5 DEF SendStep, SendRaises, WaitEnds, Route, Insert, Announce, WarnNoRoute,
                SendMessageReturns, GoTo
  <2>2. /\ DOMAIN sending' = Messages
        /\ \A n \in Messages : sending'[n] = "unsent" <=> sending[n] = "unsent"
    BY <2>1 DEF RepliesAreKnown
  <2>. QED  BY <1>1, <1>2, <1>3, <2>1, <2>2, QuietKeepsKnown
<1>. QED  BY <1>4, <1>5

(* An acknowledgment on the log is that of a reply that is answered.       *)
LEMMA AcknowledgeKeepsReplies ==
  ASSUME RepliesInv, NEW reply \in replying, Acknowledge(reply)
  PROVE  RepliesInv'
<1> USE DEF RepliesInv
<1> DEFINE ack == Event("alert.acknowledged", [message_id |-> reply.message_id,
                                               actor_id |-> reply.ref.id, session_id |-> None])
<1>1. Logs(ack, reply)  BY DEF Logs, Event
<1> HIDE DEF ack
<1>2. /\ answered' = answered \cup {reply}
      /\ \/ log' = log \cup {ack} /\ faults' = faults
         \/ log' = log /\ faults' = faults + 1
  BY DEF Acknowledge, Emit, NoFault, Fault, ack, RepliesAreKnown
<1>3. AcksAreReplies'  BY <1>1, <1>2 DEF AcksAreReplies
<1>4. RepliesAreKnown'
  <2>1. UNCHANGED <<envelope, sending>> /\ replying' \subseteq replying
    BY DEF Acknowledge, sendVars
  <2>2. answered' \subseteq answered \cup {reply} /\ faults' \in Nat
    BY <1>2 DEF RepliesAreKnown
  <2>. QED  BY <2>1, <2>2 DEF RepliesAreKnown
<1>. QED  BY <1>3, <1>4

LEMMA RepliesInvStep == RepliesInv /\ [Next]_vars => RepliesInv'
<1> SUFFICES ASSUME RepliesInv, [Next]_vars PROVE RepliesInv'  OBVIOUS
<1> USE DEF RepliesInv
<1>1. ASSUME NEW m \in Messages,
             \/ SendStep(m) \/ SendRaises(m) \/ WaitEnds(m)
             \/ \E args \in SendArgs : Send(m, args)
      PROVE  RepliesInv'
  BY <1>1, SendKeepsReplies
<1>2. ASSUME NEW m \in Messages, NEW ref \in ActorRefs, HandleReply(m, ref) PROVE RepliesInv'
  <2>1. UNCHANGED answered  BY <1>2 DEF HandleReply
  <2>2. AcksAreReplies'  BY <1>2, <2>1, QuietKeepsAcks DEF HandleReply, Emit
  <2>3. /\ UNCHANGED <<envelope, sending>> /\ envelope[m] # None
        /\ replying' \subseteq replying \cup {[message_id |-> m, ref |-> ref]}
        /\ faults' \in Nat
    BY <1>2 DEF HandleReply, sendVars, Emit, NoFault, Fault, RepliesAreKnown
  <2>4. RepliesAreKnown'  BY <2>1, <2>3 DEF RepliesAreKnown
  <2>. QED  BY <2>2, <2>4
<1>3. ASSUME NEW reply \in replying, Acknowledge(reply) \/ ReplyRaises(reply) PROVE RepliesInv'
  <2>1. CASE Acknowledge(reply)  BY <2>1, AcknowledgeKeepsReplies
  <2>2. CASE ReplyRaises(reply)
    <3>1. UNCHANGED <<envelope, sending, log, answered>> /\ replying' \subseteq replying
      BY <2>2 DEF ReplyRaises, sendVars
    <3>2. faults' \in Nat /\ DOMAIN sending' = Messages
      BY <2>2, <3>1 DEF ReplyRaises, Fault, RepliesAreKnown
    <3>. QED  BY <3>1, <3>2, QuietKeepsKnown DEF AcksAreReplies
  <2>. QED  BY <1>3, <2>1, <2>2
<1>4. ASSUME NEW p \in Pollers, PollStep(p) PROVE RepliesInv'
  <2>0. faults' = faults \/ faults' = faults + 1
    BY <1>4 DEF PollStep, Poll, Mark, EmitOutcome, PollRaises, Deliver, Emit, NoFault, Fault
  <2>1. UNCHANGED <<envelope, sending, replying, answered>>
    BY <1>4 DEF PollStep, Poll, Mark, EmitOutcome, PollRaises, Deliver, sendVars, replyVars
  <2>2. \/ UNCHANGED log
        \/ log' = log \cup {Event("alert.delivered", poll[p].delivery)}
        \/ log' = log \cup {Event("alert.delivery_failed", poll[p].delivery)}
    BY <1>4 DEF PollStep, Poll, Mark, EmitOutcome, PollRaises, Deliver, Emit
  <2>3. AcksAreReplies'  BY <2>1, <2>2, QuietKeepsAcks
  <2>. QED  BY <2>0, <2>1, <2>3, QuietKeepsKnown DEF RepliesAreKnown
<1>5. ASSUME NEW e \in SystemEvents, OtherEvent(e) PROVE RepliesInv'
  <2>1. e.event_type # "alert.acknowledged"  BY AlertsAssumption DEF AlertEvents
  <2>2. AcksAreReplies'  BY <1>5, <2>1, QuietKeepsAcks DEF OtherEvent, replyVars
  <2>3. RepliesAreKnown'
    BY <1>5, QuietKeepsKnown DEF OtherEvent, sendVars, replyVars, NoFault, RepliesAreKnown
  <2>. QED  BY <2>2, <2>3
<1>6. CASE Tick
  BY <1>6 DEF Tick, sendVars, replyVars, NoFault, AcksAreReplies, RepliesAreKnown
<1>7. CASE Crash
  <2>1. UNCHANGED <<envelope, log, answered, faults>> /\ replying' = {}  BY <1>7 DEF Crash
  <2>2. /\ DOMAIN sending' = Messages
        /\ \A m \in Messages : sending'[m] = "unsent" <=> sending[m] = "unsent"
    BY <1>7 DEF Crash
  <2>3. RepliesAreKnown'  BY <2>1, <2>2, QuietKeepsKnown DEF RepliesAreKnown
  <2>. QED  BY <2>1, <2>3 DEF AcksAreReplies
<1>8. CASE UNCHANGED vars
  BY <1>8 DEF vars, sendVars, replyVars, AcksAreReplies, RepliesAreKnown
<1>. QED  BY <1>1, <1>2, <1>3, <1>4, <1>5, <1>6, <1>7, <1>8 DEF Next

LEMMA RepliesAlwaysKnown == Spec => []RepliesInv
BY RepliesInvInit, RepliesInvStep, PTL DEF Spec

(* An actor's acknowledgment takes a message from nobody else.             *)
THEOREM AcksAreScoped == Spec => []AckIsScoped
<1>1. RepliesInv => AckIsScoped
  <2> SUFFICES ASSUME RepliesInv, NEW m \in Messages, NEW ref \in ActorRefs,
                      sending[m] \notin {"unsent", "rejected"}, envelope[m].ack_scope = "actor",
                      envelope[m].termination.condition = "acknowledged",
                      envelope[m] \in Addressed(ref, log, now),
                      \A reply \in answered : reply.message_id = m => reply.ref.id # ref.id
               PROVE  envelope[m] \in Mailbox(ref, log, now)
    BY DEF AckIsScoped
  <2>1. envelope[m].message_id = m  BY DEF RepliesInv, RepliesAreKnown
  <2>2. ASSUME Acknowledged("actor", Acks(log, m), ref) PROVE FALSE
    <3>1. PICK e \in log : /\ e.event_type = "alert.acknowledged"
                           /\ e.payload.message_id = m /\ e.payload.actor_id = ref.id
      BY <2>2 DEF Acknowledged, Acks
    <3>2. PICK reply \in answered : Logs(e, reply)
      BY <3>1 DEF RepliesInv, AcksAreReplies
    <3>. QED  BY <3>1, <3>2 DEF Logs
  <2>3. ~IsTerminated(envelope[m], ref, log, now)  BY <2>1, <2>2 DEF IsTerminated
  <2>. QED  BY <2>3 DEF Mailbox
<1>. QED  BY <1>1, RepliesAlwaysKnown, PTL

-----------------------------------------------------------------------------
(* How often a channel is given a delivery.                                *)

LEMMA PassesInvInit == Init => PassesInv
<1> SUFFICES ASSUME Init PROVE PassesInv  OBVIOUS
<1>1. \A p \in Pollers : poll[p].left = {} /\ poll[p].step = "idle"
  BY DEF Init, Idle, PollState
<1>2. PassesFit  BY <1>1 DEF Init, PassesFit
<1>3. HandedAccounted  BY DEF Init, HandedAccounted
<1>. QED  BY <1>2, <1>3 DEF PassesInv

(* Every poller that has d in hand or before it runs, and none has both.   *)
LEMMA CountsFit ==
  ASSUME PassesFit, NEW d
  PROVE  /\ IsFiniteSet(Taking(d)) /\ IsFiniteSet(Ahead(d))
         /\ Cardinality(Taking(d)) \in Nat /\ Cardinality(Ahead(d)) \in Nat
         /\ Cardinality(budget.pollers) \in Nat
         /\ Cardinality(Taking(d)) + Cardinality(Ahead(d)) <= Cardinality(budget.pollers)
<1>1. IsFiniteSet(budget.pollers)  BY AlertsAssumption DEF PassesFit
<1>2. Taking(d) \subseteq budget.pollers  BY DEF Taking, PassesFit
<1>3. Ahead(d) \subseteq budget.pollers  BY DEF Ahead, PassesFit
<1>4. Taking(d) \cap Ahead(d) = {}  BY DEF Taking, Ahead
<1>5. IsFiniteSet(Taking(d)) /\ IsFiniteSet(Ahead(d))  BY <1>1, <1>2, <1>3, FS_Subset
<1>6. /\ Cardinality(Taking(d)) \in Nat /\ Cardinality(Ahead(d)) \in Nat
      /\ Cardinality(budget.pollers) \in Nat
  BY <1>1, <1>5, FS_CardinalityType
<1>7. Cardinality(Taking(d) \cup Ahead(d)) = Cardinality(Taking(d)) + Cardinality(Ahead(d))
  BY <1>4, <1>5, <1>6, FS_Union, FS_EmptySet
<1>8. Cardinality(Taking(d) \cup Ahead(d)) <= Cardinality(budget.pollers)
  BY <1>1, <1>2, <1>3, FS_Subset
<1>. QED  BY <1>5, <1>6, <1>7, <1>8

(* A step that hands d to nobody and drops no mark of it but by a fault.   *)
LEMMA StaysAccounted ==
  ASSUME PassesInv, PassesFit', NEW d \in DOMAIN deliveries, NEW p,
         deliveries'[d] = deliveries[d], Handed(d)' = Handed(d), Handed(d) \in Nat,
         UNCHANGED <<budget, crashes>>,
         faults' \in {faults, faults + 1},
         deliveries[d] # "pending" => Ahead(d)' \subseteq Ahead(d),
         deliveries[d] = "pending" =>
           \/ faults' = faults /\ Taking(d) \subseteq Taking(d)'
           \/ faults' = faults + 1 /\ Taking(d) \subseteq Taking(d)' \cup {p}
  PROVE  Accounted(d)'
<1>1. Accounted(d)  BY DEF PassesInv, HandedAccounted
<1>2. faults \in Nat /\ crashes \in Nat  BY DEF PassesInv, PassesFit
<1>3. /\ Cardinality(Taking(d)) \in Nat /\ Cardinality(Ahead(d)) \in Nat
      /\ Cardinality(budget.pollers) \in Nat /\ IsFiniteSet(Ahead(d))
  BY CountsFit DEF PassesInv
<1>4. /\ IsFiniteSet(Taking(d)') /\ Cardinality(Taking(d)') \in Nat
      /\ Cardinality(Ahead(d)') \in Nat
  <2>1. IsFiniteSet(budget'.pollers)  BY AlertsAssumption DEF PassesFit
  <2>2. Taking(d)' \subseteq budget'.pollers  BY DEF Taking, PassesFit
  <2>3. Ahead(d)' \subseteq budget'.pollers  BY DEF Ahead, PassesFit
  <2>4. IsFiniteSet(Taking(d)') /\ IsFiniteSet(Ahead(d)')  BY <2>1, <2>2, <2>3, FS_Subset
  <2>. QED  BY <2>4, FS_CardinalityType
<1> DEFINE n == Cardinality(budget.pollers)
           k == n * crashes
<1>5. k \in Int /\ n * (crashes + 1) = k + n  BY <1>2, <1>3
<1>6. CASE deliveries[d] = "pending"
  <2>1. Handed(d) <= Cardinality(Taking(d)) + k + faults  BY <1>1, <1>6 DEF Accounted
  <2>2. Cardinality(Taking(d)) + faults <= Cardinality(Taking(d)') + faults'
    <3>1. CASE faults' = faults /\ Taking(d) \subseteq Taking(d)'
      <4>1. Cardinality(Taking(d)) <= Cardinality(Taking(d)')  BY <3>1, <1>4, FS_Subset
      <4>. QED  BY <4>1, <3>1, <1>2, <1>3, <1>4
    <3>2. CASE faults' = faults + 1 /\ Taking(d) \subseteq Taking(d)' \cup {p}
      <4>1. /\ IsFiniteSet(Taking(d)' \cup {p})
            /\ Cardinality(Taking(d)' \cup {p}) <= Cardinality(Taking(d)') + 1
        BY <1>4, FS_AddElement
      <4>2. Cardinality(Taking(d)' \cup {p}) \in Nat  BY <4>1, FS_CardinalityType
      <4>3. Cardinality(Taking(d)) <= Cardinality(Taking(d)' \cup {p})
        BY <3>2, <4>1, FS_Subset
      <4>. QED  BY <4>1, <4>2, <4>3, <3>2, <1>2, <1>3, <1>4
    <3>. QED  BY <1>6, <3>1, <3>2
  <2>3. faults' \in Nat  BY <1>2
  <2> HIDE DEF k, n
  <2>4. Handed(d)' <= Cardinality(Taking(d)') + k + faults'
    BY <2>1, <2>2, <2>3, <1>2, <1>3, <1>4, <1>5
  <2>. QED  BY <2>4, <1>6 DEF Accounted, k, n
<1>7. CASE deliveries[d] # "pending"
  <2>1. Handed(d) + Cardinality(Ahead(d)) <= k + n + faults  BY <1>1, <1>5, <1>7 DEF Accounted
  <2>2. Cardinality(Ahead(d)') <= Cardinality(Ahead(d))  BY <1>3, <1>7, FS_Subset
  <2>3. faults <= faults' /\ faults' \in Nat  BY <1>2
  <2> HIDE DEF k
  <2>4. Handed(d)' + Cardinality(Ahead(d)') <= k + n + faults'
    BY <2>1, <2>2, <2>3, <1>2, <1>3, <1>4, <1>5
  <2>5. Cardinality(budget.pollers') * (crashes' + 1) = k + n  BY <1>5
  <2>. QED  BY <2>4, <2>5, <1>7 DEF Accounted
<1>. QED  BY <1>6, <1>7

(* What the step of one poller does to the sets of pollers.                *)
LEMMA PollerMoves ==
  ASSUME DOMAIN poll = Pollers, NEW p \in Pollers, NEW record, NEW d,
         poll' = [poll EXCEPT ![p] = record]
  PROVE  /\ Taking(d) \subseteq Taking(d)' \cup {p}
         /\ poll[p].step # "mark" => Taking(d) \subseteq Taking(d)'
         /\ poll[p].step = "mark" /\ poll[p].delivery # d => Taking(d) \subseteq Taking(d)'
         /\ d \notin record.left => Ahead(d)' \subseteq Ahead(d)
         /\ p \in Ahead(d) => Ahead(d)' \subseteq Ahead(d)
         /\ record.step \in {"mark", "emit"} /\ record.delivery = d
              => Ahead(d)' \subseteq Ahead(d) \ {p}
BY DEF Taking, Ahead

(* The poller of the step in question has its pass over known records.     *)
LEMMA FitMoves ==
  ASSUME PassesFit, NEW p \in Pollers, NEW record, poll' = [poll EXCEPT ![p] = record],
         DOMAIN deliveries' = DOMAIN deliveries, UNCHANGED <<budget, crashes>>,
         faults' \in {faults, faults + 1},
         UNCHANGED handed,
         record.left \subseteq DOMAIN deliveries,
         record.left # {} \/ record.step = "mark" => p \in budget.pollers,
         record.step \in {"mark", "emit"} => record.delivery \in DOMAIN deliveries,
         record.step # "mark"
  PROVE  PassesFit'
<1>1. /\ faults' \in Nat /\ crashes' \in Nat /\ budget' \in Budgets /\ DOMAIN poll' = Pollers
      /\ DOMAIN handed' \subseteq DOMAIN deliveries' /\ \A d \in DOMAIN handed' : handed'[d] \in Nat
  BY DEF PassesFit
<1>2. ASSUME NEW q \in Pollers
      PROVE  /\ poll'[q].left \subseteq DOMAIN deliveries'
             /\ poll'[q].left # {} \/ poll'[q].step = "mark" => q \in budget'.pollers
             /\ poll'[q].step \in {"mark", "emit"} => poll'[q].delivery \in DOMAIN deliveries'
             /\ poll'[q].step = "mark" => poll'[q].outcome \in {"delivered", "failed"}
  <2>1. CASE q = p
    <3>1. poll'[q] = record  BY <2>1 DEF PassesFit
    <3>. QED  BY <2>1, <3>1
  <2>2. CASE q # p
    <3>1. poll'[q] = poll[q]  BY <2>2 DEF PassesFit
    <3>. QED  BY <3>1 DEF PassesFit
  <2>. QED  BY <2>1, <2>2
<1>. QED  BY <1>1, <1>2 DEF PassesFit

LEMMA HandedIsNat ==
  ASSUME PassesFit, NEW d
  PROVE  Handed(d) \in Nat
BY DEF PassesFit, Handed

(* A pass starts.                                                          *)
LEMMA PollKeepsPasses ==
  ASSUME PassesInv, NEW p \in Pollers, Poll(p)
  PROVE  PassesInv'
<1> USE DEF PassesInv
<1> DEFINE record == PollState("deliver", Due, None, None)
<1>1. /\ poll' = [poll EXCEPT ![p] = record] /\ poll[p].step = "idle" /\ p \in budget.pollers
      /\ UNCHANGED <<deliveries, handed, budget, crashes, faults>>
  BY DEF Poll, At, NoFault
<1>2. record.left = Due /\ record.step = "deliver"  BY DEF PollState
<1>3. Due \subseteq DOMAIN deliveries /\ \A d \in Due : deliveries[d] = "pending"  BY DEF Due
<1> HIDE DEF record
<1>4. PassesFit'  BY <1>1, <1>2, <1>3, FitMoves
<1>5. ASSUME NEW d \in DOMAIN deliveries PROVE Accounted(d)'
  <2>1. Handed(d)' = Handed(d) /\ Handed(d) \in Nat  BY <1>1, HandedIsNat DEF Handed
  <2>2. Taking(d) \subseteq Taking(d)'  BY <1>1, PollerMoves DEF PassesFit
  <2>3. deliveries[d] # "pending" => Ahead(d)' \subseteq Ahead(d)
    BY <1>1, <1>2, <1>3, PollerMoves DEF PassesFit
  <2>. QED  BY <1>1, <1>4, <2>1, <2>2, <2>3, StaysAccounted
<1>. QED  BY <1>1, <1>4, <1>5 DEF HandedAccounted

(* A channel is given a record: for a pending one a mark is now due, for   *)
(* any other a pass has one record less before it.                         *)
LEMMA DeliverKeepsPasses ==
  ASSUME PassesInv, NEW p \in Pollers, NEW e \in poll[p].left, Deliver(p, e)
  PROVE  PassesInv'
<1> USE DEF PassesInv
<1>1. PICK outcome \in {"delivered", "failed"} :
        poll' = [poll EXCEPT ![p] = PollState("mark", poll[p].left, e, outcome)]
  BY DEF Deliver, At
<1> DEFINE record == PollState("mark", poll[p].left, e, outcome)
<1>2. /\ poll[p].step = "deliver" /\ UNCHANGED <<deliveries, budget, crashes, faults>>
      /\ handed' = [d \in DOMAIN handed \cup {e} |-> IF d = e THEN Handed(e) + 1 ELSE handed[d]]
  BY DEF Deliver, NoFault
<1>3. /\ record.left = poll[p].left /\ record.step = "mark" /\ record.delivery = e
      /\ record.outcome = outcome
  BY DEF PollState
<1>4. poll' = [poll EXCEPT ![p] = record]  BY <1>1
<1> HIDE DEF record
<1>5. e \in DOMAIN deliveries /\ p \in budget.pollers  BY DEF PassesFit
<1>6. Handed(e) \in Nat  BY HandedIsNat
<1>7. PassesFit'
  <2>1. /\ faults' \in Nat /\ crashes' \in Nat /\ budget' \in Budgets /\ DOMAIN poll' = Pollers
        /\ DOMAIN handed' \subseteq DOMAIN deliveries'
        /\ \A d \in DOMAIN handed' : handed'[d] \in Nat
    BY <1>2, <1>4, <1>5, <1>6 DEF PassesFit
  <2>2. ASSUME NEW q \in Pollers
        PROVE  /\ poll'[q].left \subseteq DOMAIN deliveries'
               /\ poll'[q].left # {} \/ poll'[q].step = "mark" => q \in budget'.pollers
               /\ poll'[q].step \in {"mark", "emit"} => poll'[q].delivery \in DOMAIN deliveries'
               /\ poll'[q].step = "mark" => poll'[q].outcome \in {"delivered", "failed"}
    <3>1. CASE q = p
      <4>1. poll'[q] = record  BY <1>4, <3>1 DEF PassesFit
      <4>. QED  BY <1>2, <1>3, <1>5, <3>1, <4>1 DEF PassesFit
    <3>2. CASE q # p
      <4>1. poll'[q] = poll[q]  BY <1>4, <3>2 DEF PassesFit
      <4>. QED  BY <1>2, <4>1 DEF PassesFit
    <3>. QED  BY <3>1, <3>2
  <2>. QED  BY <2>1, <2>2 DEF PassesFit
<1>8. ASSUME NEW d \in DOMAIN deliveries, d # e PROVE Accounted(d)'
  <2>1. Handed(d)' = Handed(d) /\ Handed(d) \in Nat  BY <1>2, <1>8, HandedIsNat DEF Handed
  <2>2. Taking(d) \subseteq Taking(d)'  BY <1>2, <1>4, PollerMoves DEF PassesFit
  <2>3. Ahead(d)' \subseteq Ahead(d)
    <3>1. p \in Ahead(d) \/ d \notin record.left  BY <1>2, <1>3 DEF Ahead
    <3>. QED  BY <3>1, <1>4, PollerMoves DEF PassesFit
  <2>. QED  BY <1>2, <1>7, <2>1, <2>2, <2>3, StaysAccounted
<1>9. Accounted(e)'
  <2> DEFINE n == Cardinality(budget.pollers)
             k == n * crashes
             l == n * (crashes + 1)
  <2>1. Handed(e)' = Handed(e) + 1  BY <1>2 DEF Handed
  <2>2. /\ IsFiniteSet(Taking(e)) /\ IsFiniteSet(Ahead(e))
        /\ Cardinality(Taking(e)) \in Nat /\ Cardinality(Ahead(e)) \in Nat /\ n \in Nat
    BY CountsFit
  <2>3. IsFiniteSet(Taking(e)') /\ IsFiniteSet(Ahead(e)')
    <3>1. IsFiniteSet(budget'.pollers)  BY <1>7, AlertsAssumption DEF PassesFit
    <3>2. Taking(e)' \subseteq budget'.pollers  BY <1>7 DEF Taking, PassesFit
    <3>3. Ahead(e)' \subseteq budget'.pollers  BY <1>7 DEF Ahead, PassesFit
    <3>. QED  BY <3>1, <3>2, <3>3, FS_Subset
  <2>4. Cardinality(Taking(e)') \in Nat /\ Cardinality(Ahead(e)') \in Nat
    BY <2>3, FS_CardinalityType
  <2>5. faults \in Nat /\ k \in Int /\ l \in Int  BY <2>2 DEF PassesFit
  <2>6. Accounted(e)  BY <1>5 DEF HandedAccounted
  <2>7. CASE deliveries[e] = "pending"
    <3>1. Taking(e) \cup {p} \subseteq Taking(e)'
      <4>1. poll'[p].step = "mark" /\ poll'[p].delivery = e  BY <1>3, <1>4 DEF PassesFit
      <4>2. Taking(e) \subseteq Taking(e)'  BY <1>2, <1>4, PollerMoves DEF PassesFit
      <4>. QED  BY <4>1, <4>2 DEF Taking
    <3>2. p \notin Taking(e)  BY <1>2 DEF Taking
    <3>3. /\ IsFiniteSet(Taking(e) \cup {p})
          /\ Cardinality(Taking(e) \cup {p}) = Cardinality(Taking(e)) + 1
      BY <2>2, <3>2, FS_AddElement
    <3>4. Cardinality(Taking(e)) + 1 <= Cardinality(Taking(e)')
      BY <2>3, <3>1, <3>3, FS_Subset
    <3>5. Handed(e) <= Cardinality(Taking(e)) + k + faults  BY <2>6, <2>7 DEF Accounted
    <3>6. (Cardinality(budget.pollers) * crashes)' = k  BY <1>2
    <3> HIDE DEF n, k, l
    <3>7. Handed(e)' <= Cardinality(Taking(e)') + k + faults'
      BY <1>2, <1>6, <2>1, <2>2, <2>4, <2>5, <3>4, <3>5
    <3>. QED  BY <1>2, <2>7, <3>6, <3>7 DEF Accounted
  <2>8. CASE deliveries[e] # "pending"
    <3>1. Ahead(e)' \subseteq Ahead(e) \ {p}  BY <1>3, <1>4, PollerMoves DEF PassesFit
    <3>2. p \in Ahead(e)  BY <1>2 DEF Ahead
    <3>3. /\ IsFiniteSet(Ahead(e) \ {p})
          /\ Cardinality(Ahead(e) \ {p}) = Cardinality(Ahead(e)) - 1
      BY <2>2, <3>2, FS_RemoveElement
    <3>4. Cardinality(Ahead(e)') <= Cardinality(Ahead(e)) - 1
      BY <3>1, <3>3, FS_Subset
    <3>5. Handed(e) + Cardinality(Ahead(e)) <= l + faults  BY <2>6, <2>8 DEF Accounted
    <3>6. (Cardinality(budget.pollers) * (crashes + 1))' = l  BY <1>2
    <3> HIDE DEF n, k, l
    <3>7. Handed(e)' + Cardinality(Ahead(e)') <= l + faults'
      BY <1>2, <1>6, <2>1, <2>2, <2>4, <2>5, <3>4, <3>5
    <3>. QED  BY <1>2, <2>8, <3>6, <3>7 DEF Accounted
  <2>. QED  BY <2>7, <2>8
<1>. QED  BY <1>2, <1>7, <1>8, <1>9 DEF HandedAccounted

(* A pass goes on to its next action, hands nothing over, drops no mark.   *)
LEMMA PassGoesOn ==
  ASSUME PassesInv, NEW p \in Pollers, NEW record, poll' = [poll EXCEPT ![p] = record],
         UNCHANGED <<deliveries, handed, budget, crashes>>,
         record.left \subseteq poll[p].left, record.step \in {"idle", "deliver"},
         poll[p].step \in {"mark", "emit"} => poll[p].delivery \notin record.left,
         \/ faults' = faults + 1
         \/ faults' = faults /\ poll[p].step # "mark"
  PROVE  PassesInv'
<1> USE DEF PassesInv
<1>1. record.left \subseteq DOMAIN deliveries /\ (record.left # {} => p \in budget.pollers)
  BY DEF PassesFit
<1>2. PassesFit'  BY <1>1, FitMoves
<1>3. ASSUME NEW d \in DOMAIN deliveries PROVE Accounted(d)'
  <2>1. Handed(d)' = Handed(d) /\ Handed(d) \in Nat  BY HandedIsNat DEF Handed
  <2>2. Ahead(d)' \subseteq Ahead(d)
    <3>1. p \in Ahead(d) \/ d \notin record.left  BY DEF Ahead
    <3>. QED  BY <3>1, PollerMoves DEF PassesFit
  <2>3. \/ faults' = faults /\ Taking(d) \subseteq Taking(d)'
        \/ faults' = faults + 1 /\ Taking(d) \subseteq Taking(d)' \cup {p}
    BY PollerMoves DEF PassesFit
  <2>. QED  BY <1>2, <2>1, <2>2, <2>3, StaysAccounted
<1>. QED  BY <1>2, <1>3 DEF HandedAccounted

(* A mark that is lost is a fault; one that is made leaves the record only *)
(* to the passes that still have it before them.                           *)
LEMMA MarkKeepsPasses ==
  ASSUME PassesInv, NEW p \in Pollers, Mark(p)
  PROVE  PassesInv'
<1> USE DEF PassesInv
<1> PICK e : e = poll[p].delivery  OBVIOUS
<1> DEFINE record == PollState("emit", poll[p].left, e, poll[p].outcome)
<1>1. /\ poll[p].step = "mark" /\ poll' = [poll EXCEPT ![p] = record]
      /\ UNCHANGED <<handed, budget, crashes>>
      /\ \/ deliveries' = [deliveries EXCEPT ![e] = poll[p].outcome] /\ faults' = faults
         \/ UNCHANGED deliveries /\ faults' = faults + 1
      /\ faults \in Nat
  BY DEF Mark, At, NoFault, Fault, PassesFit
<1>2. record.left = poll[p].left /\ record.step = "emit" /\ record.delivery = e
  BY DEF PollState
<1>3. e \in DOMAIN deliveries /\ poll[p].outcome \in {"delivered", "failed"}
  BY <1>1 DEF PassesFit
<1> HIDE DEF record
<1>4. PassesFit'
  <2>1. DOMAIN deliveries' = DOMAIN deliveries /\ faults' \in {faults, faults + 1}  BY <1>1
  <2>2. record.left \subseteq DOMAIN deliveries /\ (record.left # {} => p \in budget.pollers)
    BY <1>2 DEF PassesFit
  <2>. QED  BY <1>1, <1>2, <1>3, <2>1, <2>2, FitMoves
<1>5. ASSUME NEW d \in DOMAIN deliveries
      PROVE  /\ Handed(d)' = Handed(d) /\ Handed(d) \in Nat /\ Ahead(d)' \subseteq Ahead(d)
             /\ d # e => Taking(d) \subseteq Taking(d)'
             /\ Taking(d) \subseteq Taking(d)' \cup {p}
  <2>1. Handed(d)' = Handed(d) /\ Handed(d) \in Nat  BY <1>1, HandedIsNat DEF Handed
  <2>2. Ahead(d)' \subseteq Ahead(d)  BY <1>1, <1>2 DEF Ahead, PassesFit
  <2>. QED  BY <1>1, <2>1, <2>2, PollerMoves DEF PassesFit
<1>6. ASSUME NEW d \in DOMAIN deliveries, d # e \/ faults' = faults + 1 PROVE Accounted(d)'
  <2>1. deliveries'[d] = deliveries[d]  BY <1>1, <1>6
  <2>2. \/ faults' = faults /\ Taking(d) \subseteq Taking(d)'
        \/ faults' = faults + 1 /\ Taking(d) \subseteq Taking(d)' \cup {p}
    BY <1>1, <1>5, <1>6
  <2>. QED  BY <1>1, <1>4, <1>5, <2>1, <2>2, StaysAccounted
<1>7. ASSUME deliveries' = [deliveries EXCEPT ![e] = poll[p].outcome], faults' = faults
      PROVE  Accounted(e)'
  <2> DEFINE n == Cardinality(budget.pollers)
             k == n * crashes
             l == n * (crashes + 1)
  <2>1. deliveries'[e] # "pending"  BY <1>3, <1>7
  <2>2. /\ IsFiniteSet(Ahead(e)) /\ Cardinality(Ahead(e)) \in Nat /\ n \in Nat
        /\ Cardinality(Taking(e)) \in Nat
        /\ Cardinality(Taking(e)) + Cardinality(Ahead(e)) <= n
    BY CountsFit
  <2>3. Accounted(e) /\ faults \in Nat /\ crashes \in Nat  BY <1>3 DEF HandedAccounted, PassesFit
  <2>4. k \in Int /\ l = k + n  BY <2>2, <2>3
  <2>5. Handed(e) + Cardinality(Ahead(e)) <= l + faults
    <3>1. \/ Handed(e) <= Cardinality(Taking(e)) + k + faults
          \/ Handed(e) + Cardinality(Ahead(e)) <= l + faults
      BY <2>3 DEF Accounted
    <3>2. Handed(e) \in Nat  BY <1>3, <1>5
    <3> HIDE DEF n, k, l
    <3>. QED  BY <2>2, <2>3, <2>4, <3>1, <3>2
  <2>6. /\ IsFiniteSet(Ahead(e)') /\ Cardinality(Ahead(e)') <= Cardinality(Ahead(e))
        /\ Handed(e)' = Handed(e) /\ Handed(e) \in Nat
    <3>1. Ahead(e)' \subseteq Ahead(e) /\ Handed(e)' = Handed(e) /\ Handed(e) \in Nat
      BY <1>3, <1>5
    <3>. QED  BY <2>2, <3>1, FS_Subset
  <2>7. Cardinality(Ahead(e)') \in Nat  BY <2>6, FS_CardinalityType
  <2>8. (Cardinality(budget.pollers) * (crashes + 1))' = l  BY <1>1
  <2> HIDE DEF n, k, l
  <2>9. Handed(e)' + Cardinality(Ahead(e)') <= l + faults'
    BY <1>7, <2>2, <2>3, <2>4, <2>5, <2>6, <2>7
  <2>. QED  BY <2>1, <2>8, <2>9 DEF Accounted
<1>. QED  BY <1>1, <1>4, <1>6, <1>7 DEF HandedAccounted

(* A crash ends what is in flight.                                         *)
LEMMA CrashKeepsPasses ==
  ASSUME PassesInv, Crash
  PROVE  PassesInv'
<1> USE DEF PassesInv
<1>1. /\ crashes' = crashes + 1 /\ UNCHANGED <<deliveries, handed, faults, budget>>
      /\ poll' = [p \in Pollers |-> Idle]
  BY DEF Crash
<1>2. \A p \in Pollers : poll'[p].left = {} /\ poll'[p].step = "idle"
  BY <1>1 DEF Idle, PollState
<1>3. PassesFit'  BY <1>1, <1>2 DEF PassesFit
<1>4. ASSUME NEW d \in DOMAIN deliveries PROVE Accounted(d)'
  <2> DEFINE n == Cardinality(budget.pollers)
             k == n * crashes
  <2>1. Taking(d)' = {} /\ Ahead(d)' = {}  BY <1>2 DEF Taking, Ahead
  <2>2. Cardinality(Taking(d)') = 0 /\ Cardinality(Ahead(d)') = 0  BY <2>1, FS_EmptySet
  <2>3. /\ Cardinality(Ahead(d)) \in Nat /\ n \in Nat /\ Cardinality(Taking(d)) \in Nat
        /\ Cardinality(Taking(d)) + Cardinality(Ahead(d)) <= n
    BY CountsFit
  <2>4. Accounted(d) /\ faults \in Nat /\ crashes \in Nat  BY DEF HandedAccounted, PassesFit
  <2>5. /\ k \in Int /\ n * (crashes + 1) = k + n
        /\ n * (crashes' + 1) = k + n + n /\ n * crashes' = k + n
    BY <1>1, <2>3, <2>4
  <2>6. Handed(d)' = Handed(d) /\ Handed(d) \in Nat  BY <1>1, HandedIsNat DEF Handed
  <2>7. Handed(d) <= k + n + faults
    <3>1. \/ Handed(d) <= Cardinality(Taking(d)) + k + faults
          \/ Handed(d) + Cardinality(Ahead(d)) <= k + n + faults
      BY <2>4, <2>5 DEF Accounted
    <3> HIDE DEF n, k
    <3>. QED  BY <2>3, <2>4, <2>5, <2>6, <3>1
  <2>8. /\ (Cardinality(budget.pollers) * crashes)' = k + n
        /\ (Cardinality(budget.pollers) * (crashes + 1))' = k + n + n
    BY <1>1, <2>5
  <2> HIDE DEF n, k
  <2>9. /\ Handed(d)' <= Cardinality(Taking(d)') + (k + n) + faults'
        /\ Handed(d)' + Cardinality(Ahead(d)') <= (k + n + n) + faults'
    BY <1>1, <2>2, <2>3, <2>4, <2>5, <2>6, <2>7
  <2>. QED  BY <2>8, <2>9 DEF Accounted
<1>. QED  BY <1>1, <1>3, <1>4 DEF HandedAccounted

(* A record is added, or nothing of the passes changes.                    *)
LEMMA QuietKeepsPasses ==
  ASSUME PassesInv, UNCHANGED <<poll, handed, budget, crashes>>,
         faults' \in {faults, faults + 1}, DOMAIN deliveries \subseteq DOMAIN deliveries',
         \A d \in DOMAIN deliveries : deliveries'[d] = deliveries[d],
         \A d \in DOMAIN deliveries' \ DOMAIN deliveries : deliveries'[d] = "pending"
  PROVE  PassesInv'
<1> USE DEF PassesInv
<1>1. PassesFit'  BY DEF PassesFit
<1>2. \A d : Taking(d)' = Taking(d) /\ Ahead(d)' = Ahead(d) /\ Handed(d)' = Handed(d)
  BY DEF Taking, Ahead, Handed
<1>3. ASSUME NEW d \in DOMAIN deliveries PROVE Accounted(d)'
  <2>1. Handed(d) \in Nat  BY HandedIsNat
  <2>2. /\ Taking(d) \subseteq Taking(d)' \cup {None} /\ Taking(d) \subseteq Taking(d)'
        /\ Ahead(d)' \subseteq Ahead(d) /\ Handed(d)' = Handed(d)
    BY <1>2
  <2>. QED  BY <1>1, <2>1, <2>2, StaysAccounted
<1>4. ASSUME NEW d \in DOMAIN deliveries' \ DOMAIN deliveries PROVE Accounted(d)'
  <2>1. Handed(d)' = 0  BY <1>4 DEF PassesFit, Handed
  <2>2. /\ Cardinality(Taking(d)) \in Nat /\ Cardinality(budget.pollers) \in Nat
        /\ faults \in Nat /\ crashes \in Nat
    BY CountsFit DEF PassesFit
  <2>3. Cardinality(Taking(d)') \in Nat  BY <1>2, <2>2
  <2>4. (Cardinality(budget.pollers) * crashes)' \in Nat /\ faults' \in Nat  BY <2>2
  <2>5. Handed(d)' <= Cardinality(Taking(d)') + (Cardinality(budget.pollers) * crashes)' + faults'
    BY <2>1, <2>3, <2>4
  <2>. QED  BY <1>4, <2>5 DEF Accounted
<1>. QED  BY <1>1, <1>3, <1>4 DEF HandedAccounted

LEMMA PassesInvStep == PassesInv /\ [Next]_vars => PassesInv'
<1> SUFFICES ASSUME PassesInv, [Next]_vars PROVE PassesInv'  OBVIOUS
<1>1. ASSUME NEW m \in Messages,
             \/ SendStep(m) \/ SendRaises(m) \/ WaitEnds(m)
             \/ \E args \in SendArgs : Send(m, args)
             \/ \E ref \in ActorRefs : HandleReply(m, ref)
      PROVE  PassesInv'
  <2>1. CASE Insert(m)
    <3>1. UNCHANGED <<poll, handed, budget, crashes>> /\ faults' \in {faults, faults + 1}
      BY <2>1 DEF Insert, Fault, NoFault
    <3>2. \/ UNCHANGED deliveries
          \/ deliveries' = [d \in DOMAIN deliveries \cup {Head(plan[m])} |->
                              IF d \in DOMAIN deliveries THEN deliveries[d] ELSE "pending"]
      BY <2>1 DEF Insert
    <3>3. /\ DOMAIN deliveries \subseteq DOMAIN deliveries'
          /\ \A d \in DOMAIN deliveries : deliveries'[d] = deliveries[d]
          /\ \A d \in DOMAIN deliveries' \ DOMAIN deliveries : deliveries'[d] = "pending"
      BY <3>2
    <3>. QED  BY <3>1, <3>3, QuietKeepsPasses
  <2>2. CASE \/ Route(m) \/ Announce(m) \/ WarnNoRoute(m) \/ SendRaises(m) \/ WaitEnds(m)
             \/ \E args \in SendArgs : Send(m, args)
             \/ \E ref \in ActorRefs : HandleReply(m, ref)
    <3>1. UNCHANGED <<deliveries, poll, handed>>
      BY <2>2 DEF Route, Announce, WarnNoRoute, SendRaises, WaitEnds, Send, HandleReply, pollVars
    <3>2. UNCHANGED <<budget, crashes>> /\ faults' \in {faults, faults + 1}
      BY <2>2 DEF Route, Announce, WarnNoRoute, SendRaises, WaitEnds, Send, HandleReply, Emit,
                  Fault, NoFault
    <3>. QED  BY <3>1, <3>2, QuietKeepsPasses
  <2>. QED  BY <1>1, <2>1, <2>2 DEF SendStep
<1>2. ASSUME NEW reply \in replying, Acknowledge(reply) \/ ReplyRaises(reply) PROVE PassesInv'
  BY <1>2, QuietKeepsPasses DEF Acknowledge, ReplyRaises, pollVars, Emit, Fault, NoFault
<1>3. ASSUME NEW p \in Pollers, EmitOutcome(p) PROVE PassesInv'
  <2> DEFINE rest == poll[p].left \ {poll[p].delivery}
             record == IF rest = {} THEN Idle ELSE PollState("deliver", rest, None, None)
  <2>1. /\ poll' = [poll EXCEPT ![p] = record] /\ poll[p].step = "emit"
        /\ UNCHANGED <<deliveries, handed, budget, crashes>> /\ faults' \in {faults, faults + 1}
    BY <1>3 DEF EmitOutcome, At, Emit, Fault, NoFault
  <2>2. record.left \subseteq rest /\ record.step \in {"idle", "deliver"}
    BY DEF Idle, PollState
  <2> HIDE DEF record
  <2>. QED  BY <2>1, <2>2, PassGoesOn
<1>4. ASSUME NEW p \in Pollers, PollRaises(p) PROVE PassesInv'
  <2>1. /\ poll' = [poll EXCEPT ![p] = Idle] /\ faults' = faults + 1
        /\ UNCHANGED <<deliveries, handed, budget, crashes>>
    BY <1>4 DEF PollRaises, At, Fault
  <2>2. Idle.left = {} /\ Idle.step = "idle"  BY DEF Idle, PollState
  <2>. QED  BY <2>1, <2>2, PassGoesOn
<1>5. ASSUME NEW p \in Pollers, Poll(p) \/ Mark(p) \/ \E d \in poll[p].left : Deliver(p, d)
      PROVE  PassesInv'
  BY <1>5, PollKeepsPasses, MarkKeepsPasses, DeliverKeepsPasses
<1>6. ASSUME NEW e \in SystemEvents, OtherEvent(e) PROVE PassesInv'
  BY <1>6, QuietKeepsPasses DEF OtherEvent, pollVars, NoFault
<1>7. CASE Tick  BY <1>7, QuietKeepsPasses DEF Tick, pollVars, NoFault
<1>8. CASE Crash  BY <1>8, CrashKeepsPasses
<1>9. CASE UNCHANGED vars  BY <1>9, QuietKeepsPasses DEF vars, pollVars
<1>. QED  BY <1>1, <1>2, <1>3, <1>4, <1>5, <1>6, <1>7, <1>8, <1>9 DEF Next, PollStep

(* A channel is given a delivery once, and again only for an overlapping   *)
(* pass, a failed call or a crash.                                         *)
THEOREM DuplicatesAreBounded == Spec => []DuplicatesBounded
<1>1. PassesInv => DuplicatesBounded
  <2> SUFFICES ASSUME PassesInv, NEW d \in DOMAIN handed
               PROVE  handed[d] <= Cardinality(budget.pollers) * (crashes + 1) + faults
    BY DEF DuplicatesBounded
  <2> DEFINE n == Cardinality(budget.pollers)
             k == n * crashes
  <2>1. /\ d \in DOMAIN deliveries /\ handed[d] \in Nat /\ Handed(d) = handed[d]
        /\ faults \in Nat /\ crashes \in Nat
    BY DEF PassesInv, PassesFit, Handed
  <2>2. /\ n \in Nat /\ Cardinality(Taking(d)) \in Nat /\ Cardinality(Ahead(d)) \in Nat
        /\ Cardinality(Taking(d)) + Cardinality(Ahead(d)) <= n
    BY CountsFit DEF PassesInv
  <2>3. k \in Int /\ n * (crashes + 1) = k + n  BY <2>1, <2>2
  <2>4. \/ handed[d] <= Cardinality(Taking(d)) + k + faults
        \/ handed[d] + Cardinality(Ahead(d)) <= k + n + faults
    BY <2>1, <2>3 DEF PassesInv, HandedAccounted, Accounted
  <2> HIDE DEF n, k
  <2>5. handed[d] <= (k + n) + faults  BY <2>1, <2>2, <2>3, <2>4
  <2>. QED  BY <2>3, <2>5 DEF n
<1>. QED  BY <1>1, PassesInvInit, PassesInvStep, PTL DEF Spec
=============================================================================
