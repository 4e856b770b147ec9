------------------------------- MODULE MCAlerts -------------------------------
(***************************************************************************)
(* Instances of Alerts for TLC: two users, one of them in two sessions; a  *)
(* route per channel, a route to another recipient, a type without route.  *)
(***************************************************************************)
EXTENDS Alerts

CONSTANTS ann, bob, s1, s2, acme, m1, m2, p1, p2

User(id, session) == [type |-> "user", id |-> id, tenant_id |-> acme, session_id |-> session]
Everyone == [type |-> "user", id |-> None, tenant_id |-> None]
OnlyAnn == [type |-> "user", id |-> ann, tenant_id |-> acme]

MCActorRefs == {User(ann, s1), User(ann, s2), User(bob, s1)}

Channel(name, delay, to) == [channel |-> name, delay_seconds |-> delay, recipient_spec |-> to]
MCRoutingTable ==
  << [route_id |-> "late", message_types |-> {"approval.requested"}, sender_type |-> None,
      priority |-> 2, channels |-> << Channel("email", 1, None) >>],
     [route_id |-> "dom", message_types |-> {"approval.requested", "approval.done"},
      sender_type |-> "framework", priority |-> 1,
      channels |-> << Channel("dom", 0, Everyone) >>] >>

Args(type, to, termination, surface, scope, wait) ==
  [message_type |-> type, sender |-> "framework", recipient |-> to, termination |-> termination,
   dom_surface |-> surface, ack_scope |-> scope, reply_required |-> wait]

Ttl(n) == [condition |-> "ttl", ttl_seconds |-> n]
UntilDone == [condition |-> "event", event_type |-> "maintenance_completed",
              event_filter |-> [area |-> "billing"]]
Forever == [condition |-> "never"]

MCSystemEvents ==
  {[event_type |-> "maintenance_completed", payload |-> [area |-> area, by |-> "ops"]] :
     area \in {"billing", "search"}}

MCSendArgs ==
  {Args("approval.requested", Everyone, None, "modal", "actor", FALSE),
   Args("approval.done", Everyone, None, "modal", "broadcast", TRUE),
   Args("approval.requested", OnlyAnn, Ttl(1), "banner", "actor", TRUE),
   Args("approval.done", Everyone, UntilDone, "banner", "actor", FALSE),
   Args("approval.done", Everyone, None, None, "actor", FALSE),
   Args("unknown", Everyone, Ttl(1), None, "actor", TRUE)}

MCMessages == {m1, m2}
MCPollers == {p1, p2}

Bounds(ms, ps, t, e, r, f, c) ==
  [messages |-> ms, pollers |-> ps, time |-> t,
   events |-> e, replies |-> r, faults |-> f, crashes |-> c]

(* Two messages and nobody delivering; one message and overlapping passes. *)
MCBudgets ==
  {Bounds({m1, m2}, {}, 1, 0, 1, 0, 0),
   Bounds({m1}, {}, 2, 1, 2, 0, 0),
   Bounds({m1}, {}, 1, 0, 1, 1, 1),
   Bounds({m1}, {p1}, 1, 0, 0, 1, 1),
   Bounds({m1}, {p1, p2}, 1, 0, 0, 0, 0)}
=============================================================================
