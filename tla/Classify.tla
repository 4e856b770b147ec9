-------------------------------- MODULE Classify --------------------------------
(***************************************************************************)
(* What honest-type makes of the tokens of a request: vocabulary           *)
(* construction (vocabulary.py), the two passes of classify (classify.py)  *)
(* and the decision to go on with what was rejected (boundary.py).         *)
(*                                                                         *)
(* A vocabulary is [types, recognizer, composed]: its type names in their  *)
(* order, for each one [kind, accepts, throws], the tokens it accepts and  *)
(* those its predicate throws on, and its composed types                   *)
(* [name, requires, captures, optional].  A binding gives type names       *)
(* [slot, optional]; optional is maybe().  A rejection is its reason, and  *)
(* every fault a server's: tokens and messages are left out, as are        *)
(* insensitive sets and the sampling for predicates that accept anything.  *)
(***************************************************************************)
EXTENDS Integers, Sequences, FiniteSets, SequencesExt

CONSTANTS
  Nothing,    \* Python's None: no token, and the value of an unmatched maybe slot
  NotText,    \* a token that is no string
  Empty,      \* the token ""
  Reserved    \* the tokens that are reserved words

Accepts(vocab, type, token) == token \in vocab.recognizer[type].accepts
Throws(vocab, type, token) == token \in vocab.recognizer[type].throws
IsPredicate(vocab, type) == vocab.recognizer[type].kind = "predicate"

-----------------------------------------------------------------------------
(* What vocabulary() refuses: reserved or shared members of sets, unknown  *)
(* base types, composed types that would capture one token.                *)
CapturesConflict(a, b) ==
  LET pairs(c) == {<<q, c.requires[q]>> : q \in DOMAIN c.requires}
  IN  a.captures = b.captures /\ (pairs(a) \subseteq pairs(b) \/ pairs(b) \subseteq pairs(a))

ValidVocabulary(vocab) ==
  LET names == Range(vocab.types)
      sets == {t \in names : ~IsPredicate(vocab, t)}
      members(t) == vocab.recognizer[t].accepts
  IN  /\ names # {}
      /\ \A t \in sets : members(t) \cap Reserved = {}
      /\ \A t, u \in sets : t # u => members(t) \cap members(u) = {}
      /\ \A i \in DOMAIN vocab.composed :
           DOMAIN vocab.composed[i].requires \cup {vocab.composed[i].captures} \subseteq names
      /\ \A i, j \in DOMAIN vocab.composed :
           i < j => ~CapturesConflict(vocab.composed[i], vocab.composed[j])

-----------------------------------------------------------------------------
(* _classify_token: the loop over the types stops at the first one whose   *)
(* predicate throws, whose predicate matches a reserved word, or that is   *)
(* the second to match.                                                    *)
Stops(token, vocab, i) ==
  \/ Throws(vocab, vocab.types[i], token)
  \/ /\ Accepts(vocab, vocab.types[i], token)
     /\ \/ IsPredicate(vocab, vocab.types[i]) /\ token \in Reserved
        \/ \E j \in 1..(i - 1) : Accepts(vocab, vocab.types[j], token)

Ticket(type, token) == [result |-> "ticket", type |-> type, value |-> token]
Rejection(reason) == [result |-> "rejection", reason |-> reason]
Fault == [result |-> "fault"]

ClassifyToken(token, vocab) ==
  LET matches == {i \in DOMAIN vocab.types : Accepts(vocab, vocab.types[i], token)}
      stops == {i \in DOMAIN vocab.types : Stops(token, vocab, i)}
      first == CHOOSE i \in stops : \A j \in stops : i <= j
      reserved == /\ ~Throws(vocab, vocab.types[first], token)
                  /\ IsPredicate(vocab, vocab.types[first]) /\ token \in Reserved
  IN  CASE token = Nothing -> Rejection("null_token")
        [] token = NotText -> Fault
        [] token = Empty -> Rejection("empty_token")
        [] OTHER ->
             IF stops # {} THEN (IF reserved THEN Rejection("reserved_word") ELSE Fault)
             ELSE IF matches = {} THEN Rejection("unrecognized")
             ELSE Ticket(vocab.types[CHOOSE i \in matches : TRUE], token)

-----------------------------------------------------------------------------
(* ticket_index_by_type: the last ticket of a type, 0 if it has none.      *)
TicketIndex(tickets, type) ==
  Max({0} \cup {i \in DOMAIN tickets : tickets[i].type = type})

(* Mutant: in one pass, only what came before the token to be captured.    *)
RequirementsSeen(comp, tickets) ==
  \A q \in DOMAIN comp.requires :
    /\ TicketIndex(tickets, q) # 0
    /\ tickets[TicketIndex(tickets, q)].value = comp.requires[q]
    /\ \/ TicketIndex(tickets, comp.captures) = 0
       \/ TicketIndex(tickets, q) < TicketIndex(tickets, comp.captures)

RequirementsMet(comp, tickets) ==
  \A q \in DOMAIN comp.requires :
    /\ TicketIndex(tickets, q) # 0
    /\ tickets[TicketIndex(tickets, q)].value = comp.requires[q]

(* Phase 2a: the composed types that match, those among them that fill     *)
(* their slot (the last one wins), the tickets and types they capture.     *)
Fired(tickets, vocab, bind) ==
  {c \in DOMAIN vocab.composed :
     vocab.composed[c].name \in DOMAIN bind /\ RequirementsMet(vocab.composed[c], tickets)}
CaptureIndex(c, tickets, vocab) == TicketIndex(tickets, vocab.composed[c].captures)
Filling(tickets, vocab, bind) ==
  {c \in Fired(tickets, vocab, bind) :
     CaptureIndex(c, tickets, vocab) # 0 \/ vocab.composed[c].optional}
Captured(tickets, vocab, bind) ==
  {CaptureIndex(c, tickets, vocab) : c \in Fired(tickets, vocab, bind)} \ {0}
ClaimedTypes(tickets, vocab, bind) ==
  {vocab.composed[c].captures : c \in Filling(tickets, vocab, bind)}

ComposedSlots(tickets, vocab, bind) ==
  LET filling == Filling(tickets, vocab, bind)
      slot(c) == bind[vocab.composed[c].name].slot
      capture(c) == CaptureIndex(c, tickets, vocab)
      filler(s) == Max({c \in filling : slot(c) = s})
  IN  [s \in {slot(c) : c \in filling} |->
         IF capture(filler(s)) = 0 THEN Nothing ELSE tickets[capture(filler(s))].value]

(* Phase 2b: where a ticket ends up: in the composed slot that captured    *)
(* it, in the slot of its type, or rejected.                               *)
Placement(i, tickets, taken, captured, bind) ==
  LET free == (DOMAIN tickets) \ captured
      bound(j) == tickets[j].type \in DOMAIN bind
      slot(j) == bind[tickets[j].type].slot
  IN  IF i \in captured THEN "captured"
      ELSE IF ~bound(i) THEN "unbound_type"
      ELSE IF slot(i) \in taken \/ \E j \in free : j < i /\ bound(j) /\ slot(j) = slot(i)
        THEN "duplicate_slot"
      ELSE "bound"

ResolveBindings(tickets, rejections, vocab, bind) ==
  LET composed == ComposedSlots(tickets, vocab, bind)
      place == [i \in DOMAIN tickets |->
                  Placement(i, tickets, DOMAIN composed, Captured(tickets, vocab, bind), bind)]
      bound == {i \in DOMAIN tickets : place[i] = "bound"}
      slot(i) == bind[tickets[i].type].slot
      base == [s \in {slot(i) : i \in bound} |->
                 tickets[CHOOSE i \in bound : slot(i) = s].value]
      unmatched == [s \in {bind[t].slot : t \in {u \in DOMAIN bind : bind[u].optional}} |-> Nothing]
      manifest == composed @@ base @@ unmatched
      exempt == ClaimedTypes(tickets, vocab, bind)
                  \cup {vocab.composed[c].name : c \in DOMAIN vocab.composed}
      missing == {t \in (DOMAIN bind) \ exempt :
                    /\ ~bind[t].optional /\ bind[t].slot \notin DOMAIN manifest
                    /\ TicketIndex(tickets, t) = 0}
  IN  [manifest |-> manifest,
       rejections |-> rejections
         \o SelectSeq(place, LAMBDA p : p \in {"unbound_type", "duplicate_slot"})
         \o [i \in 1..Cardinality(missing) |-> "missing_required"]]

(* None in place of the manifest and the rejections is a fault.            *)
ClassifyTokens(tokens, vocab, bind) ==
  LET results == [i \in DOMAIN tokens |-> ClassifyToken(tokens[i], vocab)]
      rejected == SelectSeq(results, LAMBDA r : r.result = "rejection")
  IN  IF \E i \in DOMAIN results : results[i].result = "fault" THEN Fault
      ELSE ResolveBindings(SelectSeq(results, LAMBDA r : r.result = "ticket"),
                           [i \in DOMAIN rejected |-> rejected[i].reason], vocab, bind)

(* auto_binding *)
AutoBinding(vocab) ==
  [t \in Range(vocab.types) \cup {vocab.composed[c].name : c \in DOMAIN vocab.composed} |->
     [slot |-> t, optional |-> FALSE]]

-----------------------------------------------------------------------------
(* check_rejections *)
(* Mutant: what is said twice is taken as it was said first.               *)
WarnsOfDuplicates(reason) == reason \in {"empty_token", "null_token", "duplicate_slot"}
Warns(reason) == reason \in {"empty_token", "null_token"}
RejectionCategory(reason) ==
  IF reason \in {"unbound_type", "reserved_word"} THEN "server" ELSE "client"
CheckRejections(rejections) == SelectSeq(rejections, LAMBDA r : ~Warns(r))
=============================================================================
