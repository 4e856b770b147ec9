--------------------------------- MODULE Request ---------------------------------
(***************************************************************************)
(* Requests that go through a boundary of honest-type: classify, then      *)
(* check_rejections, then a chain of links (chains.py), under              *)
(* catch_at_boundary (boundary.py); what they raise is reported through    *)
(* the throttle of honest-errors, as are the failures of pages.            *)
(*                                                                         *)
(* External: the handler that puts the calls in this order, the links, the *)
(* pages, the table of outputs (its defaults per category are modelled).   *)
(***************************************************************************)
EXTENDS Classify, Throttle

CONSTANTS
  Requests,   \* workers, each with one request at a time
  Pages,      \* pages that report their own failures
  Budgets,    \* bounds by name: [endpoints, texts, requests, failures], what may be
              \* asked and how often, and the failures of links and pages; an
              \* endpoint is [vocab, bind], a text the tokens of a request
  Chain       \* the links: 1 for a link, n > 1 for validate_all of n

ASSUME RequestAssumption ==
  /\ Reporters = Requests \cup Pages
  /\ \A b \in DOMAIN Budgets : \A e \in Budgets[b].endpoints : ValidVocabulary(e.vocab)

VARIABLES
  input,      \* of each request, None before there is one
  manifest,   \* the manifest the chain is given, None when it is not run
  link,       \* the links that are done
  answer,     \* the output of the boundary, None before there is one
  budget, asked, failed   \* bookkeeping: the bounds, the requests and the failures so far

requestVars == <<input, manifest, link, answer, budget, asked, failed>>
vars == <<throttleVars, requestVars>>

Init ==
  /\ ThrottleInit
  /\ input = [r \in Requests |-> None]
  /\ manifest = [r \in Requests |-> None]
  /\ link = [r \in Requests |-> 0]
  /\ answer = [r \in Requests |-> None]
  /\ budget \in DOMAIN Budgets /\ asked = 0 /\ failed = 0

-----------------------------------------------------------------------------
(* catch_at_boundary once the handler returned: by the fault's category,   *)
(* and one that is neither the client's nor the server's is the server's.  *)
Output(category) == IF category = "client" THEN "client" ELSE "server"

Answer(r, output) ==
  /\ answer' = [answer EXCEPT ![r] = output]
  /\ input' = [input EXCEPT ![r] = None]
  /\ manifest' = [manifest EXCEPT ![r] = None]
  /\ link' = [link EXCEPT ![r] = 0]

(* The handler classifies and decides whether the chain runs.              *)
Refuse(r, category) ==
  /\ answer' = [answer EXCEPT ![r] = Output(category)]
  /\ UNCHANGED <<input, manifest, link>>

Handle(r, e, tokens) ==
  LET classified == ClassifyTokens(tokens, e.vocab, e.bind)
      blocking == CheckRejections(classified.rejections)
  IN  IF classified = Fault THEN Refuse(r, "server")
      ELSE IF blocking # << >> THEN Refuse(r, RejectionCategory(Head(blocking)))
      ELSE /\ input' = [input EXCEPT ![r] = [tokens |-> tokens, vocab |-> e.vocab, bind |-> e.bind]]
           /\ manifest' = [manifest EXCEPT ![r] = classified.manifest]
           /\ answer' = [answer EXCEPT ![r] = None]
           /\ UNCHANGED link

Receive(r) ==
  /\ input[r] = None /\ report[r] = None
  /\ asked < Budgets[budget].requests /\ asked' = asked + 1
  /\ \E e \in Budgets[budget].endpoints, tokens \in Budgets[budget].texts : Handle(r, e, tokens)
  /\ UNCHANGED <<throttleVars, budget, failed>>

(* execute_chain: the next link; a chain that is through answers success.  *)
Running(r) == input[r] # None
NextLink(r) == Chain[link[r] + 1]

LinkReturnsOk(r) ==
  IF link[r] + 1 = Len(Chain) THEN Answer(r, "success")
  ELSE link' = [link EXCEPT ![r] = @ + 1] /\ UNCHANGED <<input, manifest, answer>>

(* err is returned as it is; what is neither ok nor err is the server's    *)
(* fault non_result_return.                                                *)
RunLink(r, result) ==
  /\ Running(r) /\ NextLink(r) = 1
  /\ CASE result = "ok" -> LinkReturnsOk(r)
       [] result = "neither" -> Answer(r, "server")
       [] OTHER -> Answer(r, Output(result))
  /\ UNCHANGED <<throttleVars, budget, asked, failed>>

(* validate_all runs every link and looks for err alone: what is neither   *)
(* passes, and a fault of any category becomes one of the client's.        *)
RunValidateAll(r, results) ==
  /\ Running(r) /\ NextLink(r) > 1
  /\ \/ Range(results) \subseteq {"ok", "neither"} /\ LinkReturnsOk(r)
     \/ ~(Range(results) \subseteq {"ok", "neither"}) /\ Answer(r, "client")
  /\ UNCHANGED <<throttleVars, budget, asked, failed>>

(* A link raises: the server's fault unhandled_exception, and a report.    *)
LinkRaises(r, key) ==
  /\ Running(r) /\ Answer(r, "server")
  /\ failed < Budgets[budget].failures /\ failed' = failed + 1
  /\ Capture(r, key, "error")
  /\ UNCHANGED <<now, throttle, budget, asked>>

PageFails(p, key, severity) ==
  /\ failed < Budgets[budget].failures /\ failed' = failed + 1
  /\ Capture(p, key, severity)
  /\ UNCHANGED <<now, throttle, input, manifest, link, answer, budget, asked>>

Results == {"ok", "client", "server", "unauthenticated", "neither"}

Next ==
  \/ \E r \in Requests :
       \/ Receive(r)
       \/ \E result \in Results : RunLink(r, result)
       \/ Running(r) /\ \E results \in [1..NextLink(r) -> Results] : RunValidateAll(r, results)
       \/ \E key \in Keys : LinkRaises(r, key)
  \/ \E p \in Pages, key \in Keys, severity \in {"error", "critical"} :
       PageFails(p, key, severity)
  \/ \E p \in Reporters : Ask(p) /\ UNCHANGED requestVars
  \/ Tick /\ UNCHANGED requestVars

Spec == Init /\ [][Next]_vars

-----------------------------------------------------------------------------
(* What a chain is given, against what was asked: x is a request's input.  *)
Given(r) == manifest[r]
Said(x, type) ==
  {i \in DOMAIN x.tokens :
     x.tokens[i] \notin {Nothing, Empty} /\ Accepts(x.vocab, type, x.tokens[i])}
Bound(x) == {c \in DOMAIN x.vocab.composed : x.vocab.composed[c].name \in DOMAIN x.bind}
Capturing(x, type) == {c \in Bound(x) : x.vocab.composed[c].captures = type}
SlotOf(x, c) == x.bind[x.vocab.composed[c].name].slot
HoldsAt(r, name, value) ==
  name \in DOMAIN input[r].bind /\ LET s == input[r].bind[name].slot
                                   IN  s \in DOMAIN Given(r) /\ Given(r)[s] = value

(* The slot of c holds the token of another composed type that has it too. *)
Overwritten(r, c) ==
  LET x == input[r]  IN
  \E d \in Bound(x) \ {c} :
    /\ SlotOf(x, d) = SlotOf(x, c)
    /\ \E i \in Said(x, x.vocab.composed[d].captures) :
         HoldsAt(r, x.vocab.composed[d].name, x.tokens[i])

(* Nothing the client said is lost: each token with a text is the value of *)
(* the slot of a type that accepts it or of a composed type that captures, *)
(* unless that slot was overwritten.                                       *)
TokensKept(r) ==
  \A t \in Range(input[r].vocab.types) : \A i \in Said(input[r], t) :
    LET x == input[r]  token == x.tokens[i]  IN
    \/ HoldsAt(r, t, token)
    \/ \E c \in Capturing(x, t) :
         HoldsAt(r, x.vocab.composed[c].name, token) \/ Overwritten(r, c)

(* A required slot has a value, unless a composed type took its token.     *)
RequiredPresent(r) ==
  \A t \in DOMAIN input[r].bind \cap Range(input[r].vocab.types) :
    LET x == input[r]  s == x.bind[t].slot  IN
    ~x.bind[t].optional =>
      \/ s \in DOMAIN Given(r) /\ Given(r)[s] # Nothing
      \/ \E c \in Capturing(x, t) : SlotOf(x, c) \in DOMAIN Given(r)

(* The composed types that can be told by their slot: no other name has it.*)
Own(x) ==
  {c \in Bound(x) : \A n \in DOMAIN x.bind \ {x.vocab.composed[c].name} :
                      x.bind[n].slot # SlotOf(x, c)}
(* "when format_name is classified with value currency and an integer is   *)
(* present, this composed type matches."                                   *)
Matching(x) ==
  {c \in Own(x) :
     LET comp == x.vocab.composed[c]
     IN  /\ \A q \in DOMAIN comp.requires :
              \E i \in Said(x, q) : x.tokens[i] = comp.requires[q]
         /\ Said(x, comp.captures) # {}}
(* "The integer's value is what gets bound."                               *)
Filled(r) ==
  {c \in Own(input[r]) :
     LET comp == input[r].vocab.composed[c]
     IN  \E i \in Said(input[r], comp.captures) : HoldsAt(r, comp.name, input[r].tokens[i])}

(* The ones judged by another token of a type they require: it was said    *)
(* last, and another composed type took it, so that it is no duplicate.    *)
JudgedByAnother(r) ==
  LET x == input[r]  composed == x.vocab.composed  IN
  {c \in Own(x) : \E q \in DOMAIN composed[c].requires : \E last \in Said(x, q) :
     /\ \A i \in Said(x, q) : i <= last
     /\ x.tokens[last] # composed[c].requires[q]
     /\ \E d \in Capturing(x, q) \ {c} : HoldsAt(r, composed[d].name, x.tokens[last])}

(* A chain never works on a manifest that leaves out, adds to or disagrees *)
(* with what the client said: no token is lost, what is required is there, *)
(* and of the composed types with a slot to themselves the filled ones are *)
(* the ones whose requirements were said, and a token to capture.          *)
(* classify and check_rejections see to it together, but for two named     *)
(* exceptions the specification does not have: a second composed type at   *)
(* the slot overwrites without a rejection (Overwritten), and one whose    *)
(* requirement was said, before another token of that type which a further *)
(* composed type captured, is not filled (JudgedByAnother).                *)
ManifestFaithful ==
  \A r \in Requests : Running(r) =>
    /\ TokensKept(r)
    /\ RequiredPresent(r)
    /\ Filled(r) \subseteq Matching(input[r])
    /\ Matching(input[r]) \ Filled(r) \subseteq JudgedByAnother(r)

(* "the same tokens in any order produce the same manifest": two requests  *)
(* at one endpoint that say the same are given the same while no type is   *)
(* said twice.  A composed type is resolved over the entire input (the     *)
(* reason for the two passes), so that what it requires may come before or *)
(* after what it captures; of a type said twice it goes by the last.       *)
SaidOnce(x) == \A t \in Range(x.vocab.types) : Cardinality(Said(x, t)) <= 1
SameTokens(a, b) ==
  /\ Len(a) = Len(b)
  /\ \A w \in Range(a) :
       Cardinality({i \in DOMAIN a : a[i] = w}) = Cardinality({i \in DOMAIN b : b[i] = w})
SayTheSame(r, s) ==
  /\ Running(r) /\ Running(s)
  /\ input[r].vocab = input[s].vocab /\ input[r].bind = input[s].bind
  /\ SameTokens(input[r].tokens, input[s].tokens)
OrderIndependentOnce ==
  \A r, s \in Requests :
    SayTheSame(r, s) /\ SaidOnce(input[r]) => manifest[r] = manifest[s]
=============================================================================
