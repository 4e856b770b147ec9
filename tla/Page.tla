---------------------------------- MODULE Page ----------------------------------
(***************************************************************************)
(* A page of a browser with honest-boot and honest-dom: HTMX requests and  *)
(* swaps, activations that await their imports (activate.js), automatic    *)
(* events and the reload cache (instrument.js, browser.js).                *)
(*                                                                         *)
(* A task with its microtasks is one step, so a response is swapped in,    *)
(* its request id stored, its event sent, the swapped root scanned and a   *)
(* frame asked for in one.  An import and a frame come later, and what     *)
(* the page is by then is what they see.                                   *)
(*                                                                         *)
(* External: HTMX, the user, the server, imports, localStorage with the    *)
(* other tabs that share it, the composition root that calls boot,         *)
(* instrumentChanges and restoreState when the page is loaded.             *)
(***************************************************************************)
EXTENDS Boot, Dom

CONSTANTS
  Fixed,        \* the declared elements outside the region HTMX swaps
  Typed,        \* slots the user types into: an input event, no mutation
  Vals,         \* what a slot holds
  Modes,        \* the mode meta tag
  Contents,     \* what the server renders: the elements of the region,
  Renderings,   \*   the slots
  MaxRequests, MaxLoads, MaxNow, MaxEdits, MaxOthers   \* bounds

Roots == {"body", "region"}
States == [Slots -> Vals]
Responses == [id : 1..MaxRequests, stored : BOOLEAN, swapped : BOOLEAN]
Entries == [state : States, timestamp : Nat, tab : {"this", "other"}]

ASSUME PageAssumption ==
  /\ Fixed \subseteq Elements /\ Configured \subseteq Elements
  /\ Typed \subseteq Slots /\ Written \subseteq Slots
  /\ {MaxRequests, MaxLoads, MaxNow, MaxEdits, MaxOthers, Ttl} \subseteq Nat
  /\ Contents \subseteq SUBSET (Elements \ Fixed) /\ Renderings \subseteq States
  /\ None \notin Entries

VARIABLES
  mode, now,
  region,        \* the declared elements in the swapped region
  slots,         \* what the slots hold
  requestId,     \* data-request-id
  initialised,   \* the elements in the page a module has initialised
  activations,   \* activations that await an import
  frame,         \* a callback is scheduled
  cache,         \* domx:state: [state, timestamp, tab], or None
  sent,          \* events the last step sent: [type, causes, id]
  reported,      \* the value of each slot last recorded in the event log
  requests,      \* requests so far; those of this page without a response
  waiting,
  loads, edits, others,
  handled,       \* bookkeeping: responses the page handled: [id, stored, swapped]
  causes,        \* bookkeeping: what the scheduled callback will see the effect of
  failed,        \* bookkeeping: elements whose module failed to load or to initialise
  touched,       \* bookkeeping: slots changed since the page was loaded
  unseen,        \* bookkeeping: slots typed into since the last callback
  unsaved,       \* bookkeeping: slots whose last cache write failed
  lost           \* bookkeeping: slots whose last change did not reach the log

view == <<region, slots, requestId>>
boot == <<initialised, activations, failed>>
storage == <<cache, reported, unsaved, lost, others>>
network == <<requests, waiting, handled>>
changes == <<frame, causes, touched, unseen>>
vars == <<mode, now, view, boot, storage, network, changes, sent, loads, edits>>

Present(root) == IF root = "body" THEN Fixed \cup region ELSE region

Event(type, cs, id) == [type |-> type, causes |-> cs, id |-> id]

(* The activation of a root as it is now, if it has anything to await.     *)
Activations(root, present, cause) ==
  LET a == Activation(root, present, cause) IN IF a.left = {} THEN {} ELSE {a}

(* What the composition root does with a page the server rendered: it      *)
(* observes the page, restores the cached state and boots.                 *)
Loaded(content, rendered) ==
  /\ region' = content
  /\ slots' = Restored(rendered, cache, now)
  /\ requestId' = None
  /\ activations' = Activations("body", Fixed \cup content, 0)
  /\ frame' = \E k \in Slots \ Typed : slots'[k] # rendered[k]

Init ==
  /\ mode \in Modes /\ now = 0
  /\ region \in Contents /\ slots \in Renderings
  /\ requestId = None
  /\ initialised = {} /\ failed = {}
  /\ activations = Activations("body", Fixed \cup region, 0)
  /\ cache = None /\ reported = [k \in Slots |-> None] /\ unsaved = {} /\ lost = {}
  /\ others = 0
  /\ requests = 0 /\ waiting = {} /\ handled = <<>>
  /\ frame = FALSE /\ causes = {} /\ touched = {} /\ unseen = {}
  /\ sent = {} /\ loads = 1 /\ edits = 0

(* A reload: what lived in the page is gone.                               *)
Reload(content, rendered) ==
  /\ loads < MaxLoads /\ loads' = loads + 1
  /\ Loaded(content, rendered)
  /\ initialised' = {} /\ failed' = {}
  /\ waiting' = {} /\ handled' = <<>>
  /\ causes' = {} /\ touched' = {} /\ unseen' = {}
  /\ sent' = {}
  /\ UNCHANGED <<mode, now, storage, requests, edits>>

-----------------------------------------------------------------------------
(* htmx:beforeRequest: the event has the request id the page has.          *)
Request ==
  /\ requests < MaxRequests
  /\ requests' = requests + 1
  /\ waiting' = waiting \cup {requests'}
  /\ sent' = {Event("request", {requests'}, requestId)}
  /\ UNCHANGED <<mode, now, view, boot, storage, handled, changes, loads, edits>>

(* Mutant: a rescan while an activation is under way is left out.          *)
RescansOnce(root, content, cause) ==
  LET present == IF root = "body" THEN Fixed \cup content ELSE content
  IN activations' = IF activations # {} THEN activations
                    ELSE Activations(root, present, cause)

(* The rescan after a swap, of the root the composition root subscribed.   *)
Rescans(root, content, cause) ==
  LET present == IF root = "body" THEN Fixed \cup content ELSE content
  IN activations' = activations \cup Activations(root, present, cause)

(* Mutant: the event is sent before the id is stored.                      *)
SendsFirst(id, stored) ==
  /\ requestId' = IF stored THEN id ELSE requestId
  /\ sent' = {Event("response", {id}, requestId)}

(* htmx:afterRequest: storeRequestId leaves the id there is for a response *)
(* without one; the event has the id the page now has.                     *)
AfterRequest(id, stored) ==
  /\ requestId' = IF stored THEN id ELSE requestId
  /\ sent' = {Event("response", {id}, requestId')}

ResponseHandled(id, stored, swapped) ==
  /\ id \in waiting
  /\ waiting' = waiting \ {id}
  /\ handled' = Append(handled, [id |-> id, stored |-> stored, swapped |-> swapped])

(* A response is swapped in: new elements, and the slots as rendered; then *)
(* htmx:afterRequest, then the observers of the mutation.                  *)
Swap(id, stored, root, content, rendered) ==
  /\ ResponseHandled(id, stored, TRUE)
  /\ region' = content /\ slots' = rendered
  /\ AfterRequest(id, stored)
  /\ Rescans(root, content, id)
  /\ initialised' = initialised \cap Fixed
  /\ failed' = failed \cap Fixed
  /\ frame' = TRUE /\ causes' = causes \cup {id}
  /\ touched' = touched \cup {k \in Slots : rendered[k] # slots[k]}
  /\ UNCHANGED <<mode, now, storage, requests, unseen, loads, edits>>

(* A response without a swap, a failed request among them.                 *)
NoSwap(id, stored) ==
  /\ ResponseHandled(id, stored, FALSE)
  /\ AfterRequest(id, stored)
  /\ UNCHANGED <<mode, now, region, slots, boot, storage, requests, changes, loads, edits>>

-----------------------------------------------------------------------------
(* The elements there are were made by the swap of response id, or by the  *)
(* load of the page if that is 0: no other swap came after it.             *)
Made(id) ==
  \A i \in DOMAIN handled : handled[i].swapped =>
    \E j \in DOMAIN handled : j >= i /\ handled[j].swapped /\ handled[j].id = id
Scanned(a) == {e \in a.elements : e \in Fixed \/ Made(a.cause)}

(* An import returns; after the last one the fresh modules initialise the  *)
(* root as it is now, and every scanned element is announced.              *)
ImportReturns(a) ==
  LET done == Imported(a)
  IN IF done.left # {}
     THEN /\ activations' = (activations \ {a}) \cup {done}
          /\ sent' = {}
          /\ UNCHANGED initialised
     ELSE /\ activations' = activations \ {a}
          /\ initialised' = initialised \cup Initialises(done.fresh, Present(a.root))
          /\ sent' = {Event("classify", {a.cause}, requestId) : e \in Classified(a)}

ImportEnds(a) ==
  /\ ImportReturns(a)
  /\ UNCHANGED <<mode, now, view, failed, storage, network, changes, loads, edits>>

(* An import rejects, and activate with it: nothing of this activation is  *)
(* initialised or announced.                                               *)
ImportFails(a) ==
  /\ activations' = activations \ {a}
  /\ failed' = failed \cup Scanned(a)
  /\ sent' = {}
  /\ UNCHANGED <<mode, now, view, initialised, storage, network, changes, loads, edits>>

(* The initModule of m throws, and activate rejects with it: the modules   *)
(* after it are not initialised and nothing is announced.                  *)
InitThrows(a, m) ==
  LET done == Imported(a)
      good == Before(done, m)
  IN /\ done.left = {}
     /\ activations' = activations \ {a}
     /\ initialised' = initialised \cup Initialises(good, Present(a.root))
     /\ failed' = failed \cup {e \in Scanned(a) : ModuleOf[e] \notin good}
     /\ sent' = {}
     /\ UNCHANGED <<mode, now, view, storage, network, changes, loads, edits>>

-----------------------------------------------------------------------------
(* Nothing was sent and no import ended.                                   *)
Quiet == sent' = {} /\ UNCHANGED <<mode, boot, network, loads>>

(* The user types: an input event, which instrumentChanges does not watch. *)
Type(k, v) ==
  /\ edits < MaxEdits /\ edits' = edits + 1
  /\ v # slots[k] /\ slots' = [slots EXCEPT ![k] = v]
  /\ touched' = touched \cup {k} /\ unseen' = unseen \cup {k}
  /\ Quiet /\ UNCHANGED <<now, region, requestId, storage, frame, causes>>

(* A component changes the page: a mutation, a frame is asked for.         *)
Change(k, v) ==
  /\ edits < MaxEdits /\ edits' = edits + 1
  /\ v # slots[k] /\ slots' = [slots EXCEPT ![k] = v]
  /\ touched' = touched \cup {k} /\ frame' = TRUE
  /\ Quiet /\ UNCHANGED <<now, region, requestId, storage, causes, unseen>>

(* The beacon of a change reaches the log, or it does not: sendBeacon      *)
(* refuses it and answers false, which emitBrowserEvent drops, or it is    *)
(* lost after that.                                                        *)
Recorded(changed, current) ==
  LET values == Values(mode, changed, current)
  IN \/ /\ reported' = [k \in Slots |-> IF k \in DOMAIN values THEN values[k] ELSE reported[k]]
        /\ lost' = lost \ changed
     \/ UNCHANGED reported /\ lost' = lost \cup changed

Entry(state, tab) == [state |-> state, timestamp |-> now, tab |-> tab]

(* setItem after the beacon, whatever became of it, or an exception out of *)
(* setItem (quota).                                                        *)
Saves(changed, current) ==
  \/ cache' = Entry(current, "this") /\ unsaved' = unsaved \ changed
  \/ UNCHANGED cache /\ unsaved' = unsaved \cup changed

(* Mutant: the cache is written before the difference is taken.            *)
SavesFirst ==
  /\ cache' = Entry(Collect(slots), "this")
  /\ sent' = {}
  /\ UNCHANGED <<reported, unsaved, lost>>

(* The scheduled callback of instrumentChanges.                            *)
Callback ==
  LET current == Collect(slots)
      changed == ChangedKeys(cache, current)
  IN IF changed = {} THEN sent' = {} /\ UNCHANGED <<cache, reported, unsaved, lost>>
     ELSE /\ sent' = {Event("changed", causes, requestId)}
          /\ Recorded(changed, current)
          /\ Saves(changed, current)

AnimationFrame ==
  /\ frame /\ Callback
  /\ frame' = FALSE /\ causes' = {} /\ unseen' = {}
  /\ UNCHANGED <<mode, now, view, boot, others, network, touched, loads, edits>>

(* Another tab of the application runs its callback: the key is the same.  *)
OtherTab(current) ==
  LET changed == ChangedKeys(cache, current)
  IN /\ others < MaxOthers /\ others' = others + 1
     /\ changed # {}
     /\ Recorded(changed, current)
     /\ cache' = Entry(current, "other") /\ unsaved' = unsaved \ changed
     /\ Quiet /\ UNCHANGED <<now, view, changes, edits>>

Tick ==
  /\ now < MaxNow /\ now' = now + 1
  /\ Quiet /\ UNCHANGED <<view, storage, changes, edits>>

-----------------------------------------------------------------------------
Responds(id) ==
  \E stored \in BOOLEAN :
    \/ NoSwap(id, stored)
    \/ \E root \in Roots, content \in Contents, rendered \in Renderings :
         Swap(id, stored, root, content, rendered)

User ==
  \/ \E k \in Typed, v \in Vals : Type(k, v)
  \/ \E k \in Slots \ Typed, v \in Vals : Change(k, v)
  \/ \E content \in Contents, rendered \in Renderings : Reload(content, rendered)

Next ==
  \/ Request \/ AnimationFrame \/ Tick \/ User
  \/ \E id \in waiting : Responds(id)
  \/ \E a \in activations :
       ImportEnds(a) \/ ImportFails(a) \/ \E m \in Imported(a).fresh : InitThrows(a, m)
  \/ \E current \in States : OtherTab(current)

Spec == Init /\ [][Next]_vars

-----------------------------------------------------------------------------
Activated(as) == \A a \in as : a.root \in Roots /\ a.elements \subseteq Elements /\ a.left # {}

(* Every variable has its type.                                            *)
TypeOK ==
  /\ mode \in Modes /\ now \in 0..MaxNow
  /\ region \subseteq Elements \ Fixed /\ slots \in States
  /\ requestId \in 1..MaxRequests \cup {None}
  /\ initialised \cup failed \subseteq Elements
  /\ Activated(activations)
  /\ cache \in Entries \cup {None} /\ reported \in [Slots -> Vals \cup {None}]
  /\ requests \in 0..MaxRequests /\ waiting \subseteq 1..requests
  /\ handled \in Seq(Responses)
  /\ touched \cup unseen \cup unsaved \cup lost \subseteq Slots

(* Whatever was swapped in or out while modules were awaited, every        *)
(* declared element on the page is initialised, or an activation that      *)
(* will see to it is under way, or in one that scanned it an import failed *)
(* or the initModule of its module or of an earlier one threw ("content    *)
(* inserted after load never gets enhanced" is what the rescan fixes).     *)
ElementsInitialised ==
  \A e \in Present("body") :
    \/ e \in initialised \/ e \in failed
    \/ \E a \in activations : e \in Scanned(a)

(* An event carries the id of the response it is the effect of, unless     *)
(* none of its causes had one or a later response with one was handled     *)
(* first ("All browser events emitted after a response carry that          *)
(* request_id until the next response arrives").                           *)
EventsTraceable ==
  \A event \in sent : event.type # "request" =>
    LET caused == {i \in DOMAIN handled : handled[i].id \in event.causes /\ handled[i].stored}
    IN \A i \in caused :
         \/ event.id = handled[i].id
         \/ \E j \in DOMAIN handled : j > i /\ handled[j].stored

(* In development the log lags behind the cache at the named failures      *)
(* only: the last recorded value of a slot is what the cache holds, and so *)
(* the previous value of its next change, which the browser never sends;   *)
(* unless the beacon of its last change did not reach the log or the cache *)
(* write of its last change failed, and a later change that passes both    *)
(* mends it; so too with several tabs (instrument.js, the callback).       *)
LogMatchesCache ==
  mode = "development" /\ cache # None =>
    \A k \in Slots : reported[k] = cache.state[k] \/ k \in unsaved \cup lost

(* A reload keeps every change a write shortcut can bring back, unless no  *)
(* callback saw it (it was typed, or the frame was still to come), its     *)
(* cache write failed, the cache was older than its time bound, or another *)
(* tab had replaced it.                                                    *)
ReloadStep ==
  loads' # loads =>
    \A k \in touched \cap Written :
      \/ slots'[k] = slots[k]
      \/ frame \/ k \in unseen \/ k \in unsaved
      \/ cache # None /\ (now - cache.timestamp > Ttl \/ cache.tab = "other")
ReloadKeepsChanges == [][ReloadStep]_vars
=============================================================================
