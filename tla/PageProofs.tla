------------------------------- MODULE PageProofs -------------------------------
(***************************************************************************)
(* What holds of a page with its swaps, activations, events and reload     *)
(* cache for all elements, slots and responses and every bound.            *)
(***************************************************************************)
EXTENDS Page, SequenceTheorems, TLAPS

LEMMA ActivationsTyped ==
  ASSUME NEW root \in Roots, NEW present \in SUBSET Elements, NEW cause
  PROVE  /\ Activated(Activations(root, present, cause))
         /\ \A a \in Activations(root, present, cause) :
              /\ a.root = root /\ a.elements = present /\ a.cause = cause
              /\ \A e \in present : ModuleOf[e] \in a.left
         /\ present # {} => Activations(root, present, cause) # {}
<1>. DEFINE a == Activation(root, present, cause)
<1>1. /\ a.root = root /\ a.elements = present /\ a.cause = cause
      /\ \A e \in present : ModuleOf[e] \in a.left
  BY DEF Activation, NeededModules
<1>2. Activations(root, present, cause) = IF a.left = {} THEN {} ELSE {a}  BY DEF Activations
<1>. HIDE DEF a
<1>. QED  BY <1>1, <1>2 DEF Activated

LEMMA TypeInit == Init => TypeOK
<1>. SUFFICES ASSUME Init PROVE TypeOK
  OBVIOUS
<1>1. mode \in Modes /\ now \in 0..MaxNow /\ slots \in States /\ region \subseteq Elements \ Fixed
  BY PageAssumption DEF Init
<1>2. Activated(activations)
  BY <1>1, ActivationsTyped, PageAssumption DEF Init, Roots
<1>3. /\ requestId = None /\ initialised = {} /\ failed = {} /\ cache = None
      /\ reported \in [Slots -> Vals \cup {None}] /\ requests \in 0..MaxRequests /\ waiting = {}
      /\ handled = << >> /\ touched = {} /\ unseen = {} /\ unsaved = {} /\ lost = {}
  BY PageAssumption DEF Init
<1>. QED  BY <1>1, <1>2, <1>3 DEF TypeOK

(* A response that is handled was waited for, and is handled last.         *)
LEMMA HandledGrows ==
  ASSUME TypeOK, NEW id, NEW stored \in BOOLEAN, NEW swapped \in BOOLEAN,
         ResponseHandled(id, stored, swapped)
  PROVE  /\ id \in 1..MaxRequests /\ waiting' \subseteq 1..requests
         /\ handled' \in Seq(Responses) /\ Len(handled) \in Nat /\ Len(handled') = Len(handled) + 1
         /\ DOMAIN handled = 1..Len(handled) /\ DOMAIN handled' = 1..(Len(handled) + 1)
         /\ \A i \in DOMAIN handled : handled'[i] = handled[i]
         /\ handled'[Len(handled) + 1] = [id |-> id, stored |-> stored, swapped |-> swapped]
<1>1. handled \in Seq(Responses) /\ requests \in 0..MaxRequests /\ waiting \subseteq 1..requests
  BY DEF TypeOK
<1>2. id \in 1..MaxRequests /\ [id |-> id, stored |-> stored, swapped |-> swapped] \in Responses
  BY <1>1, PageAssumption DEF ResponseHandled, Responses
<1>. QED  BY <1>1, <1>2, AppendProperties, LenProperties DEF ResponseHandled

LEMMA TypeStep ==
  ASSUME TypeOK, [Next]_vars
  PROVE  TypeOK'
<1>. USE DEF view, boot, storage, network, changes
<1>1. ASSUME NEW content \in Contents, NEW rendered \in Renderings, Reload(content, rendered)
      PROVE  TypeOK'
  <2>1. slots' \in States /\ region' \subseteq Elements \ Fixed
    BY <1>1, PageAssumption
    DEF Reload, Loaded, Restored, Valid, ApplyState, Entries, States, TypeOK
  <2>2. Activated(activations')
    BY <1>1, ActivationsTyped, PageAssumption DEF Reload, Loaded, Roots
  <2>3. handled' = << >> /\ handled' \in Seq(Responses)  BY <1>1 DEF Reload
  <2>4. /\ requestId' = None /\ initialised' = {} /\ failed' = {} /\ waiting' = {}
        /\ touched' = {} /\ unseen' = {} /\ UNCHANGED <<mode, now, storage, requests>>
    BY <1>1 DEF Reload, Loaded
  <2>. QED  BY <2>1, <2>2, <2>3, <2>4 DEF TypeOK
<1>2. CASE Request
  <2>1. /\ requests' \in 0..MaxRequests /\ waiting' \subseteq 1..requests'
        /\ UNCHANGED <<mode, now, view, boot, storage, handled, changes>>
    BY <1>2, PageAssumption DEF Request, TypeOK
  <2>. QED  BY <2>1 DEF TypeOK
<1>3. ASSUME NEW id \in waiting, NEW stored \in BOOLEAN, NEW root \in Roots, NEW content \in Contents,
             NEW rendered \in Renderings, Swap(id, stored, root, content, rendered)
      PROVE  TypeOK'
  <2>1. slots' \in States /\ region' \subseteq Elements \ Fixed
    BY <1>3, PageAssumption DEF Swap
  <2>2. Activated(activations')
    <3>1. Activated(activations)  BY DEF TypeOK
    <3>2. (IF root = "body" THEN Fixed \cup content ELSE content) \in SUBSET Elements
      BY PageAssumption
    <3>. DEFINE present == IF root = "body" THEN Fixed \cup content ELSE content
    <3>3. activations' = activations \cup Activations(root, present, id)
      BY <1>3 DEF Swap, Rescans
    <3>4. Activated(Activations(root, present, id))  BY <3>2, ActivationsTyped
    <3>. QED  BY <3>1, <3>3, <3>4 DEF Activated
  <2>3. /\ id \in 1..MaxRequests /\ waiting' \subseteq 1..requests /\ handled' \in Seq(Responses)
    BY <1>3, HandledGrows DEF Swap
  <2>. QED  BY <1>3, <2>1, <2>2, <2>3 DEF Swap, AfterRequest, TypeOK
<1>4. ASSUME NEW id \in waiting, NEW stored \in BOOLEAN, NoSwap(id, stored)
      PROVE  TypeOK'
  <2>1. /\ id \in 1..MaxRequests /\ waiting' \subseteq 1..requests /\ handled' \in Seq(Responses)
    BY <1>4, HandledGrows DEF NoSwap
  <2>. QED  BY <1>4, <2>1 DEF NoSwap, AfterRequest, TypeOK
<1>5. ASSUME NEW a \in activations, ImportEnds(a) PROVE TypeOK'
  <2>1. a.root \in Roots /\ a.elements \subseteq Elements /\ Activated(activations)
    BY DEF TypeOK, Activated
  <2>2. Activated(activations')
    BY <1>5, <2>1 DEF ImportEnds, ImportReturns, Imported, Activated
  <2>3. initialised' \cup failed \subseteq Elements
    BY <1>5, PageAssumption DEF ImportEnds, ImportReturns, Initialises, Present, TypeOK
  <2>. QED  BY <1>5, <2>2, <2>3 DEF ImportEnds, TypeOK
<1>6. ASSUME NEW a \in activations, ImportFails(a) PROVE TypeOK'
  BY <1>6 DEF ImportFails, Scanned, TypeOK, Activated
<1>6t. ASSUME NEW a \in activations, NEW m, InitThrows(a, m) PROVE TypeOK'
  <2>1. a.elements \subseteq Elements /\ Activated(activations')
    BY <1>6t DEF InitThrows, TypeOK, Activated
  <2>2. initialised' \cup failed' \subseteq Elements
    BY <1>6t, <2>1, PageAssumption DEF InitThrows, Initialises, Scanned, Present, TypeOK
  <2>. QED  BY <1>6t, <2>1, <2>2 DEF InitThrows, TypeOK
<1>7. ASSUME NEW k \in Slots, NEW v \in Vals, Type(k, v) \/ Change(k, v) PROVE TypeOK'
  BY <1>7 DEF Type, Change, Quiet, States, TypeOK
<1>8. ASSUME NEW current \in States, NEW tab \in {"this", "other"}
      PROVE  /\ Entry(current, tab) \in Entries
             /\ \A changed \in SUBSET Slots :
                  Recorded(changed, current) =>
                    reported' \in [Slots -> Vals \cup {None}] /\ lost' \subseteq Slots
  <2>1. Entry(current, tab) \in Entries
    BY <1>8, PageAssumption DEF TypeOK, Entry, Entries
  <2>2. ASSUME NEW changed \in SUBSET Slots, Recorded(changed, current)
        PROVE  reported' \in [Slots -> Vals \cup {None}] /\ lost' \subseteq Slots
    <3>1. \A k \in DOMAIN Values(mode, changed, current) : Values(mode, changed, current)[k] \in Vals
      BY <1>8 DEF Values, States
    <3>2. reported \in [Slots -> Vals \cup {None}] /\ lost \subseteq Slots  BY DEF TypeOK
    <3>. QED  BY <2>2, <3>1, <3>2 DEF Recorded
  <2>. QED  BY <2>1, <2>2
<1>9. CASE AnimationFrame
  <2>1. /\ UNCHANGED <<mode, now, view, boot, others, network, touched>> /\ unseen' = {}
        /\ Callback
    BY <1>9 DEF AnimationFrame
  <2>2. cache' \in Entries \cup {None} /\ reported' \in [Slots -> Vals \cup {None}] /\ unsaved' \cup lost' \subseteq Slots
    BY <1>8, <2>1 DEF Callback, Saves, Collect, ChangedKeys, TypeOK
  <2>. QED  BY <2>1, <2>2 DEF TypeOK
<1>10. ASSUME NEW current \in States, OtherTab(current) PROVE TypeOK'
  <2>1. cache' \in Entries \cup {None} /\ reported' \in [Slots -> Vals \cup {None}] /\ unsaved' \cup lost' \subseteq Slots
    BY <1>8, <1>10 DEF OtherTab, ChangedKeys, TypeOK
  <2>. QED  BY <1>10, <2>1 DEF OtherTab, Quiet, TypeOK
<1>11. CASE Tick  BY <1>11, PageAssumption DEF Tick, Quiet, TypeOK
<1>12. CASE UNCHANGED vars  BY <1>12 DEF vars, TypeOK
<1>. QED
  BY <1>1, <1>2, <1>3, <1>4, <1>5, <1>6, <1>6t, <1>7, <1>9, <1>10, <1>11, <1>12, PageAssumption
  DEF Next, User, Responds

(* The page's variables keep their types: what boot, collect and apply    *)
(* return fits what the next task takes, in every order of the tasks.      *)
THEOREM PageTypeCorrect == Spec => []TypeOK
<1>1. TypeOK /\ [Next]_vars => TypeOK'  BY TypeStep
<1>. QED  BY <1>1, TypeInit, PTL DEF Spec

-----------------------------------------------------------------------------
(* The events.  The id the page has is that of the last response that had  *)
(* one to store, and every event but a request's carries the id the page   *)
(* has when it is sent.                                                    *)
IdIsLatest ==
  \A i \in DOMAIN handled : handled[i].stored =>
    requestId = handled[i].id \/ \E j \in DOMAIN handled : j > i /\ handled[j].stored

LEMMA IdStep ==
  ASSUME TypeOK, IdIsLatest, [Next]_vars
  PROVE  /\ IdIsLatest'
         /\ \A event \in sent' : event.type # "request" => event.id = requestId' \/ UNCHANGED vars
<1>. USE DEF view, boot, storage, network, changes
<1>. DEFINE Carried == \A event \in sent' : event.type # "request" => event.id = requestId'
<1>1. ASSUME NEW id \in waiting, NEW stored \in BOOLEAN, NEW swapped \in BOOLEAN,
             ResponseHandled(id, stored, swapped), AfterRequest(id, stored)
      PROVE  IdIsLatest' /\ Carried
  <2>0. /\ DOMAIN handled = 1..Len(handled) /\ DOMAIN handled' = DOMAIN handled \cup {Len(handled) + 1}
        /\ \A i \in DOMAIN handled : handled'[i] = handled[i] /\ Len(handled) + 1 > i
        /\ handled'[Len(handled) + 1].id = id /\ handled'[Len(handled) + 1].stored = stored
    <3>1. /\ Len(handled) \in Nat /\ DOMAIN handled = 1..Len(handled)
          /\ DOMAIN handled' = 1..(Len(handled) + 1)
          /\ \A i \in DOMAIN handled : handled'[i] = handled[i]
          /\ handled'[Len(handled) + 1] = [id |-> id, stored |-> stored, swapped |-> swapped]
      BY <1>1, HandledGrows
    <3>. QED  BY <3>1
  <2>. DEFINE n == Len(handled) + 1
  <2>1. ASSUME NEW i \in DOMAIN handled', handled'[i].stored
        PROVE  requestId' = handled'[i].id \/ \E j \in DOMAIN handled' : j > i /\ handled'[j].stored
    <3>1. CASE i \in DOMAIN handled
      <4>1. CASE stored  BY <2>0, <3>1, <4>1
      <4>2. CASE ~stored
        <5>1. handled[i].stored /\ requestId' = requestId  BY <1>1, <2>0, <2>1, <3>1, <4>2 DEF AfterRequest
        <5>. QED  BY <2>0, <3>1, <5>1 DEF IdIsLatest
      <4>. QED  BY <4>1, <4>2
    <3>2. CASE i = n  BY <1>1, <2>0, <2>1, <3>2 DEF AfterRequest
    <3>. QED  BY <2>0, <3>1, <3>2
  <2>. QED  BY <1>1, <2>1 DEF IdIsLatest, AfterRequest, Event
<1>2. ASSUME UNCHANGED <<requestId, handled>> PROVE IdIsLatest'
  BY <1>2 DEF IdIsLatest
<1>3. ASSUME NEW content \in Contents, NEW rendered \in Renderings, Reload(content, rendered)
      PROVE  IdIsLatest' /\ Carried
  BY <1>3 DEF Reload, IdIsLatest
<1>4. ASSUME NEW a \in activations, ImportEnds(a) \/ ImportFails(a) \/ \E m : InitThrows(a, m)
      PROVE  IdIsLatest' /\ Carried
  BY <1>2, <1>4 DEF ImportEnds, ImportFails, InitThrows, ImportReturns, Event
<1>5. CASE Request  BY <1>2, <1>5 DEF Request, Event
<1>6. CASE AnimationFrame  BY <1>2, <1>6 DEF AnimationFrame, Callback, Event
<1>7. CASE \/ Tick \/ \E k \in Slots, v \in Vals : Type(k, v) \/ Change(k, v)
           \/ \E current \in States : OtherTab(current)
  BY <1>2, <1>7 DEF Tick, Type, Change, OtherTab, Quiet
<1>8. CASE UNCHANGED vars  BY <1>2, <1>8 DEF vars
<1>9. ASSUME NEW id \in waiting, Responds(id) PROVE IdIsLatest' /\ Carried
  BY <1>1, <1>9 DEF Responds, Swap, NoSwap
<1>. QED
  BY <1>3, <1>4, <1>5, <1>6, <1>7, <1>8, <1>9, PageAssumption DEF Next, User

(* Every event after a response carries that response's id until the next  *)
(* one arrives (instrument.js, browser.js).                                *)
THEOREM EventsAreTraceable == Spec => []EventsTraceable
<1>1. Init => IdIsLatest /\ EventsTraceable  BY DEF Init, IdIsLatest, EventsTraceable
<1>2. TypeOK /\ IdIsLatest /\ EventsTraceable /\ [Next]_vars => IdIsLatest' /\ EventsTraceable'
  <2>. SUFFICES ASSUME TypeOK, IdIsLatest, EventsTraceable, [Next]_vars
                PROVE  IdIsLatest' /\ EventsTraceable'
    OBVIOUS
  <2>1. CASE UNCHANGED vars
    BY <2>1, IdStep DEF vars, view, network, EventsTraceable
  <2>2. CASE ~UNCHANGED vars
    BY <2>2, IdStep DEF IdIsLatest, EventsTraceable
  <2>. QED  BY <2>1, <2>2
<1>. QED  BY <1>1, <1>2, PageTypeCorrect, PTL DEF Spec

-----------------------------------------------------------------------------
(* The cache.  A callback, here or in another tab, sends what differs from *)
(* the cache before it writes the cache, so the log follows the cache.     *)
LEMMA LogStep ==
  ASSUME TypeOK, LogMatchesCache, [Next]_vars
  PROVE  LogMatchesCache'
<1>. USE DEF view, boot, storage, network, changes
<1>1. ASSUME UNCHANGED <<mode, cache, reported, unsaved, lost>> PROVE LogMatchesCache'
  BY <1>1 DEF LogMatchesCache
<1>2. ASSUME NEW current, UNCHANGED mode, Recorded(ChangedKeys(cache, current), current),
             \/ /\ cache'.state = current
                /\ unsaved' = unsaved \ ChangedKeys(cache, current)
             \/ UNCHANGED cache /\ unsaved' = unsaved \cup ChangedKeys(cache, current)
      PROVE  LogMatchesCache'
  <2>. SUFFICES ASSUME mode = "development", cache' # None, NEW k \in Slots
                PROVE  reported'[k] = cache'.state[k] \/ k \in unsaved' \cup lost'
    BY <1>2 DEF LogMatchesCache
  <2>1. /\ k \in ChangedKeys(cache, current) => reported'[k] = current[k] \/ k \in lost'
        /\ k \notin ChangedKeys(cache, current) =>
             reported'[k] = reported[k] /\ (k \in lost => k \in lost')
    BY <1>2 DEF Recorded, Values
  <2>2. k \notin ChangedKeys(cache, current) =>
          /\ cache # None /\ cache.state[k] = current[k]
          /\ reported[k] = cache.state[k] \/ k \in unsaved \cup lost
    BY DEF ChangedKeys, LogMatchesCache
  <2>. QED  BY <1>2, <2>1, <2>2
<1>3. CASE AnimationFrame
  <2>1. CASE ChangedKeys(cache, slots) = {}
    BY <1>1, <1>3, <2>1 DEF AnimationFrame, Callback, Collect
  <2>2. CASE ChangedKeys(cache, slots) # {}
    BY <1>2, <1>3, <2>2 DEF AnimationFrame, Callback, Collect, Saves, Entry
  <2>. QED  BY <2>1, <2>2
<1>4. ASSUME NEW current \in States, OtherTab(current) PROVE LogMatchesCache'
  BY <1>2, <1>4 DEF OtherTab, Entry, Quiet
<1>5. CASE \/ Request \/ Tick \/ \E k \in Slots, v \in Vals : Type(k, v) \/ Change(k, v)
           \/ \E content \in Contents, rendered \in Renderings : Reload(content, rendered)
  BY <1>1, <1>5 DEF Request, Tick, Type, Change, Quiet, Reload
<1>6. CASE \/ UNCHANGED vars \/ \E id \in waiting : Responds(id)
           \/ \E a \in activations : ImportEnds(a) \/ ImportFails(a) \/ \E m : InitThrows(a, m)
  BY <1>1, <1>6 DEF vars, Responds, Swap, NoSwap, ImportEnds, ImportFails, InitThrows
<1>. QED
  BY <1>3, <1>4, <1>5, <1>6, PageAssumption DEF Next, User

(* In development the log lags behind the cache only in the slots whose    *)
(* last beacon was lost or whose last write failed, several tabs included  *)
(* (instrument.js).                                                        *)
THEOREM LogAlwaysMatchesCache == Spec => []LogMatchesCache
<1>1. Init => LogMatchesCache  BY DEF Init, LogMatchesCache
<1>2. TypeOK /\ LogMatchesCache /\ [Next]_vars => LogMatchesCache'  BY LogStep
<1>. QED  BY <1>1, <1>2, PageTypeCorrect, PTL DEF Spec

(* What was changed and seen by a callback is in the cache, if its write   *)
(* succeeded and no other tab has written since.                           *)
CacheIsCurrent ==
  ~frame => \A k \in touched \ (unseen \cup unsaved) :
    cache # None /\ (cache.tab = "other" \/ cache.state[k] = slots[k])

LEMMA CacheStep ==
  ASSUME TypeOK, CacheIsCurrent, [Next]_vars
  PROVE  CacheIsCurrent'
<1>. USE DEF view, boot, storage, network, changes
<1>0. touched \subseteq Slots /\ slots \in States  BY DEF TypeOK
<1>1. ASSUME UNCHANGED <<frame, touched, unseen, unsaved, cache, slots>> PROVE CacheIsCurrent'
  BY <1>1 DEF CacheIsCurrent
<1>2. ASSUME NEW k \in Slots, NEW v \in Vals, Type(k, v) \/ Change(k, v) PROVE CacheIsCurrent'
  BY <1>0, <1>2 DEF Type, Change, CacheIsCurrent, States
<1>3. ASSUME NEW content \in Contents, NEW rendered \in Renderings, Reload(content, rendered)
      PROVE  CacheIsCurrent'
  BY <1>3 DEF Reload, CacheIsCurrent
<1>4. ASSUME NEW id \in waiting, Responds(id) PROVE CacheIsCurrent'
  BY <1>1, <1>4 DEF Responds, Swap, NoSwap, CacheIsCurrent
<1>5. CASE AnimationFrame
  <2>. DEFINE changed == ChangedKeys(cache, slots)
  <2>1. /\ unseen' = {} /\ UNCHANGED <<touched, slots>>
        /\ \/ changed = {} /\ UNCHANGED <<cache, unsaved>>
           \/ cache' = Entry(slots, "this") /\ unsaved' = unsaved \ changed
           \/ UNCHANGED cache /\ unsaved' = unsaved \cup changed
    BY <1>5 DEF AnimationFrame, Callback, Collect, Saves
  <2>2. \A k \in Slots \ changed : cache # None /\ cache.state[k] = slots[k]
    BY DEF ChangedKeys
  <2>3. Entry(slots, "this") # None /\ Entry(slots, "this").state = slots
    BY <1>0, PageAssumption DEF Entry, Entries, TypeOK
  <2>. HIDE DEF changed
  <2>. QED  BY <1>0, <2>1, <2>2, <2>3 DEF CacheIsCurrent
<1>6. ASSUME NEW current \in States, OtherTab(current) PROVE CacheIsCurrent'
  <2>1. Entry(current, "other") # None /\ Entry(current, "other").tab = "other"
    BY PageAssumption DEF Entry, Entries, TypeOK
  <2>. QED  BY <1>6, <2>1 DEF OtherTab, CacheIsCurrent
<1>7. CASE \/ Request \/ Tick \/ UNCHANGED vars
           \/ \E a \in activations : ImportEnds(a) \/ ImportFails(a) \/ \E m : InitThrows(a, m)
  BY <1>1, <1>7 DEF Request, Tick, Quiet, vars, ImportEnds, ImportFails, InitThrows
<1>. QED
  BY <1>2, <1>3, <1>4, <1>5, <1>6, <1>7, PageAssumption DEF Next, User

(* A reload keeps every change a callback saw and wrote, unless the cache  *)
(* is older than its bound or another tab's (browser.js).                  *)
THEOREM ReloadsKeepChanges == Spec => ReloadKeepsChanges
<1>1. Init => CacheIsCurrent  BY DEF Init, CacheIsCurrent
<1>2. TypeOK /\ CacheIsCurrent /\ [Next]_vars => CacheIsCurrent'  BY CacheStep
<1>3. TypeOK /\ CacheIsCurrent /\ [Next]_vars => [ReloadStep]_vars
  <2>. SUFFICES ASSUME TypeOK, CacheIsCurrent, [Next]_vars, loads' # loads,
                       NEW k \in touched \cap Written
                PROVE  \/ slots'[k] = slots[k]
                       \/ frame \/ k \in unseen \/ k \in unsaved
                       \/ cache # None /\ (now - cache.timestamp > Ttl \/ cache.tab = "other")
    BY DEF ReloadStep
  <2>1. PICK content \in Contents, rendered \in Renderings : Reload(content, rendered)
    BY DEF Next, vars, User, Request, AnimationFrame, Tick, Type, Change, Responds, Swap, NoSwap,
           ImportEnds, ImportFails, InitThrows, OtherTab, Quiet
  <2>2. slots' = Restored(rendered, cache, now)  BY <2>1 DEF Reload, Loaded
  <2>3. CASE frame \/ k \in unseen \/ k \in unsaved \/ ~Valid(cache, now)
    BY <2>3, PageAssumption DEF CacheIsCurrent, Valid, TypeOK, Entries
  <2>4. CASE Valid(cache, now) /\ ~frame /\ k \notin unseen /\ k \notin unsaved
    BY <2>2, <2>4, PageAssumption DEF CacheIsCurrent, Restored, ApplyState
  <2>. QED  BY <2>3, <2>4
<1>. QED  BY <1>1, <1>2, <1>3, PageTypeCorrect, PTL DEF Spec, ReloadKeepsChanges

-----------------------------------------------------------------------------
(* The activations.  The modules of an activation's elements are awaited   *)
(* or there, and one of the region has the region's elements only.         *)
ActivationsCover ==
  \A a \in activations :
    /\ \A e \in a.elements : ModuleOf[e] \in a.left \cup a.fresh
    /\ a.root = "region" => a.elements \cap Fixed = {}

LEMMA NewActivation ==
  ASSUME NEW root \in Roots, NEW content \in Contents, NEW cause,
         NEW present \in SUBSET Elements,
         present = IF root = "body" THEN Fixed \cup content ELSE content
  PROVE  \A a \in Activations(root, present, cause) :
           /\ \A e \in a.elements : ModuleOf[e] \in a.left \cup a.fresh
           /\ a.root = "region" => a.elements \cap Fixed = {}
<1>1. root = "region" => present \cap Fixed = {}  BY PageAssumption
<1>2. \A a \in Activations(root, present, cause) :
        a.root = root /\ a.elements = present /\ \A e \in present : ModuleOf[e] \in a.left
  BY ActivationsTyped
<1>. QED  BY <1>1, <1>2

(* Elements that are there when an activation begins are in its elements.  *)
LEMMA ActivationBegins ==
  ASSUME NEW root \in Roots, NEW present \in SUBSET Elements, NEW cause, NEW e \in present
  PROVE  \E a \in Activations(root, present, cause) : e \in a.elements /\ a.cause = cause
<1>1. /\ Activations(root, present, cause) # {}
      /\ \A a \in Activations(root, present, cause) : a.elements = present /\ a.cause = cause
  BY ActivationsTyped
<1>. QED  BY <1>1

LEMMA ElementsStep ==
  ASSUME TypeOK, ActivationsCover, ElementsInitialised, [Next]_vars
  PROVE  ActivationsCover' /\ ElementsInitialised'
<1>. USE DEF view, boot, storage, network, changes
<1>0. /\ region \cap Fixed = {} /\ Present("body") = Fixed \cup region /\ Present("region") = region
      /\ Activated(activations)
  BY DEF TypeOK, Present
<1>1. ASSUME UNCHANGED <<region, boot, handled>>
      PROVE  ActivationsCover' /\ ElementsInitialised'
  BY <1>1 DEF ActivationsCover, ElementsInitialised, Present, Scanned, Made
<1>2. ASSUME NEW content \in Contents, NEW rendered \in Renderings, Reload(content, rendered)
      PROVE  ActivationsCover' /\ ElementsInitialised'
  <2>1. /\ activations' = Activations("body", Fixed \cup content, 0) /\ region' = content
        /\ handled' = << >>
    BY <1>2 DEF Reload, Loaded
  <2>2. Fixed \cup content \in SUBSET Elements  BY PageAssumption
  <2>3. ActivationsCover'  BY <2>1, <2>2, NewActivation DEF ActivationsCover, Roots
  <2>4. ASSUME NEW e \in Fixed \cup content PROVE \E a \in activations' : e \in Scanned(a)'
    <3>1. PICK a \in activations' : e \in a.elements /\ a.cause = 0
      BY <2>1, <2>2, <2>4, ActivationBegins DEF Roots
    <3>. QED  BY <2>1, <2>4, <3>1 DEF Scanned, Made
  <2>. QED  BY <2>1, <2>3, <2>4 DEF ElementsInitialised, Present
<1>3. ASSUME NEW id \in waiting, NEW stored \in BOOLEAN, NEW root \in Roots, NEW content \in Contents,
             NEW rendered \in Renderings, Swap(id, stored, root, content, rendered)
      PROVE  ActivationsCover' /\ ElementsInitialised'
  <2>. DEFINE present == IF root = "body" THEN Fixed \cup content ELSE content
  <2>1. /\ activations' = activations \cup Activations(root, present, id) /\ region' = content
        /\ initialised' = initialised \cap Fixed /\ failed' = failed \cap Fixed
        /\ content \cap Fixed = {} /\ content \subseteq present /\ present \in SUBSET Elements
    BY <1>3, PageAssumption DEF Swap, Rescans
  <2>2. ActivationsCover'  BY <2>1, NewActivation DEF ActivationsCover
  <2>3. Made(id)'
    <3>1. /\ Len(handled) \in Nat /\ DOMAIN handled' = 1..(Len(handled) + 1)
          /\ handled'[Len(handled) + 1] = [id |-> id, stored |-> stored, swapped |-> TRUE]
      BY <1>3, HandledGrows DEF Swap
    <3>. QED  BY <3>1 DEF Made
  <2>4. ASSUME NEW e \in content PROVE \E a \in activations' : e \in Scanned(a)'
    <3>1. PICK a \in Activations(root, present, id) : e \in a.elements /\ a.cause = id
      BY <2>1, <2>4, ActivationBegins
    <3>. QED  BY <2>1, <2>3, <2>4, <3>1 DEF Scanned
  <2>5. ASSUME NEW e \in Fixed
        PROVE  e \in initialised' \/ e \in failed' \/ \E a \in activations' : e \in Scanned(a)'
    BY <1>0, <2>1, <2>5 DEF ElementsInitialised, Scanned
  <2>. QED  BY <2>1, <2>2, <2>4, <2>5 DEF ElementsInitialised, Present
<1>4. ASSUME NEW id \in waiting, NEW stored \in BOOLEAN, NoSwap(id, stored)
      PROVE  ActivationsCover' /\ ElementsInitialised'
  <2>1. /\ UNCHANGED <<region, boot>>
        /\ Len(handled) \in Nat /\ DOMAIN handled = 1..Len(handled)
        /\ DOMAIN handled' = 1..(Len(handled) + 1)
        /\ \A i \in DOMAIN handled : handled'[i] = handled[i]
        /\ ~handled'[Len(handled) + 1].swapped
    <3>1. UNCHANGED <<region, boot>> /\ ResponseHandled(id, stored, FALSE)  BY <1>4 DEF NoSwap
    <3>2. /\ Len(handled) \in Nat /\ DOMAIN handled = 1..Len(handled)
          /\ DOMAIN handled' = 1..(Len(handled) + 1)
          /\ \A i \in DOMAIN handled : handled'[i] = handled[i]
          /\ handled'[Len(handled) + 1] = [id |-> id, stored |-> stored, swapped |-> FALSE]
      BY <3>1, HandledGrows
    <3>. QED  BY <3>1, <3>2
  <2>2. ASSUME NEW a \in activations, Made(a.cause) PROVE Made(a.cause)'
    BY <2>1, <2>2 DEF Made
  <2>. QED  BY <2>1, <2>2 DEF ActivationsCover, ElementsInitialised, Present, Scanned
<1>5. ASSUME NEW a \in activations, ImportEnds(a)
      PROVE  ActivationsCover' /\ ElementsInitialised'
  <2>. DEFINE done == Imported(a)
  <2>1. /\ UNCHANGED <<region, failed, handled>> /\ a.root \in Roots
        /\ done.root = a.root /\ done.elements = a.elements /\ done.cause = a.cause
        /\ \A e \in a.elements : ModuleOf[e] \in done.left \cup done.fresh
        /\ a.root = "region" => a.elements \cap Fixed = {}
    BY <1>0, <1>5 DEF ImportEnds, Imported, ActivationsCover, Activated
  <2>2. \A b : Scanned(b)' = Scanned(b) /\ (b = done => Scanned(b) = Scanned(a))
    BY <2>1 DEF Scanned, Made
  <2>3. CASE done.left # {}
    <3>1. activations' = (activations \ {a}) \cup {done} /\ UNCHANGED initialised
      BY <1>5, <2>3 DEF ImportEnds, ImportReturns
    <3>. QED
      BY <1>0, <2>1, <2>2, <3>1 DEF ActivationsCover, ElementsInitialised, Present
  <2>4. CASE done.left = {}
    <3>1. /\ activations' = activations \ {a}
          /\ initialised' = initialised \cup {e \in Present(a.root) : ModuleOf[e] \in done.fresh}
      BY <1>5, <2>4 DEF ImportEnds, ImportReturns, Initialises
    <3>2. ASSUME NEW e \in Fixed \cup region, e \in Scanned(a) PROVE e \in initialised'
      <4>1. e \in a.elements /\ ModuleOf[e] \in done.fresh  BY <2>1, <2>4, <3>2 DEF Scanned
      <4>2. e \in Present(a.root)  BY <1>0, <2>1, <3>2, <4>1 DEF Roots
      <4>. QED  BY <3>1, <4>1, <4>2
    <3>. QED
      BY <1>0, <2>1, <2>2, <3>1, <3>2 DEF ActivationsCover, ElementsInitialised, Present
  <2>. QED  BY <2>3, <2>4
<1>6. ASSUME NEW a \in activations, ImportFails(a)
      PROVE  ActivationsCover' /\ ElementsInitialised'
  <2>1. /\ UNCHANGED <<region, initialised, handled>> /\ activations' = activations \ {a}
        /\ failed' = failed \cup Scanned(a)
    BY <1>6 DEF ImportFails
  <2>2. \A b : Scanned(b)' = Scanned(b)  BY <2>1 DEF Scanned, Made
  <2>. QED  BY <2>1, <2>2 DEF ActivationsCover, ElementsInitialised, Present
<1>6t. ASSUME NEW a \in activations, NEW m, InitThrows(a, m)
       PROVE  ActivationsCover' /\ ElementsInitialised'
  <2>. DEFINE done == Imported(a)
              good == Before(done, m)
  <2>1. /\ UNCHANGED <<region, handled>> /\ activations' = activations \ {a}
        /\ initialised' = initialised \cup {e \in Present(a.root) : ModuleOf[e] \in good}
        /\ failed' = failed \cup {e \in Scanned(a) : ModuleOf[e] \notin good}
    BY <1>6t DEF InitThrows, Initialises
  <2>2. \A b : Scanned(b)' = Scanned(b)  BY <2>1 DEF Scanned, Made
  <2>3. a.root \in Roots /\ (a.root = "region" => a.elements \cap Fixed = {})
    BY <1>0 DEF ActivationsCover, Activated
  <2>4. ASSUME NEW e \in Fixed \cup region, e \in Scanned(a) PROVE e \in initialised' \/ e \in failed'
    <3>1. e \in Present(a.root)  BY <1>0, <2>3, <2>4 DEF Roots, Scanned
    <3>. QED  BY <2>1, <2>4, <3>1
  <2>. QED  BY <1>0, <2>1, <2>2, <2>4 DEF ActivationsCover, ElementsInitialised, Present
<1>7. CASE \/ Request \/ AnimationFrame \/ Tick \/ UNCHANGED vars
           \/ \E k \in Slots, v \in Vals : Type(k, v) \/ Change(k, v)
           \/ \E current \in States : OtherTab(current)
  BY <1>1, <1>7 DEF Request, AnimationFrame, Tick, Type, Change, OtherTab, Quiet, vars
<1>. QED
  BY <1>2, <1>3, <1>4, <1>5, <1>6, <1>6t, <1>7, PageAssumption DEF Next, User, Responds

(* No element that was ever swapped in is left without its module, however *)
(* swaps and awaited imports interleave (boot.js, activate.js).            *)
THEOREM ElementsAreInitialised == Spec => []ElementsInitialised
<1>1. Init => ActivationsCover /\ ElementsInitialised
  <2>. SUFFICES ASSUME Init PROVE ActivationsCover /\ ElementsInitialised
    OBVIOUS
  <2>1. /\ region \in Contents /\ handled = << >>
        /\ activations = Activations("body", Fixed \cup region, 0)
    BY DEF Init
  <2>2. Fixed \cup region \in SUBSET Elements  BY <2>1, PageAssumption
  <2>3. ActivationsCover  BY <2>1, <2>2, NewActivation DEF ActivationsCover, Roots
  <2>4. ASSUME NEW e \in Fixed \cup region PROVE \E a \in activations : e \in Scanned(a)
    <3>1. PICK a \in activations : e \in a.elements /\ a.cause = 0
      BY <2>1, <2>2, <2>4, ActivationBegins DEF Roots
    <3>. QED  BY <2>1, <2>4, <3>1 DEF Scanned, Made
  <2>. QED  BY <2>3, <2>4 DEF ElementsInitialised, Present
<1>2. TypeOK /\ ActivationsCover /\ ElementsInitialised /\ [Next]_vars
        => ActivationsCover' /\ ElementsInitialised'
  BY ElementsStep
<1>. QED  BY <1>1, <1>2, PageTypeCorrect, PTL DEF Spec
=============================================================================
