---------------------------------- MODULE Boot ----------------------------------
(***************************************************************************)
(* One activation of honest-boot as a value: what scan finds under a root  *)
(* (scan.js), the modules loadModules still awaits and those it has        *)
(* (load.js), what activate does when it has them all (activate.js).       *)
(***************************************************************************)
EXTENDS Integers, Sequences

CONSTANTS
  Elements,    \* elements with a declared attribute or class
  ModuleOf,    \* the module of each element's prefix (the vocabulary)
  ModuleOrder, \* the modules in alphabetical order
  Configured   \* elements whose attributes give readConfig something

ASSUME BootAssumption ==
  \A e \in Elements : \E i \in DOMAIN ModuleOrder : ModuleOrder[i] = ModuleOf[e]

(* neededModules, a sorted list: the next to import is the first of it.    *)
NeededModules(elements) == {ModuleOf[e] : e \in elements}
FirstModule(modules) ==
  ModuleOrder[CHOOSE i \in DOMAIN ModuleOrder :
                /\ ModuleOrder[i] \in modules
                /\ \A j \in 1..(i - 1) : ModuleOrder[j] \notin modules]

(* activate up to its await: nothing is in the loaded set boot gives it.   *)
Activation(root, elements, cause) ==
  [root |-> root, elements |-> elements, cause |-> cause,
   left |-> NeededModules(elements), fresh |-> {}]

(* An import returned.                                                     *)
Imported(a) ==
  LET m == FirstModule(a.left)
  IN [root |-> a.root, elements |-> a.elements, cause |-> a.cause,
      left |-> a.left \ {m}, fresh |-> a.fresh \cup {m}]

(* The fresh modules activate initialises before m.                        *)
Before(a, m) ==
  {n \in a.fresh : \E i \in DOMAIN ModuleOrder :
                     ModuleOrder[i] = n /\ \A j \in 1..i : ModuleOrder[j] # m}

(* The elements under the root that initModule of those modules enhances.  *)
Initialises(modules, present) == {e \in present : ModuleOf[e] \in modules}

(* The scanned elements a classify event is emitted for.                   *)
Classified(a) == a.elements \cap Configured
=============================================================================
