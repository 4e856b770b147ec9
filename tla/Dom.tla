----------------------------------- MODULE Dom -----------------------------------
(***************************************************************************)
(* The pure half of honest-dom: collect, apply, stateDiff, redact and the  *)
(* time bound of the reload cache.  A slot is a manifest entry with one    *)
(* element.                                                                *)
(***************************************************************************)
EXTENDS Integers, FiniteSets

CONSTANTS
  Slots,     \* the keys of the manifest
  Written,   \* those with a write shortcut
  Ttl,       \* STATE_TTL_MS
  None       \* no value; also no cache, no request id

(* collect reads the slots as they are.                                    *)
Collect(dom) == dom

(* apply: only what declares a write and is in the state.                  *)
ApplyState(dom, state) == [k \in Slots |-> IF k \in Written THEN state[k] ELSE dom[k]]

(* stateDiff against what is cached; all is changed against no cache.      *)
ChangedKeys(cached, current) ==
  {k \in Slots : cached = None \/ cached.state[k] # current[k]}

(* Mutant: the bound itself is too old.                                    *)
Younger(cached, now) == cached # None /\ now - cached.timestamp < Ttl

(* restoreState: the cached state while it is valid.                       *)
Valid(cached, now) == cached # None /\ now - cached.timestamp <= Ttl
Restored(dom, cached, now) == IF Valid(cached, now) THEN ApplyState(dom, cached.state) ELSE dom

(* redact: the values of changed slots, in development only.               *)
Values(mode, changed, current) ==
  [k \in IF mode = "development" THEN changed ELSE {} |-> current[k]]
=============================================================================
