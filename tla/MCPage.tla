--------------------------------- MODULE MCPage ---------------------------------
(***************************************************************************)
(* Instances of Page for TLC.                                              *)
(***************************************************************************)
EXTENDS Page

CONSTANTS logo, price, list, format, drag, name, filters, v0

(* One element of the fixed part and two of the swapped one, two modules;  *)
(* the element of the second module declares nothing to parse.             *)
MCModuleOf == [e \in {logo, price, list} |-> IF e = list THEN drag ELSE format]
MCModuleOrder == <<drag, format>>

(* The region with and without the second module; the form as the server   *)
(* renders it, the filters with what it knows of them.                     *)
MCContents == {{price}, {price, list}}
MCRenderings ==
  {[k \in {name, filters} |-> IF k = name THEN v0 ELSE v] : v \in Vals}

(* Bounds: elements and slots share nothing but the request id, so a       *)
(* behaviour either swaps, imports and fails with two requests, or edits,  *)
(* reloads and shares the cache with a response or none.  The values of a  *)
(* change are in its beacon in development only.                           *)
Swaps ==
  /\ mode = "development" /\ edits + others + now = 0 /\ loads = 1
  /\ touched \cup lost \cup unsaved = {}
Edits ==
  /\ mode = "production" => lost = {}
  /\ region = {price} /\ failed = {} /\ requests <= 1
  /\ \A a \in activations : a.root = "body"
  /\ now + edits + others + loads + Len(handled) <= 6
Bounded == Swaps \/ Edits
=============================================================================
