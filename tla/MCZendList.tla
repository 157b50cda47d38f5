----------------------------- MODULE MCZendList -----------------------------
(* The resource registry for TLC: three handles per request, so that one   *)
(* resource can be shared and closed while others are opened and dropped; *)
(* two types from two modules, so that a module's cleanup leaves the other *)
(* type's persistent resources alone; two persistent keys.                 *)
EXTENDS ZendList, TLC

MCSymmetry == Permutations(PKeys) \cup Permutations(Modules)
====
