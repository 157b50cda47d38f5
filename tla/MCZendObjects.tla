---------------------------- MODULE MCZendObjects ----------------------------
(* The objects store for TLC: two object slots, so that every object can be *)
(* freed and its memory reused by a later `new` within five handles.        *)
EXTENDS ZendObjects
====
