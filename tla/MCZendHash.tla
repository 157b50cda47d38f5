----------------------------- MODULE MCZendHash -----------------------------
(***************************************************************************)
(* Model-checking instance of ZendHash.  The two string keys hash to slots *)
(* that collide with each other and with integer key 0 at every table     *)
(* size the bounds allow, so lookups, deletions and rehashes walk chains   *)
(* longer than one bucket.                                                 *)
(***************************************************************************)
EXTENDS ZendHash

CONSTANTS s1, s2, v1, w

MC_StrHash == [s \in Strs |-> IF s = s1 THEN 4 ELSE 8]

MC_IntKeys == {-1, 2}

MC_IntKeysRefine == {-1}

\* the arrays merged and copied in: two string keys (one of them s1's
\* collision partner), a string and an integer key, and the integer key 2
\* beyond a packed table's end.  Each comes with the value w, which tells
\* an overwritten entry from a kept one in the properties, and with v1,
\* the value the tables hold, for the merge actions.
MC_MergeSources ==
    LET srcs == { << [key |-> s2, val |-> w], [key |-> 0, val |-> w] >>,
                  << [key |-> s1, val |-> w], [key |-> s2, val |-> w] >>,
                  << [key |-> 2, val |-> w] >> }
    IN srcs \cup { [i \in DOMAIN src |-> [src[i] EXCEPT !.val = v1]] : src \in srcs }

=============================================================================
